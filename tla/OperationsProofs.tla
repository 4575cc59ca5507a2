-------------------------- MODULE OperationsProofs --------------------------
(***************************************************************************)
(* Proofs about Operations, for any articles, workers, commands and days.  *)
(* A worker's place in its program tells what kind of job it runs: only    *)
(* fetch cycles plan.  The slots of a day are ahead and in order; the      *)
(* quota and the times rest on one cycle planning at a time, what an       *)
(* article may cost on the number of jobs that outlived their lock, and    *)
(* what a pipeline delivers on both.  The types come last: they rest on    *)
(* the slots.                                                              *)
(***************************************************************************)
EXTENDS Operations, SlotsProofs

PlanSteps == {"pull", "score", "breaking", "assign now", "count", "select", "assign"}

\* A planning step belongs to a fetch cycle.
IsJob(j) ==
    j = [f \in {"kind", "pc", "batch", "limit", "slots", "plan", "owed", "since"} |-> j[f]]
JobHolds(j) ==
    /\ IsJob(j)
    /\ j.pc \in PlanSteps => j.kind = "fetch"

JobInv == /\ job = [w \in Workers |-> job[w]]
          /\ \A w \in Workers : JobHolds(job[w])

LEMMA NoJobHolds == JobHolds(NoJob)
  BY DEF JobHolds, IsJob, NoJob, PlanSteps

\* A step of one worker that leaves its job as it has to be.
LEMMA OneMoves ==
    ASSUME JobInv, NEW w \in Workers, NEW j, JobHolds(j), job' = [job EXCEPT ![w] = j]
    PROVE  JobInv'
  BY DEF JobInv

LEMMA FinishHolds ==
    ASSUME JobInv, NEW w \in Workers, Finish(w)
    PROVE  JobInv'
  BY NoJobHolds, OneMoves DEF Finish

\* A step within a job keeps its kind.
LEMMA Moved ==
    ASSUME JobInv, NEW w \in Workers, NEW j, IsJob(j), j.kind = job[w].kind,
           j.pc \in PlanSteps => job[w].pc \in PlanSteps,
           job' = [job EXCEPT ![w] = j]
    PROVE  JobInv' /\ job'[w].kind = job[w].kind
  <1>1. JobHolds(j)
    BY DEF JobInv, JobHolds
  <1> QED
    BY <1>1, OneMoves DEF JobInv

LEMMA AfterProcessMoves ==
    ASSUME JobInv, NEW w \in Workers, AfterProcess(w)
    PROVE  JobInv'
  <1>1. CASE job[w].kind = "pipeline"
    <2> DEFINE j == [job[w] EXCEPT !.pc = "publish", !.batch = {}]
    <2>1. job' = [job EXCEPT ![w] = j]
      BY <1>1 DEF AfterProcess, JobInv
    <2>2. IsJob(j) /\ j.kind = job[w].kind /\ j.pc = "publish"
      BY DEF JobInv, JobHolds, IsJob
    <2> HIDE DEF j
    <2> QED
      BY <2>1, <2>2, Moved DEF PlanSteps
  <1>2. CASE job[w].kind # "pipeline"
    BY <1>2, FinishHolds DEF AfterProcess
  <1> QED
    BY <1>1, <1>2

\* The planner's steps, which only fetch cycles take.
PlanStep(w) == \/ \E served \in SUBSET Articles : Pull(w, served)
               \/ \E breaking \in SUBSET Articles : Score(w, breaking)
               \/ \E found \in SUBSET Articles : ReadBreaking(w, found)
               \/ AssignBreaking(w) \/ CountToday(w)
               \/ \E found \in SUBSET Articles : SelectForQuota(w, found)
               \/ AssignQuota(w)

LEMMA PlanMoves ==
    ASSUME JobInv, NEW w \in Workers, PlanStep(w)
    PROVE  JobInv'
  <1>1. job[w].pc \in PlanSteps /\ job[w].kind = "fetch" /\ IsJob(job[w])
    BY DEF PlanStep, Pull, Score, ReadBreaking, AssignBreaking, CountToday, SelectForQuota,
           AssignQuota, At, PlanSteps, JobInv, JobHolds
  <1>f. Finish(w) => JobInv'
    BY FinishHolds
  <1>g. ASSUME NEW j, IsJob(j), j.kind = job[w].kind, job' = [job EXCEPT ![w] = j]
        PROVE  JobInv'
    BY <1>1, <1>g, Moved
  <1>2. ASSUME NEW p, Goto(w, p) PROVE JobInv'
    <2> DEFINE j == [job[w] EXCEPT !.pc = p]
    <2>1. job' = [job EXCEPT ![w] = j]
      BY <1>2 DEF Goto, JobInv
    <2>2. IsJob(j) /\ j.kind = job[w].kind
      BY <1>1 DEF IsJob
    <2> HIDE DEF j
    <2> QED
      BY <1>g, <2>1, <2>2
  <1>3. ASSUME NEW p, NEW x,
               \/ job' = [job EXCEPT ![w].pc = p, ![w].plan = x]
               \/ job' = [job EXCEPT ![w].pc = p, ![w].slots = x]
        PROVE  JobInv'
    <2> DEFINE j == [job[w] EXCEPT !.pc = p, !.plan = x]
               i == [job[w] EXCEPT !.pc = p, !.slots = x]
    <2>1. job' = [job EXCEPT ![w] = j] \/ job' = [job EXCEPT ![w] = i]
      BY <1>3 DEF JobInv
    <2>2. /\ IsJob(j) /\ j.kind = job[w].kind
          /\ IsJob(i) /\ i.kind = job[w].kind
      BY <1>1 DEF IsJob
    <2> HIDE DEF i, j
    <2> QED
      BY <1>g, <2>1, <2>2
  <1>4. CASE \E served \in SUBSET Articles : Pull(w, served)
    BY <1>2, <1>4 DEF Pull
  <1>5. CASE \E breaking \in SUBSET Articles : Score(w, breaking)
    BY <1>2, <1>5 DEF Score
  <1>6. CASE (\E found \in SUBSET Articles : ReadBreaking(w, found)) \/ AssignBreaking(w)
    BY <1>3, <1>6 DEF ReadBreaking, AssignBreaking
  <1>7. CASE CountToday(w) \/ (\E found \in SUBSET Articles : SelectForQuota(w, found)) \/ AssignQuota(w)
    BY <1>3, <1>f, <1>7 DEF CountToday, SelectForQuota, AssignQuota
  <1> QED
    BY <1>4, <1>5, <1>6, <1>7 DEF PlanStep

\* The steps of the publish stage.
PublishStep(w) == \/ OpenPublish(w) \/ CountDue(w)
                  \/ \E list \in SUBSET Articles : ReadList(w, list)
                  \/ \E a \in Articles : Post(w, a) \/ PostFails(w, a)
                  \/ EndPublish(w)
PublishSteps == {"publish", "count due", "list", "post"}

\* Each ends the job, goes on to the next place, or does away with a part of the list.
LEMMA PublishWrites ==
    ASSUME JobInv, NEW w \in Workers, PublishStep(w)
    PROVE  /\ job[w].pc \in PublishSteps
           /\ \/ Finish(w)
              \/ \E j : /\ IsJob(j) /\ j.kind = job[w].kind /\ j.pc \in PublishSteps
                        /\ j.owed = job[w].owed /\ j.since = job[w].since
                        /\ job' = [job EXCEPT ![w] = j]
  <1>0. IsJob(job[w])
    BY DEF JobInv, JobHolds
  <1>g. ASSUME NEW p \in PublishSteps, NEW x,
               \/ job' = [job EXCEPT ![w].pc = p] \/ job' = [job EXCEPT ![w].pc = p, ![w].limit = x]
               \/ job' = [job EXCEPT ![w].pc = p, ![w].batch = x]
        PROVE  \E j : /\ IsJob(j) /\ j.kind = job[w].kind /\ j.pc \in PublishSteps
                      /\ j.owed = job[w].owed /\ j.since = job[w].since
                      /\ job' = [job EXCEPT ![w] = j]
    <2> DEFINE h == [job[w] EXCEPT !.pc = p]
               i == [job[w] EXCEPT !.pc = p, !.limit = x]
               j == [job[w] EXCEPT !.pc = p, !.batch = x]
    <2>1. job' = [job EXCEPT ![w] = h] \/ job' = [job EXCEPT ![w] = i] \/ job' = [job EXCEPT ![w] = j]
      BY <1>g DEF JobInv
    <2>2. /\ IsJob(h) /\ h.kind = job[w].kind /\ h.pc = p /\ h.owed = job[w].owed /\ h.since = job[w].since
          /\ IsJob(i) /\ i.kind = job[w].kind /\ i.pc = p /\ i.owed = job[w].owed /\ i.since = job[w].since
          /\ IsJob(j) /\ j.kind = job[w].kind /\ j.pc = p /\ j.owed = job[w].owed /\ j.since = job[w].since
      BY <1>0 DEF IsJob
    <2> HIDE DEF h, i, j
    <2> QED
      BY <1>g, <2>1, <2>2
  <1>1. CASE OpenPublish(w)
    BY <1>1, <1>g DEF OpenPublish, Goto, At, PublishSteps
  <1>2. CASE CountDue(w)
    BY <1>2, <1>g DEF CountDue, At, PublishSteps
  <1>3. CASE \E list \in SUBSET Articles : ReadList(w, list)
    BY <1>3, <1>g DEF ReadList, At, PublishSteps
  <1>4. CASE \E a \in Articles : Post(w, a) \/ PostFails(w, a)
    <2>1. PICK a \in Articles : At(w, "post") /\ job' = [job EXCEPT ![w].batch = @ \ {a}]
      BY <1>4 DEF Post, PostFails, Listed, NextListed
    <2> DEFINE b == job[w].batch \ {a}
               j == [job[w] EXCEPT !.batch = b]
    <2>2. job' = [job EXCEPT ![w] = j]
      BY <2>1 DEF JobInv
    <2> HIDE DEF b
    <2>3. /\ IsJob(j) /\ j.kind = job[w].kind /\ j.pc = "post"
          /\ j.owed = job[w].owed /\ j.since = job[w].since
      BY <1>0, <2>1 DEF IsJob, At
    <2> HIDE DEF j
    <2> QED
      BY <2>1, <2>2, <2>3 DEF At, PublishSteps
  <1>5. CASE EndPublish(w)
    BY <1>5 DEF EndPublish, At, PublishSteps
  <1> QED
    BY <1>1, <1>2, <1>3, <1>4, <1>5 DEF PublishStep

LEMMA PublishMoves ==
    ASSUME JobInv, NEW w \in Workers, PublishStep(w)
    PROVE  JobInv'
  BY PublishWrites, FinishHolds, Moved DEF PublishSteps, PlanSteps

LEMMA StepMoves ==
    ASSUME JobInv, NEW w \in Workers, Step(w)
    PROVE  JobInv'
  <1>0. IsJob(job[w]) /\ (job[w].pc \in PlanSteps => job[w].kind = "fetch")
    BY DEF JobInv, JobHolds
  <1>1. CASE PlanStep(w)
    BY <1>1, PlanMoves
  <1>2. CASE ReadDue(w)
    <2> DEFINE b == {a \in Articles : row[a].st = "new" /\ Due(a)}
               j == [job[w] EXCEPT !.pc = "enrich", !.batch = b]
    <2>1. job' = [job EXCEPT ![w] = j]
      BY <1>2 DEF ReadDue, JobInv
    <2> HIDE DEF b
    <2>2. IsJob(j) /\ j.kind = job[w].kind /\ j.pc = "enrich"
      BY <1>0 DEF IsJob
    <2> HIDE DEF j
    <2> QED
      BY <2>1, <2>2, Moved DEF PlanSteps
  <1>3. CASE \E a \in Articles : Enrich(w, a)
    <2>1. PICK a \in Articles : job' = [job EXCEPT ![w].batch = @ \ {a}]
      BY <1>3 DEF Enrich
    <2> DEFINE b == job[w].batch \ {a}
               j == [job[w] EXCEPT !.batch = b]
    <2>2. job' = [job EXCEPT ![w] = j]
      BY <2>1 DEF JobInv
    <2> HIDE DEF b
    <2>3. IsJob(j) /\ j.kind = job[w].kind /\ j.pc = job[w].pc
      BY <1>0 DEF IsJob
    <2> HIDE DEF j
    <2> QED
      BY <2>2, <2>3, Moved
  <1>4. CASE EndProcess(w) \/ ProcessRaises(w)
    BY <1>4, AfterProcessMoves DEF EndProcess, ProcessRaises
  <1>5. CASE PublishStep(w)
    BY <1>5, PublishMoves
  <1> QED
    BY <1>1, <1>2, <1>3, <1>4, <1>5 DEF Step, PlanStep, PublishStep

\* A job begins where its command does.
LEMMA Beginning ==
    ASSUME NEW kind
    PROVE  /\ IsJob(Begun(kind)) /\ Begun(kind).kind = kind /\ Begun(kind).pc = FirstStep(kind)
           /\ <<Begun(kind).batch, Begun(kind).plan, Begun(kind).slots, Begun(kind).limit>>
                 = <<{}, {}, <<>>, 0>>
           /\ kind = "pipeline" =>
                 Begun(kind).owed = {a \in Articles \ Stubborn : Ready(a)} /\ Begun(kind).since = upsets
           /\ kind # "pipeline" => Begun(kind).owed = {} /\ Begun(kind).since = 0
  <1> DEFINE o == {a \in Articles \ Stubborn : Ready(a)}
             j == [NoJob EXCEPT !.kind = kind, !.pc = FirstStep(kind)]
             i == [j EXCEPT !.owed = o, !.since = upsets]
  <1>1. Begun(kind) = IF kind = "pipeline" THEN i ELSE j
    BY DEF Begun
  <1> HIDE DEF o
  <1>2. /\ IsJob(j) /\ j.kind = kind /\ j.pc = FirstStep(kind)
        /\ <<j.batch, j.plan, j.slots, j.limit, j.owed, j.since>> = <<{}, {}, <<>>, 0, {}, 0>>
    BY DEF NoJob, IsJob
  <1>3. /\ IsJob(i) /\ i.kind = kind /\ i.pc = FirstStep(kind)
        /\ <<i.batch, i.plan, i.slots, i.limit, i.owed, i.since>> = <<{}, {}, <<>>, 0, o, upsets>>
    BY DEF NoJob, IsJob
  <1> HIDE DEF i, j
  <1> QED
    BY <1>1, <1>2, <1>3 DEF o

LEMMA NextMoves ==
    ASSUME JobInv, [Next]_vars
    PROVE  JobInv'
  <1>1. ASSUME NEW w \in Workers, NEW kind \in mix, Start(w, kind) PROVE JobInv'
    <2> DEFINE j == Begun(kind)
    <2>1. job' = [job EXCEPT ![w] = j]
      BY <1>1 DEF Start
    <2>2. IsJob(j) /\ j.kind = kind /\ j.pc = FirstStep(kind)
      BY Beginning
    <2>3. FirstStep(kind) \in PlanSteps => kind = "fetch"
      BY DEF FirstStep, PlanSteps
    <2> HIDE DEF j
    <2> QED
      BY <2>1, <2>2, <2>3, OneMoves DEF JobHolds
  <1>2. ASSUME NEW w \in Workers, Step(w) PROVE JobInv'
    BY <1>2, StepMoves
  <1>3. ASSUME NEW w \in Workers, Crash(w) PROVE JobInv'
    BY <1>3, FinishHolds DEF Crash
  <1>4. CASE (\E k \in Locks : LoseLock(k)) \/ Tick \/ UNCHANGED vars
    <2>1. job' = job
      BY <1>4 DEF LoseLock, Tick, vars
    <2> QED
      BY <2>1 DEF JobInv
  <1> QED
    BY <1>1, <1>2, <1>3, <1>4 DEF Next

LEMMA CountStep ==
    ASSUME upsets \in Nat, [Next]_vars
    PROVE  upsets' \in {upsets, upsets + 1} /\ upsets' \in Nat
  <1>1. upsets' = upsets \/ upsets' = upsets + 1
    <2>1. ASSUME NEW w \in Workers, Step(w) PROVE upsets' = upsets \/ upsets' = upsets + 1
      BY <2>1 DEF Step, Pull, Score, ReadBreaking, AssignBreaking, CountToday, SelectForQuota,
                  AssignQuota, ReadDue, Enrich, EndProcess, ProcessRaises, OpenPublish, CountDue,
                  ReadList, Post, PostFails, EndPublish, Upset
    <2>2. ASSUME NEW w \in Workers, Crash(w) \/ \E kind \in mix : Start(w, kind)
          PROVE  upsets' = upsets \/ upsets' = upsets + 1
      BY <2>2 DEF Crash, Start, Upset
    <2>3. CASE (\E k \in Locks : LoseLock(k)) \/ Tick \/ UNCHANGED vars
      BY <2>3 DEF LoseLock, Tick, vars, Upset
    <2> QED
      BY <2>1, <2>2, <2>3 DEF Next
  <1> QED
    BY <1>1

-----------------------------------------------------------------------------
(***************************************************************************)
(* The quota.  While the fetch lock has not been lost one cycle at most    *)
(* plans, so the places it counted are still free and the rows it chose    *)
(* still unplanned when it assigns them, whatever retires rows and         *)
(* whichever day begins in between.                                        *)
(***************************************************************************)
IsRow(r) == r = [f \in {"st", "breaking", "chosen", "day", "at"} |-> r[f]]
RowsOK ==
    /\ row = [a \in Articles |-> row[a]]
    /\ \A a \in Articles : IsRow(row[a]) /\ row[a].day \in Int

\* Nothing is planned for a day to come.
NoneAhead == \A a \in Articles : row[a].chosen => row[a].day <= DayOf(clock)

\* The articles that take a place of day d, and the days a cycle may still plan.
Filled(d) == {a \in Articles : row[a].chosen /\ row[a].day = d}
Ahead == {d \in Int : DayOf(clock) <= d}
Fits(n) == \A d \in Ahead : Cardinality(Filled(d)) + n <= DailyTarget

Unplanned(S) == S \subseteq Articles /\ \A a \in S : ~row[a].chosen
PlannerHolds(w) ==
    /\ job[w].pc \in PlanSteps => lock["fetch"] = w
    /\ At(w, "assign now") => Unplanned(job[w].plan) /\ \A a \in job[w].plan : row[a].breaking
    /\ At(w, "select") => Len(job[w].slots) \in Nat /\ Fits(Len(job[w].slots))
    /\ At(w, "assign") => Unplanned(job[w].plan) /\ Fits(Cardinality(job[w].plan))

Safe == \A w \in Workers : PlannerHolds(w)
PlanInv == /\ JobInv /\ RowsOK /\ NoneAhead /\ clock \in Nat
           /\ lock = [k \in Locks |-> lock[k]]
           /\ "fetch" \notin lost => Safe

\* What was planned keeps its time.
TimesKept ==
    \A a \in Articles :
        (row[a].chosen /\ row'[a].chosen /\ "fetch" \notin lost) =>
            row'[a].at = row[a].at /\ row'[a].day = row[a].day
\* Whoever plans an article that is not breaking leaves the day within its quota.
WithinQuota ==
    ("fetch" \notin lost /\ \E a \in Articles :
        ~row[a].breaking /\ ~row[a].chosen /\ row'[a].chosen)
      => Cardinality(ChosenToday') <= DailyTarget
PlanMove == PlanInv' /\ TimesKept /\ WithinQuota

LEMMA FilledFinite == \A d : IsFiniteSet(Filled(d)) /\ Cardinality(Filled(d)) \in Nat
  <1> SUFFICES ASSUME NEW d PROVE IsFiniteSet(Filled(d)) /\ Cardinality(Filled(d)) \in Nat
    OBVIOUS
  <1>1. Filled(d) \in SUBSET Articles /\ IsFiniteSet(Articles)
    BY OperationsAssumption DEF Filled
  <1> HIDE DEF Filled
  <1>2. IsFiniteSet(Filled(d))
    BY <1>1, FS_Subset
  <1> QED
    BY <1>2, FS_CardinalityType

\* LIMIT n returns no more than n rows: no two rows have the same place in the order.
LEMMA FirstOfBound ==
    ASSUME NEW S \in SUBSET Articles, NEW n \in Nat
    PROVE  FirstOf(S, n) \in SUBSET S /\ Cardinality(FirstOf(S, n)) \in 0..n
  <1> DEFINE Above(a) == {b \in S : b > a}
             T == FirstOf(S, n)
             rank == [a \in T |-> Before(a, S)]
  <1>0. Articles \subseteq Nat /\ IsFiniteSet(Articles) /\ \A a \in S : a \in Nat
    BY OperationsAssumption
  <1>1. IsFiniteSet(S) /\ T \in SUBSET S
    BY <1>0, FS_Subset DEF FirstOf
  <1>2. IsFiniteSet(T)
    BY <1>1, FS_Subset
  <1>3. \A a \in S : IsFiniteSet(Above(a)) /\ Before(a, S) = Cardinality(Above(a))
    <2> SUFFICES ASSUME NEW a \in S
                 PROVE  IsFiniteSet(Above(a)) /\ Before(a, S) = Cardinality(Above(a))
      OBVIOUS
    <2>1. Above(a) \in SUBSET S
      OBVIOUS
    <2>2. Before(a, S) = Cardinality(Above(a))
      BY DEF Before
    <2> QED
      BY <1>1, <2>1, <2>2, FS_Subset
  <1>4. \A a \in S : Before(a, S) \in Nat
    BY <1>3, FS_CardinalityType
  <1>5. ASSUME NEW a \in S, NEW b \in S, a < b
        PROVE  Before(a, S) # Before(b, S)
    <2>0. \A c \in S : c > b => c > a
      BY <1>0, <1>5
    <2>1. Above(b) \in SUBSET Above(a)
      BY <2>0
    <2>2. Above(a) # Above(b)
      <3>1. b > a /\ ~(b > b)
        BY <1>0, <1>5
      <3> QED
        BY <3>1
    <2> HIDE DEF Above
    <2>3. Cardinality(Above(a)) # Cardinality(Above(b))
      BY <1>3, <2>1, <2>2, FS_Subset
    <2> QED
      BY <1>3, <2>3
  <1>6. rank \in Injection(T, 0..(n - 1))
    <2>1. \A a \in T : Before(a, S) \in 0..(n - 1)
      BY <1>1, <1>4 DEF FirstOf
    <2>2. \A a, b \in T : a # b => Before(a, S) # Before(b, S)
      <3> SUFFICES ASSUME NEW a \in T, NEW b \in T, a # b PROVE Before(a, S) # Before(b, S)
        OBVIOUS
      <3>0. a \in S /\ b \in S
        BY <1>1
      <3>1. a < b \/ b < a
        BY <1>0, <3>0
      <3> QED
        BY <1>5, <3>0, <3>1
    <2> HIDE DEF T
    <2> QED
      BY <2>1, <2>2 DEF Injection, IsInjective
  <1>7. IsFiniteSet(0..(n - 1)) /\ Cardinality(0..(n - 1)) = n
    BY FS_Interval
  <1> HIDE DEF T, rank
  <1>8. Cardinality(T) <= n
    BY <1>6, <1>7, FS_Injection
  <1>9. Cardinality(T) \in Nat
    BY <1>2, FS_CardinalityType
  <1> QED
    BY <1>1, <1>8, <1>9 DEF T

\* A step that chooses no row, changes nothing of a chosen one and leaves the jobs
\* between two planning steps alone.
KeepsPlan ==
    \A a \in Articles : row'[a].chosen =>
        row[a].chosen /\ row'[a].day = row[a].day /\ row'[a].at = row[a].at
Calm == /\ RowsOK' /\ JobInv' /\ lock' = [k \in Locks |-> lock'[k]]
        /\ clock' \in {clock, clock + 1}
        /\ lost \subseteq lost'
        /\ KeepsPlan
        /\ \A w \in Workers :
              \/ job'[w] = job[w]
              \/ job'[w].pc \notin {"assign now", "select", "assign"}
        /\ \/ \A a \in Articles : row'[a].breaking = row[a].breaking
           \/ "fetch" \notin lost => \A w \in Workers : job'[w].pc # "assign now"
        /\ "fetch" \notin lost' =>
              \A w \in Workers : job'[w].pc \in PlanSteps => lock'["fetch"] = w

LEMMA CalmMoves == ASSUME PlanInv, Calm PROVE PlanMove
  <1>1. clock' \in Nat /\ DayOf(clock) \in Nat /\ DayOf(clock') \in Nat /\ DayOf(clock) <= DayOf(clock')
    <2>1. clock \in Nat
      BY DEF PlanInv
    <2>2. /\ DayOf(clock) \in Nat /\ DayOf(clock) <= DayOf(clock + 1)
          /\ DayOf(clock + 1) \in Nat
      BY <2>1, DayGrows
    <2>3. clock' = clock \/ clock' = clock + 1
      BY DEF Calm
    <2> QED
      BY <2>1, <2>2, <2>3
  <1>2. NoneAhead'
    <2> SUFFICES ASSUME NEW a \in Articles, row'[a].chosen
                 PROVE  row'[a].day <= DayOf(clock')
      BY DEF NoneAhead
    <2>1. row'[a].day = row[a].day /\ row[a].day <= DayOf(clock) /\ row[a].day \in Int
      BY DEF Calm, KeepsPlan, PlanInv, NoneAhead, RowsOK
    <2> QED
      BY <1>1, <2>1
  <1>3. \A d : Cardinality(Filled(d)') \in Nat /\ Cardinality(Filled(d)') <= Cardinality(Filled(d))
    <2> SUFFICES ASSUME NEW d
                 PROVE  Cardinality(Filled(d)') \in Nat /\ Cardinality(Filled(d)') <= Cardinality(Filled(d))
      OBVIOUS
    <2>1. Filled(d)' \in SUBSET Filled(d)
      BY DEF Filled, Calm, KeepsPlan
    <2>2. IsFiniteSet(Filled(d)') /\ Cardinality(Filled(d)') <= Cardinality(Filled(d))
      BY <2>1, FilledFinite, FS_Subset
    <2> QED
      BY <2>2, FS_CardinalityType
  <1>4. \A n \in Nat : Fits(n) => Fits(n)'
    <2> SUFFICES ASSUME NEW n \in Nat, Fits(n) PROVE Fits(n)'
      OBVIOUS
    <2> SUFFICES ASSUME NEW d \in Int, DayOf(clock') <= d
                 PROVE  Cardinality(Filled(d)') + n <= DailyTarget
      BY DEF Fits, Ahead
    <2>1. d \in Ahead
      BY <1>1 DEF Ahead
    <2>2. Cardinality(Filled(d)) + n <= DailyTarget /\ DailyTarget \in Nat
      BY <2>1, OperationsAssumption DEF Fits
    <2> QED
      BY <1>3, <2>2, FilledFinite
  <1>5. ASSUME "fetch" \notin lost' PROVE Safe'
    <2>1. "fetch" \notin lost /\ Safe
      BY <1>5 DEF Calm, PlanInv
    <2>3. ASSUME NEW w \in Workers PROVE PlannerHolds(w)'
      <3>1. job'[w].pc \in PlanSteps => lock'["fetch"] = w
        BY <1>5 DEF Calm
      <3>2. CASE job'[w].pc \notin {"assign now", "select", "assign"}
        BY <3>1, <3>2 DEF PlannerHolds, At
      <3>3. CASE job'[w] = job[w]
        <4>1. PlannerHolds(w)
          BY <2>1 DEF Safe
        <4>2. \A S : Unplanned(S) => Unplanned(S)'
          BY DEF Calm, KeepsPlan, Unplanned
        <4>3. CASE job[w].pc = "assign now"
          <5>1. Unplanned(job[w].plan) /\ \A a \in job[w].plan : row[a].breaking
            BY <4>1, <4>3 DEF PlannerHolds, At
          <5>2. \A a \in Articles : row'[a].breaking = row[a].breaking
            BY <2>1, <3>3, <4>3 DEF Calm
          <5>3. \A a \in job[w].plan : row'[a].breaking
            BY <5>1, <5>2 DEF Unplanned
          <5> QED
            BY <3>1, <3>3, <4>2, <4>3, <5>1, <5>3 DEF PlannerHolds, At
        <4>4. CASE job[w].pc = "select"
          BY <1>4, <3>1, <3>3, <4>1, <4>4 DEF PlannerHolds, At
        <4>5. CASE job[w].pc = "assign"
          <5>1. Unplanned(job[w].plan) /\ Fits(Cardinality(job[w].plan))
            BY <4>1, <4>5 DEF PlannerHolds, At
          <5>2. Cardinality(job[w].plan) \in Nat
            BY <5>1, OperationsAssumption, FS_Subset, FS_CardinalityType DEF Unplanned
          <5>3. Fits(Cardinality(job[w].plan))'
            <6> DEFINE n == Cardinality(job[w].plan)
            <6>1. n' = n
              BY <3>3
            <6> HIDE DEF n
            <6>2. Fits(n)'
              BY <1>4, <5>1, <5>2, <6>1 DEF n, Fits
            <6> QED
              BY <6>2 DEF n
          <5> QED
            BY <3>1, <3>3, <4>2, <4>5, <5>1, <5>3 DEF PlannerHolds, At
        <4> QED
          BY <3>1, <3>3, <4>3, <4>4, <4>5 DEF PlannerHolds, At
      <3> QED
        BY <3>2, <3>3 DEF Calm
    <2> QED
      BY <2>3 DEF Safe
  <1>6. TimesKept /\ WithinQuota
    BY DEF Calm, KeepsPlan, TimesKept, WithinQuota
  <1> QED
    BY <1>1, <1>2, <1>5, <1>6 DEF PlanMove, PlanInv, Calm

\* A step of a planner that touches no row but has to hand on what it read.
LEMMA StillMoves ==
    ASSUME PlanInv, NEW w \in Workers, NEW j, job' = [job EXCEPT ![w] = j],
           JobInv', PlannerHolds(w)', UNCHANGED <<row, clock, lock, lost>>
    PROVE  PlanMove
  <1>1. RowsOK' /\ NoneAhead'
    BY DEF PlanInv, RowsOK, NoneAhead
  <1>2. \A d : Filled(d)' = Filled(d)
    BY DEF Filled
  <1>3. ASSUME "fetch" \notin lost PROVE Safe'
    <2>1. \A v \in Workers : PlannerHolds(v)
      BY <1>3 DEF PlanInv, Safe
    <2>2. ASSUME NEW v \in Workers, v # w PROVE PlannerHolds(v)'
      <3>1. job'[v] = job[v]
        BY <2>2 DEF PlanInv, JobInv
      <3>2. PlannerHolds(v)
        BY <2>1
      <3> QED
        BY <1>2, <3>1, <3>2 DEF PlannerHolds, Unplanned, Fits, Ahead, At
    <2> QED
      BY <2>2 DEF Safe
  <1> QED
    BY <1>1, <1>3 DEF PlanMove, PlanInv, TimesKept, WithinQuota

\* The end of a job frees none of the locks of the others.
LEMMA FinishCalm ==
    ASSUME PlanInv, NEW w \in Workers, Finish(w), RowsOK', clock' = clock, lost \subseteq lost',
           \A a \in Articles : row'[a].breaking = row[a].breaking,
           KeepsPlan
    PROVE  PlanMove
  <1>1. JobInv'
    BY FinishHolds DEF PlanInv
  <1>2. job' = [job EXCEPT ![w] = NoJob] /\ lock' = Released(w)
    BY DEF Finish
  <1>3. \A v \in Workers : job'[v] = IF v = w THEN NoJob ELSE job[v]
    BY <1>2 DEF PlanInv, JobInv
  <1>4. NoJob.pc = "idle"
    BY DEF NoJob
  <1>5. ASSUME "fetch" \notin lost', NEW v \in Workers, job'[v].pc \in PlanSteps
        PROVE  lock'["fetch"] = v
    <2>1. v # w /\ job[v].pc \in PlanSteps
      BY <1>3, <1>4, <1>5 DEF PlanSteps
    <2>2. lock["fetch"] = v
      BY <1>5, <2>1 DEF PlanInv, Safe, PlannerHolds
    <2> QED
      BY <1>2, <2>1, <2>2 DEF Released, Locks
  <1>6. lock' = [k \in Locks |-> lock'[k]]
    BY <1>2 DEF Released
  <1>7. \A v \in Workers : job'[v] = job[v] \/ job'[v].pc \notin {"assign now", "select", "assign"}
    BY <1>3, <1>4
  <1>8. Calm
    BY <1>1, <1>5, <1>6, <1>7 DEF Calm
  <1> QED
    BY <1>8, CalmMoves

\* A step within a job that changes no lock, and no place of a row in the plan.
LEMMA WorkCalm ==
    ASSUME PlanInv, NEW w \in Workers, JobInv', RowsOK', UNCHANGED <<clock, lock, lost>>,
           \A v \in Workers : v # w => job'[v] = job[v],
           job'[w].pc \notin {"assign now", "select", "assign"},
           job'[w].pc \in PlanSteps => job[w].pc \in PlanSteps,
           \/ \A a \in Articles : row'[a].breaking = row[a].breaking
           \/ job[w].pc \in PlanSteps,
           KeepsPlan
    PROVE  PlanMove
  <1>1. ASSUME "fetch" \notin lost PROVE \A v \in Workers : job[v].pc \in PlanSteps => lock["fetch"] = v
    BY <1>1 DEF PlanInv, Safe, PlannerHolds
  <1>2. ASSUME "fetch" \notin lost' PROVE \A v \in Workers : job'[v].pc \in PlanSteps => lock'["fetch"] = v
    BY <1>1, <1>2
  <1>3. \/ \A a \in Articles : row'[a].breaking = row[a].breaking
        \/ "fetch" \notin lost => \A v \in Workers : job'[v].pc # "assign now"
    <2> SUFFICES ASSUME job[w].pc \in PlanSteps, "fetch" \notin lost, NEW v \in Workers
                 PROVE  job'[v].pc # "assign now"
      OBVIOUS
    <2>1. lock["fetch"] = w
      BY <1>1
    <2> SUFFICES ASSUME job'[v].pc = "assign now" PROVE FALSE
      OBVIOUS
    <2>2. v # w /\ job[v].pc \in PlanSteps
      BY DEF PlanSteps
    <2> QED
      BY <1>1, <2>1, <2>2
  <1>4. lock' = [k \in Locks |-> lock'[k]]
    BY DEF PlanInv
  <1>5. Calm
    BY <1>2, <1>3, <1>4 DEF Calm
  <1> QED
    BY <1>5, CalmMoves

LEMMA PullMoves ==
    ASSUME PlanInv, JobInv', NEW w \in Workers, NEW served \in SUBSET Articles, Pull(w, served)
    PROVE  PlanMove
  <1>1. \A a \in Articles : row'[a] = row[a] \/ row'[a] = [row[a] EXCEPT !.st = "new"]
    BY DEF Pull
  <1>2. row' = [a \in Articles |-> row'[a]]
    BY DEF Pull
  <1>3. ASSUME NEW a \in Articles
        PROVE  /\ IsRow(row'[a]) /\ row'[a].day \in Int /\ row'[a].chosen = row[a].chosen
               /\ row'[a].day = row[a].day /\ row'[a].at = row[a].at
    <2>1. IsRow(row[a]) /\ row[a].day \in Int
      BY DEF PlanInv, RowsOK
    <2> QED
      BY <1>1, <2>1 DEF IsRow
  <1>4. RowsOK'
    BY <1>2, <1>3 DEF RowsOK
  <1>5. /\ job[w].pc = "pull" /\ job'[w].pc = "score"
        /\ \A v \in Workers : v # w => job'[v] = job[v]
    <2>1. IsJob(job[w]) /\ job = [v \in Workers |-> job[v]]
      BY DEF PlanInv, JobInv, JobHolds
    <2> QED
      BY <2>1 DEF Pull, Goto, At, IsJob
  <1>6. UNCHANGED <<clock, lock, lost>>
    BY DEF Pull
  <1>7. KeepsPlan
    BY <1>3 DEF KeepsPlan
  <1> QED
    BY <1>4, <1>5, <1>6, <1>7, WorkCalm DEF PlanSteps

\* Rating a row anew may change whether a planned one is breaking, but no plan.
LEMMA ScoreMoves ==
    ASSUME PlanInv, JobInv', NEW w \in Workers,
           NEW breaking \in SUBSET Articles, Score(w, breaking)
    PROVE  PlanMove
  <1>1. \A a \in Articles : row'[a] = [row[a] EXCEPT !.breaking = a \in breaking]
    BY DEF Score
  <1>2. row' = [a \in Articles |-> row'[a]]
    BY DEF Score
  <1>3. ASSUME NEW a \in Articles
        PROVE  /\ IsRow(row'[a]) /\ row'[a].day \in Int /\ row'[a].chosen = row[a].chosen
               /\ row'[a].day = row[a].day /\ row'[a].at = row[a].at
    <2>1. IsRow(row[a]) /\ row[a].day \in Int
      BY DEF PlanInv, RowsOK
    <2> DEFINE x == a \in breaking
               r == [row[a] EXCEPT !.breaking = x]
    <2>2. row'[a] = r
      BY <1>1
    <2> HIDE DEF x
    <2> QED
      BY <2>1, <2>2 DEF IsRow
  <1>4. RowsOK'
    BY <1>2, <1>3 DEF RowsOK
  <1>5. /\ job[w].pc = "score" /\ job'[w].pc = "breaking"
        /\ \A v \in Workers : v # w => job'[v] = job[v]
    <2>1. IsJob(job[w]) /\ job = [v \in Workers |-> job[v]]
      BY DEF PlanInv, JobInv, JobHolds
    <2> QED
      BY <2>1 DEF Score, Goto, At, IsJob
  <1>6. UNCHANGED <<clock, lock, lost>>
    BY DEF Score
  <1>7. KeepsPlan
    BY <1>3 DEF KeepsPlan
  <1> QED
    BY <1>4, <1>5, <1>6, <1>7, WorkCalm DEF PlanSteps

LEMMA ReadBreakingMoves ==
    ASSUME PlanInv, JobInv', NEW w \in Workers, NEW found, ReadBreaking(w, found),
           "fetch" \notin lost
    PROVE  PlanMove
  <1> DEFINE p == IF found = {} THEN "count" ELSE "assign now"
             j == [job[w] EXCEPT !.pc = p, !.plan = found]
  <1>1. job' = [job EXCEPT ![w] = j] /\ job[w].pc = "breaking"
    BY DEF ReadBreaking, PlanInv, JobInv, At
  <1>2. UNCHANGED <<row, clock, lock, lost>> /\ found \subseteq BreakingNow
    BY DEF ReadBreaking
  <1>3. job'[w].pc \in {"count", "assign now"} /\ job'[w].plan = found
    <2>1. IsJob(job[w]) /\ job = [v \in Workers |-> job[v]]
      BY DEF PlanInv, JobInv, JobHolds
    <2>2. job'[w] = j
      BY <1>1, <2>1
    <2> QED
      BY <2>1, <2>2 DEF IsJob
  <1>4. lock["fetch"] = w
    BY <1>1 DEF PlanInv, Safe, PlannerHolds, PlanSteps
  <1>5. \A a \in found : a \in Articles /\ ~row[a].chosen /\ row[a].breaking
    BY <1>2 DEF BreakingNow
  <1>6. PlannerHolds(w)'
    BY <1>2, <1>3, <1>4, <1>5 DEF PlannerHolds, At, Unplanned
  <1> HIDE DEF j
  <1> QED
    BY <1>1, <1>2, <1>6, StillMoves

\* Without the fetch lock nothing is promised but the shape of the state.
LEMMA LockGone ==
    ASSUME PlanInv, JobInv', RowsOK', NoneAhead', clock' \in Nat,
           lock' = [k \in Locks |-> lock'[k]], "fetch" \in lost, lost \subseteq lost'
    PROVE  PlanMove
  BY DEF PlanMove, PlanInv, TimesKept, WithinQuota

LEMMA AssignedRows ==
    ASSUME PlanInv, NEW plan, NEW time, row' = Assigned(plan, time), clock' = clock
    PROVE  /\ RowsOK' /\ NoneAhead'
           /\ \A a \in Articles : a \notin plan => row'[a] = row[a]
           /\ \A a \in plan \cap Articles :
                 row'[a].day = DayOf(clock) /\ row'[a].breaking = row[a].breaking
  <1> DEFINE D == DayOf(clock)
  <1>1. D \in Nat
    BY DayGrows DEF PlanInv
  <1> HIDE DEF D
  <1>2. \A a \in Articles :
            row'[a] = IF a \in plan
                      THEN [row[a] EXCEPT !.chosen = TRUE, !.day = D, !.at = time[a]]
                      ELSE row[a]
    BY DEF Assigned, D
  <1>3. row' = [a \in Articles |-> row'[a]]
    BY DEF Assigned
  <1>4. ASSUME NEW a \in Articles
        PROVE  /\ IsRow(row'[a]) /\ row'[a].day \in Int /\ (row'[a].chosen => row'[a].day <= D)
               /\ a \in plan => row'[a].day = D /\ row'[a].breaking = row[a].breaking
    <2>1. IsRow(row[a]) /\ row[a].day \in Int /\ (row[a].chosen => row[a].day <= D)
      BY DEF PlanInv, RowsOK, NoneAhead, D
    <2> DEFINE t == time[a]
               r == [row[a] EXCEPT !.chosen = TRUE, !.day = D, !.at = t]
    <2>2. IsRow(r) /\ r.day = D /\ r.breaking = row[a].breaking
      BY <2>1 DEF IsRow
    <2>3. row'[a] = IF a \in plan THEN r ELSE row[a]
      BY <1>2
    <2> HIDE DEF r
    <2> QED
      BY <1>1, <2>1, <2>2, <2>3
  <1>5. RowsOK'
    BY <1>3, <1>4 DEF RowsOK
  <1>6. NoneAhead'
    BY <1>4 DEF NoneAhead, D
  <1> QED
    BY <1>2, <1>4, <1>5, <1>6 DEF D

\* A cycle that assigns what it planned: nobody else is planning.
LEMMA AssignMoves ==
    ASSUME PlanInv, JobInv', NEW w \in Workers, job[w].pc \in {"assign now", "assign"},
           NEW time, row' = Assigned(job[w].plan, time), UNCHANGED <<clock, lost>>,
           lock' = [k \in Locks |-> lock'[k]],
           \A v \in Workers : v # w => job'[v] = job[v],
           job'[w].pc \notin {"assign now", "select", "assign"},
           job'[w].pc \in PlanSteps => lock' = lock,
           "fetch" \notin lost => WithinQuota
    PROVE  PlanMove
  <1>0. job[w].pc \in PlanSteps
    BY DEF PlanSteps
  <1>1. /\ RowsOK' /\ NoneAhead'
        /\ \A a \in Articles : a \notin job[w].plan => row'[a] = row[a]
    BY AssignedRows
  <1>2. ASSUME "fetch" \notin lost
        PROVE  Unplanned(job[w].plan) /\ lock["fetch"] = w
               /\ \A v \in Workers : v # w => job[v].pc \notin PlanSteps
    <2>1. \A v \in Workers : PlannerHolds(v)
      BY <1>2 DEF PlanInv, Safe
    <2>2. PlannerHolds(w)
      BY <2>1
    <2>3. \A v \in Workers : job[v].pc \in PlanSteps => lock["fetch"] = v
      BY <2>1 DEF PlannerHolds
    <2>4. Unplanned(job[w].plan)
      BY <2>2 DEF PlannerHolds, At
    <2> QED
      BY <1>0, <2>3, <2>4
  <1>3. ASSUME "fetch" \notin lost', NEW v \in Workers PROVE PlannerHolds(v)'
    <2>1. CASE v = w
      BY <1>2, <1>3, <2>1 DEF PlannerHolds, At
    <2>2. CASE v # w
      <3>1. job'[v].pc \notin PlanSteps
        BY <1>2, <1>3, <2>2
      <3> QED
        BY <3>1 DEF PlannerHolds, At, PlanSteps
    <2> QED
      BY <2>1, <2>2
  <1>4. "fetch" \notin lost' => Safe'
    BY <1>3 DEF Safe
  <1>5. TimesKept
    BY <1>1, <1>2 DEF TimesKept, Unplanned
  <1>6. WithinQuota
    BY DEF WithinQuota
  <1> QED
    BY <1>1, <1>4, <1>5, <1>6 DEF PlanMove, PlanInv

LEMMA AssignBreakingMoves ==
    ASSUME PlanInv, JobInv', NEW w \in Workers, AssignBreaking(w)
    PROVE  PlanMove
  <1> DEFINE time == [a \in job[w].plan |-> clock]
  <1>1. row' = Assigned(job[w].plan, time) /\ UNCHANGED <<clock, lost>> /\ lock' = lock
    BY DEF AssignBreaking
  <1>2. lock' = [k \in Locks |-> lock'[k]]
    BY <1>1 DEF PlanInv
  <1>3. /\ job[w].pc = "assign now" /\ job'[w].pc = "count"
        /\ \A v \in Workers : v # w => job'[v] = job[v]
    <2>1. IsJob(job[w]) /\ job = [v \in Workers |-> job[v]]
      BY DEF PlanInv, JobInv, JobHolds
    <2> QED
      BY <2>1 DEF AssignBreaking, At, IsJob
  <1> HIDE DEF time
  <1>4. ASSUME "fetch" \notin lost PROVE WithinQuota
    <2>1. PlannerHolds(w)
      BY <1>4 DEF PlanInv, Safe
    <2>2. \A a \in job[w].plan : row[a].breaking
      BY <1>3, <2>1 DEF PlannerHolds, At
    <2>3. \A a \in Articles : a \notin job[w].plan => row'[a] = row[a]
      BY <1>1, AssignedRows
    <2> QED
      BY <2>2, <2>3 DEF WithinQuota
  <1> QED
    BY <1>1, <1>2, <1>3, <1>4, AssignMoves

LEMMA AssignQuotaMoves ==
    ASSUME PlanInv, JobInv', NEW w \in Workers, AssignQuota(w)
    PROVE  PlanMove
  <1> DEFINE time == [a \in job[w].plan |-> job[w].slots[1 + Before(a, job[w].plan)]]
  <1>1. row' = Assigned(job[w].plan, time) /\ UNCHANGED <<clock, lost>> /\ Finish(w)
    BY DEF AssignQuota
  <1>2. lock' = [k \in Locks |-> lock'[k]]
    BY <1>1 DEF Finish, Released
  <1>3. /\ job[w].pc = "assign" /\ job'[w].pc = "idle"
        /\ \A v \in Workers : v # w => job'[v] = job[v]
    BY <1>1 DEF AssignQuota, At, Finish, NoJob, PlanInv, JobInv
  <1> HIDE DEF time
  <1>4. ASSUME "fetch" \notin lost PROVE Cardinality(ChosenToday') <= DailyTarget
    <2> DEFINE P == job[w].plan
               F == Filled(DayOf(clock))
    <2>1. PlannerHolds(w)
      BY <1>4 DEF PlanInv, Safe
    <2>2. Unplanned(P) /\ Fits(Cardinality(P))
      BY <1>3, <2>1 DEF PlannerHolds, At
    <2>3. \A a \in Articles : a \notin P => row'[a] = row[a]
      BY <1>1, AssignedRows
    <2> HIDE DEF P
    <2>4. IsFiniteSet(P) /\ Cardinality(P) \in Nat
      BY <2>2, OperationsAssumption, FS_Subset, FS_CardinalityType DEF Unplanned
    <2>5. DayOf(clock) \in Ahead
      BY DayGrows DEF Ahead, PlanInv
    <2>6. Cardinality(F) + Cardinality(P) <= DailyTarget
      BY <2>2, <2>5 DEF Fits
    <2>7. ChosenToday' \in SUBSET (F \union P)
      BY <1>1, <2>3 DEF Filled, ChosenToday
    <2>8. IsFiniteSet(F) /\ Cardinality(F) \in Nat
      BY FilledFinite
    <2> HIDE DEF F
    <2>9. /\ IsFiniteSet(F \union P)
          /\ Cardinality(F \union P) = Cardinality(F) + Cardinality(P) - Cardinality(F \cap P)
      BY <2>4, <2>8, FS_Union
    <2>10. Cardinality(F \cap P) \in Nat
      BY <2>8, FS_Subset, FS_CardinalityType
    <2>11. IsFiniteSet(ChosenToday') /\ Cardinality(ChosenToday') <= Cardinality(F \union P)
      BY <2>7, <2>9, FS_Subset
    <2>12. Cardinality(ChosenToday') \in Nat /\ Cardinality(F \union P) \in Nat /\ DailyTarget \in Nat
      BY <2>9, <2>11, FS_CardinalityType, OperationsAssumption
    <2> QED
      BY <2>4, <2>6, <2>8, <2>9, <2>10, <2>11, <2>12
  <1>5. job'[w].pc \notin PlanSteps
    BY <1>3 DEF PlanSteps
  <1> QED
    BY <1>1, <1>2, <1>3, <1>4, <1>5, AssignMoves DEF WithinQuota

LEMMA CountTodayMoves ==
    ASSUME PlanInv, JobInv', NEW w \in Workers, CountToday(w), "fetch" \notin lost
    PROVE  PlanMove
  <1> DEFINE slots == TodaySlots(clock, Remaining)
             n == Cardinality(ChosenToday)
  <1>1. job[w].pc = "count" /\ UNCHANGED <<row, clock, lost>>
    BY DEF CountToday, At
  <1>2. Safe /\ lock["fetch"] = w
    BY <1>1 DEF PlanInv, Safe, PlannerHolds, PlanSteps
  <1>3. CASE slots = <<>>
    <2>1. Finish(w)
      BY <1>3 DEF CountToday
    <2> QED
      BY <1>1, <2>1, FinishCalm DEF PlanInv, RowsOK, KeepsPlan
  <1>4. CASE slots # <<>>
    <2>1. n \in Nat /\ Filled(DayOf(clock)) = ChosenToday
      <3>1. ChosenToday \in SUBSET Articles /\ Filled(DayOf(clock)) = ChosenToday
        BY DEF ChosenToday, Filled
      <3>2. IsFiniteSet(ChosenToday)
        BY <3>1, OperationsAssumption, FS_Subset
      <3> QED
        BY <3>1, <3>2, FS_CardinalityType
    <2>2. /\ DailyTarget \in Nat /\ clock \in Nat
          /\ Remaining = IF n < DailyTarget THEN DailyTarget - n ELSE 0
      BY OperationsAssumption DEF Remaining, PlanInv
    <2> HIDE DEF n
    <2>3. Remaining \in 0..DailyTarget
      BY <2>1, <2>2
    <2> DEFINE l == Len(slots)
    <2>4. l \in 0..Remaining
      <3>1. Remaining \in Nat /\ clock \in Nat
        BY <2>2, <2>3
      <3> QED
        BY <3>1, SlotsBound
    <2>l. l # 0
      <3>1. Remaining \in Nat /\ clock \in Nat
        BY <2>2, <2>3
      <3>2. slots = [k \in 1..Len(slots) |-> slots[k]]
        BY <3>1, SlotsHold
      <3> HIDE DEF slots
      <3> SUFFICES ASSUME l = 0 PROVE FALSE
        OBVIOUS
      <3>3. slots = [k \in 1..0 |-> slots[k]]
        BY <3>2
      <3>4. slots = <<>>
        BY <3>3
      <3> QED
        BY <1>4, <3>4
    <2> HIDE DEF l, slots
    <2>5. l \in Nat /\ l <= DailyTarget /\ n + l <= DailyTarget
      BY <2>1, <2>2, <2>3, <2>4, <2>l
    <2>6. Fits(l)
      <3> SUFFICES ASSUME NEW d \in Ahead PROVE Cardinality(Filled(d)) + l <= DailyTarget
        BY DEF Fits
      <3>1. CASE d = DayOf(clock)
        BY <2>1, <2>5, <3>1 DEF n
      <3>2. CASE d # DayOf(clock)
        <4>0. DayOf(clock) \in Nat
          BY <2>2, DayGrows
        <4>1. d \in Int /\ DayOf(clock) < d
          BY <3>2, <4>0 DEF Ahead
        <4>2. ASSUME NEW a \in Filled(d) PROVE FALSE
          <5>1. row[a].day = d /\ row[a].day <= DayOf(clock)
            BY <4>2 DEF Filled, PlanInv, NoneAhead
          <5> QED
            BY <4>0, <4>1, <5>1
        <4>3. Cardinality(Filled(d)) = 0
          BY <4>2, FS_EmptySet
        <4> QED
          BY <2>2, <2>5, <4>3
      <3> QED
        BY <3>1, <3>2
    <2> DEFINE j == [job[w] EXCEPT !.pc = "select", !.slots = slots]
    <2>7. job' = [job EXCEPT ![w] = j] /\ lock' = lock
      BY <1>4 DEF CountToday, slots, PlanInv, JobInv
    <2>8. job'[w].pc = "select" /\ job'[w].slots = slots
      <3>1. IsJob(job[w]) /\ job = [v \in Workers |-> job[v]]
        BY DEF PlanInv, JobInv, JobHolds
      <3>2. job'[w] = j
        BY <2>7, <3>1
      <3> QED
        BY <3>1, <3>2 DEF IsJob
    <2> HIDE DEF j
    <2>9. l' = l /\ Len(job'[w].slots) = l
      <3>1. slots' = slots
        BY <1>1 DEF slots, Remaining, ChosenToday
      <3> QED
        BY <2>8, <3>1 DEF l
    <2>10. Fits(Len(job[w].slots))'
      <3>1. \A d : Filled(d)' = Filled(d)
        BY <1>1 DEF Filled
      <3>2. Ahead' = Ahead
        BY <1>1 DEF Ahead
      <3> QED
        BY <2>6, <2>9, <3>1, <3>2 DEF Fits
    <2>11. PlannerHolds(w)'
      <3>1. lock'["fetch"] = w
        BY <1>2, <2>7
      <3> QED
        BY <2>5, <2>8, <2>9, <2>10, <3>1 DEF PlannerHolds, At
    <2> QED
      BY <1>1, <2>7, <2>11, StillMoves
  <1> QED
    BY <1>3, <1>4

LEMMA SelectForQuotaMoves ==
    ASSUME PlanInv, JobInv', NEW w \in Workers, NEW found, SelectForQuota(w, found),
           "fetch" \notin lost
    PROVE  PlanMove
  <1>1. job[w].pc = "select" /\ UNCHANGED <<row, clock, lost>> /\ found \subseteq ForQuota
    BY DEF SelectForQuota, At
  <1>2. PlannerHolds(w) /\ lock["fetch"] = w
    BY <1>1 DEF PlanInv, Safe, PlannerHolds, PlanSteps
  <1>3. CASE found = {}
    <2>1. Finish(w)
      BY <1>3 DEF SelectForQuota
    <2> QED
      BY <1>1, <2>1, FinishCalm DEF PlanInv, RowsOK, KeepsPlan
  <1>4. CASE found # {}
    <2> DEFINE n == Len(job[w].slots)
               P == FirstOf(found, n)
               j == [job[w] EXCEPT !.pc = "assign", !.plan = P]
    <2>1. n \in Nat /\ Fits(n)
      BY <1>1, <1>2 DEF PlannerHolds, At
    <2>2. found \in SUBSET Articles /\ \A a \in found : ~row[a].chosen
      BY <1>1 DEF ForQuota
    <2>3. P \in SUBSET found /\ Cardinality(P) \in 0..n
      BY <2>1, <2>2, FirstOfBound
    <2>4. job' = [job EXCEPT ![w] = j] /\ lock' = lock
      BY <1>4 DEF SelectForQuota, PlanInv, JobInv
    <2> HIDE DEF P, n
    <2>5. job'[w].pc = "assign" /\ job'[w].plan = P
      <3>1. IsJob(job[w]) /\ job = [v \in Workers |-> job[v]]
        BY DEF PlanInv, JobInv, JobHolds
      <3>2. job'[w] = j
        BY <2>4, <3>1
      <3> QED
        BY <3>1, <3>2 DEF IsJob
    <2> HIDE DEF j
    <2>6. Unplanned(job[w].plan)'
      BY <1>1, <2>2, <2>3, <2>5 DEF Unplanned
    <2>7. Fits(Cardinality(job[w].plan))'
      <3>1. \A d \in Ahead : Cardinality(Filled(d)) + Cardinality(P) <= DailyTarget
        <4> SUFFICES ASSUME NEW d \in Ahead
                     PROVE  Cardinality(Filled(d)) + Cardinality(P) <= DailyTarget
          OBVIOUS
        <4>1. Cardinality(Filled(d)) + n <= DailyTarget /\ DailyTarget \in Nat
          BY <2>1, OperationsAssumption DEF Fits
        <4> QED
          BY <2>1, <2>3, <4>1, FilledFinite
      <3>2. \A d : Filled(d)' = Filled(d)
        BY <1>1 DEF Filled
      <3>3. Ahead' = Ahead
        BY <1>1 DEF Ahead
      <3> QED
        BY <2>5, <3>1, <3>2, <3>3 DEF Fits
    <2>8. PlannerHolds(w)'
      BY <1>2, <2>4, <2>5, <2>6, <2>7 DEF PlannerHolds, At
    <2> QED
      BY <1>1, <2>4, <2>8, StillMoves
  <1> QED
    BY <1>3, <1>4

LEMMA AfterProcessPlans ==
    ASSUME PlanInv, JobInv', NEW w \in Workers, AfterProcess(w), UNCHANGED <<row, clock, lost>>
    PROVE  PlanMove
  <1>0. RowsOK' /\ KeepsPlan
    BY DEF PlanInv, RowsOK, KeepsPlan
  <1>1. CASE job[w].kind = "pipeline"
    <2> DEFINE j == [job[w] EXCEPT !.pc = "publish", !.batch = {}]
    <2>1. job' = [job EXCEPT ![w] = j] /\ lock' = lock
      BY <1>1 DEF AfterProcess, PlanInv, JobInv
    <2>2. IsJob(job[w]) /\ job = [v \in Workers |-> job[v]]
      BY DEF PlanInv, JobInv, JobHolds
    <2>3. j.pc = "publish"
      BY <2>2 DEF IsJob
    <2> HIDE DEF j
    <2>4. job'[w].pc = "publish" /\ \A v \in Workers : v # w => job'[v] = job[v]
      BY <2>1, <2>2, <2>3
    <2>5. job'[w].pc \notin PlanSteps
      BY <2>4 DEF PlanSteps
    <2> QED
      BY <1>0, <2>1, <2>4, <2>5, WorkCalm
  <1>2. CASE job[w].kind # "pipeline"
    <2>1. Finish(w)
      BY <1>2 DEF AfterProcess
    <2> QED
      BY <1>0, <2>1, FinishCalm
  <1> QED
    BY <1>1, <1>2

\* An article that gets another state, is withdrawn from the plan or left as it is.
LEMMA OneRow ==
    ASSUME PlanInv, NEW a \in Articles, NEW x,
           \/ row' = [row EXCEPT ![a].st = x]
           \/ row' = [row EXCEPT ![a].st = x, ![a].chosen = FALSE, ![a].at = Never]
           \/ row' = row
    PROVE  RowsOK' /\ KeepsPlan /\ \A b \in Articles : row'[b].breaking = row[b].breaking
  <1>2. IsRow(row[a]) /\ row[a].day \in Int /\ row = [b \in Articles |-> row[b]]
    BY DEF PlanInv, RowsOK
  <1> DEFINE r == [row[a] EXCEPT !.st = x]
             q == [row[a] EXCEPT !.st = x, !.chosen = FALSE, !.at = Never]
  <1>3. row' = [row EXCEPT ![a] = r] \/ row' = [row EXCEPT ![a] = q] \/ row' = row
    BY <1>2
  <1>4. /\ IsRow(r) /\ r.chosen = row[a].chosen /\ r.breaking = row[a].breaking
        /\ r.day = row[a].day /\ r.at = row[a].at
        /\ IsRow(q) /\ ~q.chosen /\ q.breaking = row[a].breaking /\ q.day = row[a].day
    BY <1>2 DEF IsRow
  <1> HIDE DEF r, q
  <1>5. RowsOK'
    BY <1>3, <1>4 DEF PlanInv, RowsOK
  <1>6. \A b \in Articles : row'[b].breaking = row[b].breaking
    BY <1>2, <1>3, <1>4
  <1>7. KeepsPlan
    BY <1>2, <1>3, <1>4 DEF KeepsPlan
  <1> QED
    BY <1>5, <1>6, <1>7

LEMMA EnrichPlans ==
    ASSUME PlanInv, JobInv', NEW w \in Workers, NEW a \in Articles, Enrich(w, a)
    PROVE  PlanMove
  <1> DEFINE s == IF row[a].st = "new" THEN "rich" ELSE row[a].st
  <1>1. \/ row' = [row EXCEPT ![a].st = s]
        \/ row' = [row EXCEPT ![a].st = "aside", ![a].chosen = FALSE, ![a].at = Never]
        \/ row' = row
    BY DEF Enrich, PlanInv, RowsOK
  <1> HIDE DEF s
  <1>2. RowsOK' /\ KeepsPlan /\ \A b \in Articles : row'[b].breaking = row[b].breaking
    BY <1>1, OneRow
  <1>3. /\ job'[w].pc = "enrich" /\ UNCHANGED <<clock, lock, lost>>
        /\ \A v \in Workers : v # w => job'[v] = job[v]
    <2>1. IsJob(job[w]) /\ job = [v \in Workers |-> job[v]]
      BY DEF PlanInv, JobInv, JobHolds
    <2> QED
      BY <2>1 DEF Enrich, At, IsJob
  <1>4. job'[w].pc \notin PlanSteps
    BY <1>3 DEF PlanSteps
  <1> QED
    BY <1>2, <1>3, <1>4, WorkCalm

\* Steps that leave the jobs alone and nothing of the plan out of place.
LEMMA IdleCalm ==
    ASSUME PlanInv, JobInv', RowsOK', job' = job, UNCHANGED <<lock, lost>>,
           clock' \in {clock, clock + 1},
           row' = row
    PROVE  PlanMove
  <1>1. KeepsPlan /\ \A a \in Articles : row'[a].breaking = row[a].breaking
    BY DEF KeepsPlan
  <1>2. "fetch" \notin lost => \A v \in Workers : job[v].pc \in PlanSteps => lock["fetch"] = v
    BY DEF PlanInv, Safe, PlannerHolds
  <1>3. lock' = [k \in Locks |-> lock'[k]]
    BY DEF PlanInv
  <1>4. Calm
    BY <1>1, <1>2, <1>3 DEF Calm
  <1> QED
    BY <1>4, CalmMoves

LEMMA StartPlans ==
    ASSUME PlanInv, JobInv', NEW w \in Workers, NEW kind, Start(w, kind)
    PROVE  PlanMove
  <1>1. job' = [job EXCEPT ![w] = Begun(kind)] /\ UNCHANGED <<row, clock, lost>>
    BY DEF Start
  <1>2. /\ job'[w].pc = FirstStep(kind)
        /\ \A v \in Workers : v # w => job'[v] = job[v]
    BY <1>1, Beginning DEF PlanInv, JobInv
  <1>3. RowsOK' /\ KeepsPlan
    BY <1>1 DEF PlanInv, RowsOK, KeepsPlan
  <1>4. /\ FirstStep(kind) \notin {"assign now", "select", "assign"}
        /\ FirstStep(kind) \in PlanSteps <=> kind = "fetch"
    BY DEF FirstStep, PlanSteps
  <1>5. \/ kind # "fetch" /\ lock' = lock
        \/ kind # "fetch" /\ lock["pipeline"] = Nobody /\ lock' = [lock EXCEPT !["pipeline"] = w]
        \/ kind = "fetch" /\ lock["fetch"] = Nobody /\ lock' = [lock EXCEPT !["fetch"] = w]
    BY DEF Start, StartUnlocked, StartLocked, LockOf, Free
  <1>6. lock = [k \in Locks |-> lock[k]] /\ {"fetch", "pipeline"} \subseteq Locks
    BY DEF PlanInv, Locks
  <1>7. lock' = [k \in Locks |-> lock'[k]]
    BY <1>5, <1>6
  <1>8. ASSUME "fetch" \notin lost', NEW v \in Workers, job'[v].pc \in PlanSteps
        PROVE  lock'["fetch"] = v
    <2>1. ASSUME NEW u \in Workers, job[u].pc \in PlanSteps PROVE lock["fetch"] = u /\ u # Nobody
      BY <1>1, <1>8, <2>1, OperationsAssumption DEF PlanInv, Safe, PlannerHolds
    <2>2. CASE v = w
      BY <1>2, <1>4, <1>5, <1>6, <1>8, <2>2
    <2>3. CASE v # w
      BY <1>2, <1>5, <1>6, <1>8, <2>1, <2>3
    <2> QED
      BY <2>2, <2>3
  <1>9. Calm
    BY <1>1, <1>2, <1>3, <1>4, <1>7, <1>8 DEF Calm
  <1> QED
    BY <1>9, CalmMoves

\* What a publishing job does to the rows: it writes one, or none.
LEMMA PublishRows ==
    ASSUME PlanInv, NEW w \in Workers, PublishStep(w)
    PROVE  /\ UNCHANGED <<clock, lost>>
           /\ RowsOK' /\ KeepsPlan /\ \A b \in Articles : row'[b].breaking = row[b].breaking
  <1>1. ASSUME NEW a \in Articles, Post(w, a) PROVE RowsOK' /\ KeepsPlan /\ \A b \in Articles : row'[b].breaking = row[b].breaking
    BY <1>1, OneRow DEF Post
  <1>2. row' = row => RowsOK' /\ KeepsPlan /\ \A b \in Articles : row'[b].breaking = row[b].breaking
    BY DEF PlanInv, RowsOK, KeepsPlan
  <1> QED
    BY <1>1, <1>2 DEF PublishStep, OpenPublish, CountDue, ReadList, Post, PostFails, EndPublish

LEMMA PublishPlans ==
    ASSUME PlanInv, JobInv', NEW w \in Workers, PublishStep(w)
    PROVE  PlanMove
  <1>1. /\ UNCHANGED <<clock, lost>>
        /\ RowsOK' /\ KeepsPlan /\ \A b \in Articles : row'[b].breaking = row[b].breaking
    BY PublishRows
  <1>2. CASE Finish(w)
    BY <1>1, <1>2, FinishCalm
  <1>3. CASE ~Finish(w)
    <2>1. PICK j : j.pc \in PublishSteps /\ job' = [job EXCEPT ![w] = j]
      BY <1>3, PublishWrites DEF PlanInv
    <2>2. job'[w].pc \in PublishSteps /\ \A v \in Workers : v # w => job'[v] = job[v]
      BY <2>1 DEF PlanInv, JobInv
    <2>3. lock' = [k \in Locks |-> lock'[k]] /\ lock'["fetch"] = lock["fetch"]
      <3>1. lock' = lock \/ lock' = [lock EXCEPT !["wp"] = w]
        BY <1>3 DEF PublishStep, OpenPublish, CountDue, ReadList, Post, PostFails, EndPublish
      <3> QED
        BY <3>1 DEF PlanInv, Locks
    <2>4. ASSUME "fetch" \notin lost', NEW v \in Workers, job'[v].pc \in PlanSteps
          PROVE  lock'["fetch"] = v
      <3>1. job[v].pc \in PlanSteps
        BY <2>2, <2>4 DEF PlanSteps, PublishSteps
      <3> QED
        BY <1>1, <2>3, <2>4, <3>1 DEF PlanInv, Safe, PlannerHolds
    <2>5. \A v \in Workers : job'[v] = job[v] \/ job'[v].pc \notin {"assign now", "select", "assign"}
      BY <2>2 DEF PublishSteps
    <2>6. Calm
      BY <1>1, <2>3, <2>4, <2>5 DEF Calm
    <2> QED
      BY <2>6, CalmMoves
  <1> QED
    BY <1>2, <1>3

LEMMA LoseLockPlans ==
    ASSUME PlanInv, JobInv', NEW k \in Locks, LoseLock(k)
    PROVE  PlanMove
  <1>1. /\ UNCHANGED <<row, clock, job>> /\ lost' = lost \union {k}
        /\ lock' = [lock EXCEPT ![k] = Nobody]
    BY DEF LoseLock
  <1>2. RowsOK' /\ KeepsPlan
    BY <1>1 DEF PlanInv, RowsOK, KeepsPlan
  <1>3. lock' = [l \in Locks |-> lock'[l]]
    BY <1>1 DEF PlanInv
  <1>4. ASSUME "fetch" \notin lost', NEW v \in Workers, job'[v].pc \in PlanSteps
        PROVE  lock'["fetch"] = v
    <2>1. "fetch" \notin lost /\ k # "fetch" /\ lock'["fetch"] = lock["fetch"]
      BY <1>1, <1>4 DEF PlanInv, Locks
    <2> QED
      BY <1>1, <1>4, <2>1 DEF PlanInv, Safe, PlannerHolds
  <1>5. Calm
    BY <1>1, <1>2, <1>3, <1>4 DEF Calm
  <1> QED
    BY <1>5, CalmMoves

LEMMA PlanStepPlans ==
    ASSUME PlanInv, JobInv', NEW w \in Workers, PlanStep(w)
    PROVE  PlanMove
  <1>1. CASE \E served \in SUBSET Articles : Pull(w, served)
    BY <1>1, PullMoves
  <1>2. CASE \E breaking \in SUBSET Articles : Score(w, breaking)
    BY <1>2, ScoreMoves
  <1>3. CASE AssignBreaking(w)
    BY <1>3, AssignBreakingMoves
  <1>4. CASE AssignQuota(w)
    BY <1>4, AssignQuotaMoves
  <1>5. CASE \/ \E found \in SUBSET Articles : ReadBreaking(w, found) \/ SelectForQuota(w, found)
             \/ CountToday(w)
    <2>1. CASE "fetch" \notin lost
      BY <1>5, <2>1, ReadBreakingMoves, CountTodayMoves, SelectForQuotaMoves
    <2>2. CASE "fetch" \in lost
      <3>1. UNCHANGED <<row, clock, lost>>
        BY <1>5 DEF ReadBreaking, CountToday, SelectForQuota
      <3>2. lock' = [k \in Locks |-> lock'[k]]
        <4>1. lock' = lock \/ lock' = Released(w)
          BY <1>5 DEF ReadBreaking, CountToday, SelectForQuota, Finish
        <4> QED
          BY <4>1 DEF Released, PlanInv
      <3>3. RowsOK' /\ NoneAhead' /\ clock' \in Nat
        BY <3>1 DEF PlanInv, RowsOK, NoneAhead
      <3> QED
        BY <2>2, <3>1, <3>2, <3>3, LockGone
    <2> QED
      BY <2>1, <2>2
  <1> QED
    BY <1>1, <1>2, <1>3, <1>4, <1>5 DEF PlanStep

LEMMA StepPlans ==
    ASSUME PlanInv, JobInv', NEW w \in Workers, Step(w)
    PROVE  PlanMove
  <1>0. ASSUME row' = row PROVE RowsOK' /\ KeepsPlan
    BY <1>0 DEF PlanInv, RowsOK, KeepsPlan
  <1>1. CASE PlanStep(w)
    BY <1>1, PlanStepPlans
  <1>2. CASE ReadDue(w)
    <2>1. IsJob(job[w]) /\ job = [v \in Workers |-> job[v]]
      BY DEF PlanInv, JobInv, JobHolds
    <2> DEFINE b == {a \in Articles : row[a].st = "new" /\ Due(a)}
    <2>2. job' = [job EXCEPT ![w].pc = "enrich", ![w].batch = b] /\ UNCHANGED <<row, clock, lock, lost>>
      BY <1>2 DEF ReadDue
    <2> HIDE DEF b
    <2>3. job'[w].pc = "enrich" /\ \A v \in Workers : v # w => job'[v] = job[v]
      BY <2>1, <2>2 DEF IsJob
    <2>4. job'[w].pc \notin PlanSteps
      BY <2>3 DEF PlanSteps
    <2> QED
      BY <1>0, <2>2, <2>3, <2>4, WorkCalm
  <1>3. CASE \E a \in Articles : Enrich(w, a)
    BY <1>3, EnrichPlans
  <1>4. CASE EndProcess(w) \/ ProcessRaises(w)
    BY <1>4, AfterProcessPlans DEF EndProcess, ProcessRaises
  <1>5. CASE PublishStep(w)
    BY <1>5, PublishPlans
  <1> QED
    BY <1>1, <1>2, <1>3, <1>4, <1>5 DEF Step, PlanStep, PublishStep

LEMMA NextPlans == ASSUME PlanInv, [Next]_vars PROVE PlanMove
  <1>0. JobInv' /\ (row' = row => RowsOK' /\ KeepsPlan)
    BY NextMoves DEF PlanInv, RowsOK, KeepsPlan
  <1>1. ASSUME NEW w \in Workers, NEW kind \in mix, Start(w, kind) PROVE PlanMove
    BY <1>0, <1>1, StartPlans
  <1>2. ASSUME NEW w \in Workers, Step(w) PROVE PlanMove
    BY <1>0, <1>2, StepPlans
  <1>3. ASSUME NEW w \in Workers, Crash(w) PROVE PlanMove
    BY <1>0, <1>3, FinishCalm DEF Crash
  <1>4. ASSUME NEW k \in Locks, LoseLock(k) PROVE PlanMove
    BY <1>0, <1>4, LoseLockPlans
  <1>5. CASE Tick
    BY <1>0, <1>5, IdleCalm DEF Tick
  <1>6. CASE UNCHANGED vars
    BY <1>0, <1>6, IdleCalm DEF vars
  <1> QED
    BY <1>1, <1>2, <1>3, <1>4, <1>5, <1>6 DEF Next

LEMMA InitPlans == Init => PlanInv
  <1> SUFFICES ASSUME Init PROVE PlanInv
    OBVIOUS
  <1>1. JobInv /\ \A w \in Workers : job[w].pc = "idle"
    <2>1. job = [w \in Workers |-> NoJob] /\ NoJob.pc = "idle"
      BY DEF Init, NoJob
    <2> QED
      BY <2>1, NoJobHolds DEF JobInv
  <1>2. clock = 0 /\ lock = [k \in Locks |-> Nobody] /\ DayOf(clock) \in Nat
    BY DayGrows DEF Init
  <1>3. row = [a \in Articles |-> row[a]] /\ \A a \in Articles : row[a] \in {NoRow} \union Planned
    BY DEF Init
  <1>4. ASSUME NEW a \in Articles
        PROVE  /\ IsRow(row[a]) /\ row[a].day \in Int
               /\ row[a].chosen => row[a].day = 0
    <2>1. IsRow(NoRow) /\ NoRow.day \in Int /\ ~NoRow.chosen
      BY OperationsAssumption DEF IsRow, NoRow, NoDay
    <2>2. \A r \in Planned : IsRow(r) /\ r.day = 0
      BY <2>1 DEF IsRow, Planned, NoRow
    <2> QED
      BY <1>3, <2>1, <2>2
  <1>5. RowsOK /\ NoneAhead
    BY <1>2, <1>3, <1>4 DEF RowsOK, NoneAhead
  <1>7. \A w \in Workers : PlannerHolds(w)
    BY <1>1 DEF PlannerHolds, At, PlanSteps
  <1>8. clock \in Nat /\ lock = [k \in Locks |-> lock[k]]
    BY <1>2
  <1> QED
    BY <1>1, <1>5, <1>7, <1>8 DEF PlanInv, Safe

LEMMA PlanInvariant == Spec => []PlanInv
  <1>1. PlanInv /\ [Next]_vars => PlanInv'
    BY NextPlans DEF PlanMove
  <1> QED
    BY <1>1, InitPlans, PTL DEF Spec

\* Whoever plans an article that is not breaking leaves the day with DAILY_TARGET
\* chosen articles at most, whatever was planned or rated anew before and whatever
\* crashes, retirements and days that begin come between counting, selecting and
\* assigning (_plan_today_schedule), unless a cycle lost the fetch lock.
THEOREM DailyTargetIsKept == Spec => QuotaKept
  <1>1. PlanInv /\ [Next]_vars => [WithinQuota]_vars
    BY NextPlans DEF PlanMove
  <1> QED
    BY <1>1, PlanInvariant, PTL DEF Spec, QuotaKept, WithinQuota

\* An article that was given a time keeps it: no later or concurrent cycle plans it
\* again while the fetch lock was not lost (_assign_schedule, _plan_today_schedule).
THEOREM TimesAreKept == Spec => PlannedOnce
  <1>1. PlanInv /\ [Next]_vars => [TimesKept]_vars
    BY NextPlans DEF PlanMove
  <1> QED
    BY <1>1, PlanInvariant, PTL DEF Spec, PlannedOnce, TimesKept

-----------------------------------------------------------------------------
(***************************************************************************)
(* What enriching costs.  A job that may still enrich an article either    *)
(* holds the lock of the pipeline or has lost it, and every loss is an     *)
(* upset.  So the versions made, the jobs without the lock that may make   *)
(* another and the one that is still to come from the holder are never     *)
(* more than one and the upsets together.                                  *)
(***************************************************************************)
Fresh(a) == row[a].st \in {"absent", "new"}
Working == {"process", "enrich"}

\* Worker w may still enrich article a.
Pending(w, a) == \/ At(w, "process") /\ Fresh(a)
                 \/ At(w, "enrich") /\ a \in job[w].batch
Late(a) == {w \in Workers : lock["pipeline"] # w /\ Pending(w, a)}
Open(a) == \/ Fresh(a)
           \/ \E w \in Workers : lock["pipeline"] = w /\ At(w, "enrich") /\ a \in job[w].batch

ToCome(a) == IF Open(a) THEN 1 ELSE 0
\* What a job has read from the table is in it, and a row only goes on.
BatchesStored == \A w \in Workers, a \in Articles :
                    (At(w, "enrich") /\ a \in job[w].batch) => Stored(a)
Ages == \A a \in Articles : (Fresh(a)' => Fresh(a)) /\ (Stored(a) => Stored(a)')

CostInv == /\ made \in [Articles -> Nat] /\ upsets \in Nat
           /\ BatchesStored
           /\ \A a \in Articles : made[a] + Cardinality(Late(a)) + ToCome(a) <= 1 + upsets

LEMMA LateFinite == \A a : IsFiniteSet(Late(a)) /\ Cardinality(Late(a)) \in Nat
  <1> SUFFICES ASSUME NEW a PROVE IsFiniteSet(Late(a)) /\ Cardinality(Late(a)) \in Nat
    OBVIOUS
  <1>1. Late(a) \in SUBSET Workers /\ IsFiniteSet(Workers)
    BY OperationsAssumption DEF Late
  <1> HIDE DEF Late
  <1>2. IsFiniteSet(Late(a))
    BY <1>1, FS_Subset
  <1> QED
    BY <1>2, FS_CardinalityType

\* A step that enriches nothing and gives no job more to enrich.
LEMMA Costless ==
    ASSUME CostInv, made' = made, upsets' \in {upsets, upsets + 1}, BatchesStored',
           \A a \in Articles : Late(a)' \subseteq Late(a) /\ (Open(a)' => Open(a))
    PROVE  CostInv'
  <1>1. ASSUME NEW a \in Articles
        PROVE  made'[a] + Cardinality(Late(a)') + ToCome(a)' <= 1 + upsets'
    <2>1. Late(a)' \in SUBSET Late(a)
      OBVIOUS
    <2>2. IsFiniteSet(Late(a)') /\ Cardinality(Late(a)') <= Cardinality(Late(a))
      BY <2>1, LateFinite, FS_Subset
    <2>3. Cardinality(Late(a)') \in Nat /\ Cardinality(Late(a)) \in Nat
      BY <2>2, LateFinite, FS_CardinalityType
    <2>4. ToCome(a) \in {0, 1} /\ ToCome(a)' \in {0, 1} /\ ToCome(a)' <= ToCome(a)
      BY DEF ToCome
    <2>5. made[a] \in Nat /\ upsets \in Nat
          /\ made[a] + Cardinality(Late(a)) + ToCome(a) <= 1 + upsets
      BY DEF CostInv
    <2> QED
      BY <2>2, <2>3, <2>4, <2>5
  <1>2. upsets' \in Nat
    BY DEF CostInv
  <1> QED
    BY <1>1, <1>2 DEF CostInv

\* A step of one worker that does not process after it, and may end its job.
Aside(w) ==
    /\ \A v \in Workers : v # w => job'[v] = job[v]
    /\ job'[w].pc \notin Working
    /\ \/ lock'["pipeline"] = lock["pipeline"]
       \/ lock["pipeline"] = w /\ lock'["pipeline"] = Nobody

LEMMA AsideCosts ==
    ASSUME CostInv, NEW w \in Workers, Aside(w), made' = made, upsets' \in {upsets, upsets + 1}, Ages
    PROVE  CostInv'
  <1>1. ASSUME NEW a \in Articles, NEW v \in Workers, Pending(v, a)'
        PROVE  /\ Pending(v, a) /\ v # w /\ job'[v] = job[v]
               /\ lock'["pipeline"] = v <=> lock["pipeline"] = v
    <2>1. v # w
      BY <1>1 DEF Pending, Aside, At, Working
    <2>2. v # Nobody
      BY OperationsAssumption
    <2> QED
      BY <1>1, <2>1, <2>2 DEF Pending, Aside, At, Ages
  <1>2. ASSUME NEW a \in Articles PROVE Late(a)' \subseteq Late(a)
    BY <1>1 DEF Late
  <1>3. ASSUME NEW a \in Articles, Open(a)' PROVE Open(a)
    <2>1. CASE Fresh(a)'
      BY <2>1 DEF Open, Ages
    <2>2. CASE \E v \in Workers : lock'["pipeline"] = v /\ At(v, "enrich")' /\ a \in job'[v].batch
      <3>1. PICK v \in Workers : lock'["pipeline"] = v /\ At(v, "enrich")' /\ a \in job'[v].batch
        BY <2>2
      <3>2. job'[v] = job[v] /\ lock["pipeline"] = v
        BY <1>1, <3>1 DEF Pending
      <3> QED
        BY <3>1, <3>2 DEF Open, At
    <2> QED
      BY <1>3, <2>1, <2>2 DEF Open
  <1>4. BatchesStored'
    <2> SUFFICES ASSUME NEW v \in Workers, NEW a \in Articles, At(v, "enrich")', a \in job'[v].batch
                 PROVE  Stored(a)'
      BY DEF BatchesStored
    <2>1. job'[v] = job[v]
      BY DEF Aside, At, Working
    <2> QED
      BY <2>1 DEF CostInv, BatchesStored, Ages, At
  <1> QED
    BY <1>2, <1>3, <1>4, Costless

\* The end of a job is such a step.
LEMMA FinishAside == ASSUME PlanInv, NEW w \in Workers, Finish(w) PROVE Aside(w)
  BY DEF Finish, Released, Aside, PlanInv, JobInv, NoJob, Working, Locks

\* No step makes an article new again.
LEMMA RowsAge == ASSUME PlanInv, [Next]_vars PROVE Ages
  <1>0. /\ row = [a \in Articles |-> row[a]] /\ \A a \in Articles : IsRow(row[a])
        /\ row' = row => Ages
    BY DEF PlanInv, RowsOK, Fresh, Stored, Ages
  <1>1. ASSUME NEW w \in Workers, PlanStep(w) PROVE Ages
    <2>1. ASSUME NEW served \in SUBSET Articles, Pull(w, served)
          PROVE  Ages
      <3>1. \A a \in Articles : row'[a] = row[a] \/ ~Stored(a)
        BY <2>1 DEF Pull, Stored
      <3> QED
        BY <3>1 DEF Fresh, Stored, Ages
    <2>2. ASSUME NEW breaking \in SUBSET Articles, Score(w, breaking), NEW a \in Articles
          PROVE  row'[a].st = row[a].st
      <3> DEFINE x == a \in breaking
                 r == [row[a] EXCEPT !.breaking = x]
      <3>1. row'[a] = r
        BY <2>2 DEF Score
      <3> HIDE DEF x
      <3> QED
        BY <1>0, <3>1 DEF IsRow
    <2>3. ASSUME NEW plan, NEW time, row' = Assigned(plan, time), NEW a \in Articles
          PROVE  row'[a].st = row[a].st
      <3> DEFINE d == DayOf(clock)
                 t == time[a]
                 r == [row[a] EXCEPT !.chosen = TRUE, !.day = d, !.at = t]
      <3>1. row'[a] = row[a] \/ row'[a] = r
        BY <2>3 DEF Assigned
      <3> HIDE DEF d, t
      <3>2. r.st = row[a].st
        BY <1>0 DEF IsRow
      <3> QED
        BY <3>1, <3>2
    <2>4. CASE AssignBreaking(w) \/ AssignQuota(w)
      BY <2>3, <2>4 DEF AssignBreaking, AssignQuota, Fresh, Stored, Ages
    <2>5. CASE \/ \E found \in SUBSET Articles : ReadBreaking(w, found) \/ SelectForQuota(w, found)
               \/ CountToday(w)
      BY <1>0, <2>5 DEF ReadBreaking, CountToday, SelectForQuota
    <2> QED
      BY <1>1, <2>1, <2>2, <2>4, <2>5 DEF PlanStep, Fresh, Stored, Ages
  <1>2. ASSUME NEW a \in Articles, NEW s, s \notin {"absent", "new"} \/ s = row[a].st
        PROVE  /\ row' = [row EXCEPT ![a].st = s] => Ages
               /\ row' = [row EXCEPT ![a].st = s, ![a].chosen = FALSE, ![a].at = Never] => Ages
    <2> DEFINE p == [row[a] EXCEPT !.st = s]
               q == [row[a] EXCEPT !.st = s, !.chosen = FALSE, !.at = Never]
    <2>1. /\ row' = [row EXCEPT ![a].st = s] => row' = [row EXCEPT ![a] = p]
          /\ row' = [row EXCEPT ![a].st = s, ![a].chosen = FALSE, ![a].at = Never]
                => row' = [row EXCEPT ![a] = q]
      BY <1>0
    <2>2. p.st = s /\ q.st = s
      BY <1>0 DEF IsRow
    <2> HIDE DEF p, q
    <2>3. ASSUME row' = [row EXCEPT ![a] = p] \/ row' = [row EXCEPT ![a] = q] PROVE Ages
      <3>1. row'[a].st = s /\ \A b \in Articles : b # a => row'[b] = row[b]
        BY <1>0, <2>2, <2>3
      <3> QED
        BY <1>2, <3>1 DEF Fresh, Stored, Ages
    <2> QED
      BY <2>1, <2>3
  <1>3. ASSUME NEW w \in Workers, NEW a \in Articles, Enrich(w, a)
        PROVE  Ages
    <2> DEFINE s == IF row[a].st = "new" THEN "rich" ELSE row[a].st
    <2>1. s \notin {"absent", "new"} \/ s = row[a].st
      OBVIOUS
    <2>2. \/ row' = [row EXCEPT ![a].st = s]
          \/ row' = [row EXCEPT ![a].st = "aside", ![a].chosen = FALSE, ![a].at = Never]
          \/ row' = row
      BY <1>0, <1>3 DEF Enrich
    <2> HIDE DEF s
    <2>3. row' = [row EXCEPT ![a].st = s] => Ages
      BY <1>2, <2>1
    <2>4. row' = [row EXCEPT ![a].st = "aside", ![a].chosen = FALSE, ![a].at = Never] => Ages
      BY <1>2
    <2> QED
      BY <1>0, <2>2, <2>3, <2>4
  <1>4. ASSUME NEW w \in Workers, NEW a \in Articles, Post(w, a)
        PROVE  Ages
    <2>1. row' = [row EXCEPT ![a].st = "posted"] => Ages
      BY <1>2
    <2>2. row' = [row EXCEPT ![a].st = "aside"] => Ages
      BY <1>2
    <2>3. row' = [row EXCEPT ![a].st = "aside", ![a].chosen = FALSE, ![a].at = Never] => Ages
      BY <1>2
    <2> QED
      BY <1>0, <1>4, <2>1, <2>2, <2>3 DEF Post
  <1>6. ASSUME NEW w \in Workers, Step(w) PROVE Ages
    BY <1>0, <1>1, <1>3, <1>4, <1>6 DEF Step, PlanStep, ReadDue, EndProcess, ProcessRaises,
                                        OpenPublish, CountDue, ReadList, PostFails, EndPublish
  <1>7. CASE \/ \E w \in Workers, kind \in mix : Start(w, kind)
             \/ \E w \in Workers : Crash(w)
             \/ \E k \in Locks : LoseLock(k)
             \/ Tick \/ UNCHANGED vars
    BY <1>0, <1>7 DEF Start, Crash, LoseLock, Tick, vars
  <1> QED
    BY <1>6, <1>7 DEF Next

\* A step within a job that is done with processing.
LEMMA GoneOn ==
    ASSUME PlanInv, NEW w \in Workers, NEW j, job' = [job EXCEPT ![w] = j],
           j.pc \notin Working, lock'["pipeline"] = lock["pipeline"]
    PROVE  Aside(w)
  BY DEF PlanInv, JobInv, Aside

LEMMA AfterProcessAside == ASSUME PlanInv, NEW w \in Workers, AfterProcess(w) PROVE Aside(w)
  <1>1. CASE job[w].kind = "pipeline"
    <2> DEFINE j == [job[w] EXCEPT !.pc = "publish", !.batch = {}]
    <2>1. job' = [job EXCEPT ![w] = j] /\ lock' = lock
      BY <1>1 DEF AfterProcess, PlanInv, JobInv
    <2>2. j.pc = "publish"
      BY DEF PlanInv, JobInv, JobHolds, IsJob
    <2> HIDE DEF j
    <2> QED
      BY <2>1, <2>2, GoneOn DEF Working
  <1>2. CASE job[w].kind # "pipeline"
    BY <1>2, FinishAside DEF AfterProcess
  <1> QED
    BY <1>1, <1>2

\* A publishing job is done with processing.
LEMMA PublishAside == ASSUME PlanInv, NEW w \in Workers, PublishStep(w) PROVE Aside(w)
  <1>1. CASE Finish(w)
    BY <1>1, FinishAside
  <1>2. CASE ~Finish(w)
    <2>1. PICK j : j.pc \in PublishSteps /\ job' = [job EXCEPT ![w] = j]
      BY <1>2, PublishWrites DEF PlanInv
    <2>2. lock' = lock \/ lock' = [lock EXCEPT !["wp"] = w]
      BY <1>2 DEF PublishStep, OpenPublish, CountDue, ReadList, Post, PostFails, EndPublish
    <2>3. lock'["pipeline"] = lock["pipeline"]
      BY <2>2 DEF PlanInv, Locks
    <2> QED
      BY <2>1, <2>3, GoneOn DEF PublishSteps, Working
  <1> QED
    BY <1>1, <1>2

LEMMA PlanStepAside ==
    ASSUME PlanInv, NEW w \in Workers, PlanStep(w)
    PROVE  Aside(w) /\ made' = made /\ upsets' = upsets
  <1>0. IsJob(job[w]) /\ job = [v \in Workers |-> job[v]]
    BY DEF PlanInv, JobInv, JobHolds
  <1>1. ASSUME NEW p \in {"score", "breaking"}, Goto(w, p), lock' = lock PROVE Aside(w)
    <2> DEFINE j == [job[w] EXCEPT !.pc = p]
    <2>1. job' = [job EXCEPT ![w] = j] /\ j.pc = p
      BY <1>0, <1>1 DEF Goto, IsJob
    <2> HIDE DEF j
    <2> QED
      BY <1>1, <2>1, GoneOn DEF Working
  <1>2. ASSUME NEW p \in {"count", "assign now", "select", "assign"}, NEW x, lock' = lock,
               \/ job' = [job EXCEPT ![w].pc = p, ![w].plan = x]
               \/ job' = [job EXCEPT ![w].pc = p, ![w].slots = x]
        PROVE  Aside(w)
    <2> DEFINE i == [job[w] EXCEPT !.pc = p, !.plan = x]
               j == [job[w] EXCEPT !.pc = p, !.slots = x]
    <2>1. job' = [job EXCEPT ![w] = i] \/ job' = [job EXCEPT ![w] = j]
      BY <1>0, <1>2
    <2>2. i.pc = p /\ j.pc = p
      BY <1>0 DEF IsJob
    <2> HIDE DEF i, j
    <2>3. p \notin Working
      BY DEF Working
    <2> QED
      BY <1>2, <2>1, <2>2, <2>3, GoneOn
  <1>3. CASE \/ \E served \in SUBSET Articles : Pull(w, served)
             \/ \E breaking \in SUBSET Articles : Score(w, breaking)
    BY <1>1, <1>3 DEF Pull, Score
  <1>4. ASSUME NEW found, ReadBreaking(w, found) PROVE Aside(w) /\ made' = made /\ upsets' = upsets
    <2> DEFINE p == IF found = {} THEN "count" ELSE "assign now"
    <2>1. job' = [job EXCEPT ![w].pc = p, ![w].plan = found]
          /\ UNCHANGED <<lock, made, upsets>>
      BY <1>4 DEF ReadBreaking
    <2>2. p \in {"count", "assign now", "select", "assign"}
      OBVIOUS
    <2> HIDE DEF p
    <2> QED
      BY <1>2, <2>1, <2>2
  <1>5. CASE AssignBreaking(w)
    BY <1>2, <1>5 DEF AssignBreaking
  <1>6. CASE CountToday(w)
    <2> DEFINE s == TodaySlots(clock, Remaining)
    <2>1. \/ Finish(w)
          \/ job' = [job EXCEPT ![w].pc = "select", ![w].slots = s] /\ lock' = lock
      BY <1>6 DEF CountToday
    <2>2. UNCHANGED <<made, upsets>>
      BY <1>6 DEF CountToday
    <2> HIDE DEF s
    <2> QED
      BY <1>2, <2>1, <2>2, FinishAside
  <1>7. ASSUME NEW found, SelectForQuota(w, found) PROVE Aside(w) /\ made' = made /\ upsets' = upsets
    <2> DEFINE x == FirstOf(found, Len(job[w].slots))
    <2>1. \/ Finish(w)
          \/ job' = [job EXCEPT ![w].pc = "assign", ![w].plan = x] /\ lock' = lock
      BY <1>7 DEF SelectForQuota
    <2>2. UNCHANGED <<made, upsets>>
      BY <1>7 DEF SelectForQuota
    <2> HIDE DEF x
    <2> QED
      BY <1>2, <2>1, <2>2, FinishAside
  <1>8. CASE AssignQuota(w)
    BY <1>8, FinishAside DEF AssignQuota
  <1> QED
    BY <1>3, <1>4, <1>5, <1>6, <1>7, <1>8 DEF PlanStep, Pull, Score, AssignBreaking

\* A version is made: the job that paid for it, or the fault that kept it from being
\* stored, is charged with it.
LEMMA EnrichCosts ==
    ASSUME PlanInv, CostInv, NEW w \in Workers, NEW a \in Articles, Enrich(w, a), Ages
    PROVE  CostInv'
  <1>0. IsJob(job[w]) /\ job = [v \in Workers |-> job[v]] /\ row = [b \in Articles |-> row[b]]
        /\ \A b \in Articles : IsRow(row[b])
    BY DEF PlanInv, JobInv, JobHolds, RowsOK
  <1>1. /\ At(w, "enrich") /\ a \in job[w].batch /\ lock' = lock
        /\ made' = [made EXCEPT ![a] = @ + 1]
        /\ upsets' = upsets \/ upsets' = upsets + 1
    BY DEF Enrich, Upset
  <1> DEFINE j == [job[w] EXCEPT !.batch = job[w].batch \ {a}]
  <1>2. job' = [job EXCEPT ![w] = j] /\ j.pc = "enrich" /\ j.batch = job[w].batch \ {a}
    BY <1>0, <1>1 DEF Enrich, At, IsJob
  <1> HIDE DEF j
  <1>3. \A v \in Workers : v # w => job'[v] = job[v]
    BY <1>0, <1>2
  <1>4. job'[w].pc = "enrich" /\ job'[w].batch = job[w].batch \ {a}
    BY <1>0, <1>2
  <1>5. ASSUME NEW b \in Articles, NEW v \in Workers, Pending(v, b)'
        PROVE  Pending(v, b) /\ ~(v = w /\ b = a)
    <2>1. CASE v = w
      BY <1>1, <1>4, <1>5, <2>1 DEF Pending, At
    <2>2. CASE v # w
      BY <1>3, <1>5, <2>2 DEF Pending, At, Ages
    <2> QED
      BY <2>1, <2>2
  <1>6. ASSUME NEW b \in Articles
        PROVE  Late(b)' \subseteq Late(b) /\ (b = a => Late(b)' \subseteq Late(b) \ {w})
    BY <1>1, <1>5 DEF Late
  <1>7. ASSUME NEW b \in Articles, Open(b)' PROVE Open(b)
    <2>1. CASE Fresh(b)'
      BY <2>1 DEF Open, Ages
    <2>2. CASE \E v \in Workers : lock'["pipeline"] = v /\ At(v, "enrich")' /\ b \in job'[v].batch
      <3>1. PICK v \in Workers : lock'["pipeline"] = v /\ At(v, "enrich")' /\ b \in job'[v].batch
        BY <2>2
      <3>2. At(v, "enrich") /\ b \in job[v].batch
        BY <1>1, <1>3, <1>4, <3>1 DEF At
      <3> QED
        BY <1>1, <3>1, <3>2 DEF Open
    <2> QED
      BY <1>7, <2>1, <2>2 DEF Open
  <1>8. /\ \A b \in Articles : ToCome(b) \in {0, 1} /\ ToCome(b)' \in {0, 1} /\ ToCome(b)' <= ToCome(b)
        /\ upsets \in Nat /\ upsets' \in Nat /\ upsets <= upsets'
        /\ \A b \in Articles :
              made[b] \in Nat /\ made[b] + Cardinality(Late(b)) + ToCome(b) <= 1 + upsets
    <2>1. ASSUME NEW b \in Articles
          PROVE  ToCome(b) \in {0, 1} /\ ToCome(b)' \in {0, 1} /\ ToCome(b)' <= ToCome(b)
      BY <1>7 DEF ToCome
    <2> QED
      BY <1>1, <2>1 DEF CostInv
  <1>9. \A b \in Articles : /\ Cardinality(Late(b)') \in Nat /\ Cardinality(Late(b)) \in Nat
                            /\ Cardinality(Late(b)') <= Cardinality(Late(b))
    <2> SUFFICES ASSUME NEW b \in Articles
                 PROVE  /\ Cardinality(Late(b)') \in Nat /\ Cardinality(Late(b)) \in Nat
                        /\ Cardinality(Late(b)') <= Cardinality(Late(b))
      OBVIOUS
    <2>1. Late(b)' \in SUBSET Late(b)
      BY <1>6
    <2>2. IsFiniteSet(Late(b)') /\ Cardinality(Late(b)') <= Cardinality(Late(b))
      BY <2>1, LateFinite, FS_Subset
    <2> QED
      BY <2>2, LateFinite, FS_CardinalityType
  <1>10. made[a] + 1 + Cardinality(Late(a)') + ToCome(a)' <= 1 + upsets'
    <2>1. CASE upsets' = upsets + 1
      BY <1>8, <1>9, <2>1
    <2>2. CASE upsets' = upsets /\ w \in Late(a)
      <3>1. Late(a)' \in SUBSET (Late(a) \ {w})
        BY <1>6
      <3>2. IsFiniteSet(Late(a) \ {w}) /\ Cardinality(Late(a) \ {w}) = Cardinality(Late(a)) - 1
        BY <2>2, LateFinite, FS_RemoveElement
      <3>3. Cardinality(Late(a)') <= Cardinality(Late(a) \ {w})
        BY <3>1, <3>2, FS_Subset
      <3> QED
        BY <1>8, <1>9, <2>2, <3>2, <3>3
    <2>3. CASE upsets' = upsets /\ w \notin Late(a)
      <3>1. lock["pipeline"] = w /\ Open(a)
        BY <1>1, <2>3 DEF Late, Pending, Open
      <3>2. ~Fresh(a)'
        <4>1. upsets # upsets + 1
          BY <1>8
        <4>2. row[a].st # "absent"
          BY <1>1 DEF CostInv, BatchesStored, Stored
        <4> DEFINE r == [row[a] EXCEPT !.st = IF @ = "new" THEN "rich" ELSE @]
                   q == [row[a] EXCEPT !.st = "aside", !.chosen = FALSE, !.at = Never]
        <4>3. row' = [row EXCEPT ![a] = r] \/ row' = [row EXCEPT ![a] = q]
          BY <1>0, <2>3, <4>1 DEF Enrich, Upset
        <4>4. r.st \notin {"absent", "new"} /\ q.st = "aside"
          BY <1>0, <4>2 DEF IsRow
        <4> HIDE DEF q, r
        <4> QED
          BY <1>0, <4>3, <4>4 DEF Fresh
      <3>3. ~Open(a)'
        <4>1. ASSUME NEW v \in Workers, lock'["pipeline"] = v, At(v, "enrich")', a \in job'[v].batch
              PROVE  FALSE
          BY <1>1, <1>4, <3>1, <4>1
        <4> QED
          BY <3>2, <4>1 DEF Open
      <3> QED
        BY <1>8, <1>9, <2>3, <3>1, <3>3 DEF ToCome
    <2> QED
      BY <1>1, <2>1, <2>2, <2>3
  <1>11. ASSUME NEW b \in Articles
         PROVE  made'[b] \in Nat /\ made'[b] + Cardinality(Late(b)') + ToCome(b)' <= 1 + upsets'
    <2>1. CASE b = a
      BY <1>1, <1>8, <1>10, <2>1 DEF CostInv
    <2>2. CASE b # a
      <3>1. made'[b] = made[b]
        BY <1>1, <2>2 DEF CostInv
      <3> QED
        BY <1>8, <1>9, <3>1
    <2> QED
      BY <2>1, <2>2
  <1>12. BatchesStored'
    <2> SUFFICES ASSUME NEW v \in Workers, NEW b \in Articles, At(v, "enrich")', b \in job'[v].batch
                 PROVE  Stored(b)'
      BY DEF BatchesStored
    <2>1. At(v, "enrich") /\ b \in job[v].batch
      BY <1>1, <1>3, <1>4 DEF At
    <2> QED
      BY <2>1 DEF CostInv, BatchesStored, Ages
  <1> QED
    BY <1>1, <1>8, <1>11, <1>12 DEF CostInv

LEMMA StartCosts ==
    ASSUME PlanInv, CostInv, NEW w \in Workers, NEW kind, Start(w, kind), Ages
    PROVE  CostInv'
  <1>1. job' = [job EXCEPT ![w] = Begun(kind)] /\ UNCHANGED <<row, made, upsets>>
    BY DEF Start
  <1>2. job'[w].pc = FirstStep(kind) /\ \A v \in Workers : v # w => job'[v] = job[v]
    BY <1>1, Beginning DEF PlanInv, JobInv
  <1>3. /\ FirstStep(kind) # "enrich"
        /\ FirstStep(kind) = "process" => kind \in {"pipeline", "process"}
    BY DEF FirstStep
  <1>4. \/ FirstStep(kind) # "process" /\ lock'["pipeline"] = lock["pipeline"]
        \/ lock["pipeline"] = Nobody /\ lock'["pipeline"] = w
    BY <1>3 DEF Start, StartUnlocked, StartLocked, LockOf, Free, PlanInv, Locks
  <1>5. ASSUME NEW v \in Workers, v # w
        PROVE  lock'["pipeline"] = v <=> lock["pipeline"] = v
    BY <1>4, <1>5, OperationsAssumption
  <1>6. ASSUME NEW a \in Articles, NEW v \in Workers, Pending(v, a)', lock'["pipeline"] # v
        PROVE  Pending(v, a) /\ lock["pipeline"] # v
    <2>1. v # w
      BY <1>2, <1>3, <1>4, <1>6 DEF Pending, At
    <2> QED
      BY <1>2, <1>5, <1>6, <2>1 DEF Pending, At, Ages
  <1>7. ASSUME NEW a \in Articles PROVE Late(a)' \subseteq Late(a)
    BY <1>6 DEF Late
  <1>8. ASSUME NEW v \in Workers, At(v, "enrich")'
        PROVE  At(v, "enrich") /\ v # w /\ job'[v] = job[v]
    BY <1>2, <1>3, <1>8 DEF At
  <1>9. ASSUME NEW a \in Articles, Open(a)' PROVE Open(a)
    <2>1. CASE Fresh(a)'
      BY <2>1 DEF Open, Ages
    <2>2. CASE \E v \in Workers : lock'["pipeline"] = v /\ At(v, "enrich")' /\ a \in job'[v].batch
      BY <1>5, <1>8, <2>2 DEF Open
    <2> QED
      BY <1>9, <2>1, <2>2 DEF Open
  <1>10. BatchesStored'
    BY <1>8 DEF CostInv, BatchesStored, Ages
  <1> QED
    BY <1>1, <1>7, <1>9, <1>10, Costless

LEMMA ReadDueCosts ==
    ASSUME PlanInv, CostInv, NEW w \in Workers, ReadDue(w)
    PROVE  CostInv'
  <1> DEFINE due == {a \in Articles : row[a].st = "new" /\ Due(a)}
  <1>1. /\ job' = [job EXCEPT ![w].pc = "enrich", ![w].batch = due]
        /\ At(w, "process") /\ UNCHANGED <<row, lock, made, upsets>>
    BY DEF ReadDue
  <1>2. \A a \in due : a \in Articles /\ Fresh(a) /\ Stored(a)
    BY DEF Fresh, Stored
  <1> HIDE DEF due
  <1>3. IsJob(job[w]) /\ job = [v \in Workers |-> job[v]]
    BY DEF PlanInv, JobInv, JobHolds
  <1>4. /\ job'[w].pc = "enrich" /\ job'[w].batch = due
        /\ \A v \in Workers : v # w => job'[v] = job[v]
    BY <1>1, <1>3 DEF IsJob
  <1>5. ASSUME NEW a \in Articles, NEW v \in Workers, Pending(v, a)' PROVE Pending(v, a)
    BY <1>1, <1>2, <1>4, <1>5 DEF Pending, At, Fresh
  <1>6. ASSUME NEW a \in Articles PROVE Late(a)' \subseteq Late(a)
    BY <1>1, <1>5 DEF Late
  <1>7. ASSUME NEW a \in Articles, Open(a)' PROVE Open(a)
    <2>1. CASE Fresh(a)'
      BY <1>1, <2>1 DEF Open, Fresh
    <2>2. CASE \E v \in Workers : lock'["pipeline"] = v /\ At(v, "enrich")' /\ a \in job'[v].batch
      <3>1. PICK v \in Workers : lock'["pipeline"] = v /\ At(v, "enrich")' /\ a \in job'[v].batch
        BY <2>2
      <3>2. CASE v = w
        BY <1>2, <1>4, <3>1, <3>2 DEF Open
      <3>3. CASE v # w
        BY <1>1, <1>4, <3>1, <3>3 DEF Open, At
      <3> QED
        BY <3>2, <3>3
    <2> QED
      BY <1>7, <2>1, <2>2 DEF Open
  <1>8. BatchesStored'
    <2> SUFFICES ASSUME NEW v \in Workers, NEW a \in Articles, At(v, "enrich")', a \in job'[v].batch
                 PROVE  Stored(a)'
      BY DEF BatchesStored
    <2>1. CASE v = w
      BY <1>1, <1>2, <1>4, <2>1 DEF Stored
    <2>2. CASE v # w
      BY <1>1, <1>4, <2>2 DEF CostInv, BatchesStored, Stored, At
    <2> QED
      BY <2>1, <2>2
  <1> QED
    BY <1>1, <1>6, <1>7, <1>8, Costless

\* A lock is lost: its holder may still enrich what it has read, and the upset pays.
LEMMA LoseLockCosts ==
    ASSUME PlanInv, CostInv, NEW k \in Locks, LoseLock(k)
    PROVE  CostInv'
  <1>1. UNCHANGED <<row, job, made>> /\ upsets' = upsets + 1 /\ lock' = [lock EXCEPT ![k] = Nobody]
    BY DEF LoseLock, Upset
  <1>2. \A v \in Workers : lock'["pipeline"] = v => lock["pipeline"] = v
    BY <1>1, OperationsAssumption DEF PlanInv, Locks
  <1>3. ASSUME NEW a \in Articles
        PROVE  /\ made'[a] + Cardinality(Late(a)') + ToCome(a)' <= 1 + upsets'
    <2> DEFINE L == Late(a) \union {lock["pipeline"]}
    <2>1. Late(a)' \in SUBSET L
      <3>1. ASSUME NEW v \in Late(a)' PROVE v \in L
        <4>1. v \in Workers /\ lock'["pipeline"] # v /\ Pending(v, a)
          BY <1>1, <3>1 DEF Late, Pending, At, Fresh
        <4> QED
          BY <4>1 DEF Late
      <3> QED
        BY <3>1
    <2>2. IsFiniteSet(L) /\ Cardinality(L) <= Cardinality(Late(a)) + 1
      BY LateFinite, FS_AddElement
    <2>3. IsFiniteSet(Late(a)') /\ Cardinality(Late(a)') <= Cardinality(L)
      BY <2>1, <2>2, FS_Subset
    <2>4. Cardinality(Late(a)') \in Nat /\ Cardinality(L) \in Nat /\ Cardinality(Late(a)) \in Nat
      BY <2>2, <2>3, LateFinite, FS_CardinalityType
    <2>5. Open(a)' => Open(a)
      BY <1>1, <1>2 DEF Open, Fresh, At
    <2>6. ToCome(a) \in {0, 1} /\ ToCome(a)' \in {0, 1} /\ ToCome(a)' <= ToCome(a)
      BY <2>5 DEF ToCome
    <2>7. made[a] \in Nat /\ upsets \in Nat
          /\ made[a] + Cardinality(Late(a)) + ToCome(a) <= 1 + upsets
      BY DEF CostInv
    <2> HIDE DEF L
    <2> QED
      BY <1>1, <2>2, <2>3, <2>4, <2>6, <2>7
  <1>4. BatchesStored'
    BY <1>1 DEF CostInv, BatchesStored, Stored, At
  <1> QED
    BY <1>1, <1>3, <1>4 DEF CostInv

\* Time changes neither jobs nor locks.
LEMMA IdleCosts ==
    ASSUME CostInv, UNCHANGED <<job, lock, made, upsets>>, Ages
    PROVE  CostInv'
  <1>1. ASSUME NEW a \in Articles PROVE Late(a)' \subseteq Late(a)
    BY DEF Late, Pending, At, Ages
  <1>2. ASSUME NEW a \in Articles, Open(a)' PROVE Open(a)
    BY <1>2 DEF Open, At, Ages
  <1>3. BatchesStored'
    BY DEF CostInv, BatchesStored, At, Ages
  <1> QED
    BY <1>1, <1>2, <1>3, Costless

LEMMA StepCosts ==
    ASSUME PlanInv, CostInv, NEW w \in Workers, Step(w), Ages
    PROVE  CostInv'
  <1>1. CASE PlanStep(w)
    BY <1>1, PlanStepAside, AsideCosts
  <1>2. CASE ReadDue(w)
    BY <1>2, ReadDueCosts
  <1>3. CASE \E a \in Articles : Enrich(w, a)
    BY <1>3, EnrichCosts
  <1>4. CASE EndProcess(w) \/ ProcessRaises(w)
    BY <1>4, AfterProcessAside, AsideCosts DEF EndProcess, ProcessRaises
  <1>5. CASE PublishStep(w)
    <2>1. made' = made /\ upsets' \in {upsets, upsets + 1}
      BY <1>5 DEF PublishStep, OpenPublish, CountDue, ReadList, Post, PostFails, EndPublish, Upset
    <2>2. Aside(w)
      BY <1>5, PublishAside
    <2> QED
      BY <2>1, <2>2, AsideCosts
  <1> QED
    BY <1>1, <1>2, <1>3, <1>4, <1>5 DEF Step, PlanStep, PublishStep

LEMMA NextCosts == ASSUME PlanInv, CostInv, [Next]_vars PROVE CostInv'
  <1>0. Ages
    BY RowsAge
  <1>1. ASSUME NEW w \in Workers, NEW kind \in mix, Start(w, kind) PROVE CostInv'
    BY <1>0, <1>1, StartCosts
  <1>2. ASSUME NEW w \in Workers, Step(w) PROVE CostInv'
    BY <1>0, <1>2, StepCosts
  <1>3. ASSUME NEW w \in Workers, Crash(w) PROVE CostInv'
    BY <1>0, <1>3, FinishAside, AsideCosts DEF Crash, Upset
  <1>4. ASSUME NEW k \in Locks, LoseLock(k) PROVE CostInv'
    BY <1>4, LoseLockCosts
  <1>5. CASE Tick \/ UNCHANGED vars
    BY <1>0, <1>5, IdleCosts DEF Tick, vars
  <1> QED
    BY <1>1, <1>2, <1>3, <1>4, <1>5 DEF Next

LEMMA InitCosts == Init => CostInv
  <1> SUFFICES ASSUME Init PROVE CostInv
    OBVIOUS
  <1>1. made = [a \in Articles |-> 0] /\ upsets = 0 /\ \A w \in Workers : job[w].pc = "idle"
    BY DEF Init, NoJob
  <1>2. BatchesStored /\ \A a : Late(a) = {}
    BY <1>1 DEF BatchesStored, Late, Pending, At
  <1>3. \A a : Cardinality(Late(a)) = 0 /\ ToCome(a) \in {0, 1}
    BY <1>2, FS_EmptySet DEF ToCome
  <1> QED
    BY <1>1, <1>2, <1>3 DEF CostInv

\* Whatever mix of pipeline and process jobs runs, with or without the locks they
\* started with, no article is enriched more than once per fault and once besides
\* (run_job, _execute_process): the advisory lock alone keeps two jobs apart.
THEOREM ArticlesEnrichedOnce == Spec => []EnrichedOnce
  <1> DEFINE Inv == PlanInv /\ CostInv
  <1>1. Init => Inv
    BY InitPlans, InitCosts
  <1>2. Inv /\ [Next]_vars => Inv'
    BY NextPlans, NextCosts DEF PlanMove
  <1>3. Inv => EnrichedOnce
    <2> SUFFICES ASSUME CostInv, NEW a \in Articles PROVE made[a] <= 1 + upsets
      BY DEF EnrichedOnce
    <2>1. Cardinality(Late(a)) \in Nat /\ ToCome(a) \in {0, 1}
      BY LateFinite DEF ToCome
    <2> QED
      BY <2>1 DEF CostInv
  <1> QED
    BY <1>1, <1>2, <1>3, PTL DEF Spec

-----------------------------------------------------------------------------
(***************************************************************************)
(* Types.  That the times a cycle was given fill the places of its plan is *)
(* what the assignment rests on, and that they are times of a day the      *)
(* clock reaches rests on the day having room for them.                    *)
(***************************************************************************)
JobTyped(j) ==
    /\ IsJob(j)
    /\ j.kind \in mix \union {"none"}
    /\ j.batch \subseteq Articles /\ j.limit \in 0..PublishMax
    /\ j.owed \subseteq Articles \ Stubborn /\ j.since \in 0..MaxUpsets
    /\ j.slots \in Seq(Clock)
    /\ j.plan \subseteq Articles
    /\ j.pc = "assign" => \A a \in j.plan : Before(a, j.plan) + 1 \in 1..Len(j.slots)
JobsTyped ==
    /\ job = [w \in Workers |-> job[w]]
    /\ \A w \in Workers : JobTyped(job[w])

RowTyped(r) == r \in Row /\ (r.chosen => r.at \in Clock)
RowsTyped ==
    /\ row = [a \in Articles |-> row[a]]
    /\ \A a \in Articles : RowTyped(row[a])

LockTyped == lock \in [Locks -> Workers \union {Nobody}]
RestTyped ==
    /\ mix \in Mixes /\ clock \in Clock /\ LockTyped
    /\ made \in [Articles -> Nat] /\ lost \subseteq Locks /\ upsets \in 0..MaxUpsets
OpsTyped == JobsTyped /\ RowsTyped /\ RestTyped

LEMMA OneTyped ==
    ASSUME JobsTyped, mix' = mix, NEW w \in Workers, NEW j, JobTyped(j),
           job' = [job EXCEPT ![w] = j]
    PROVE  JobsTyped'
  <1>1. \A i : JobTyped(i) => JobTyped(i)'
    BY DEF JobTyped, IsJob, Before
  <1> HIDE DEF JobTyped
  <1>2. \A v \in Workers : job'[v] = (IF v = w THEN j ELSE job[v])
    BY DEF JobsTyped
  <1>3. \A v \in Workers : JobTyped(job'[v])
    BY <1>2 DEF JobsTyped
  <1>4. \A v \in Workers : JobTyped(job[v])'
    BY <1>3 DEF JobTyped, IsJob, Before
  <1> QED
    BY <1>4 DEF JobsTyped

LEMMA JobsStay == ASSUME JobsTyped, mix' = mix, job' = job PROVE JobsTyped'
  BY DEF JobsTyped, JobTyped, IsJob, Before

LEMMA EmptyTyped == JobTyped(NoJob)
  BY OperationsAssumption DEF JobTyped, NoJob, IsJob

LEMMA FinishTyped ==
    ASSUME JobsTyped, LockTyped, mix' = mix, NEW w \in Workers, Finish(w)
    PROVE  JobsTyped' /\ LockTyped'
  <1>1. JobsTyped'
    BY EmptyTyped, OneTyped DEF Finish
  <1>2. LockTyped'
    BY DEF LockTyped, Finish, Released
  <1> QED
    BY <1>1, <1>2

\* A step that only moves a job on.
LEMMA GotoTyped ==
    ASSUME JobsTyped, mix' = mix, NEW w \in Workers, NEW p, p # "assign", Goto(w, p)
    PROVE  JobsTyped'
  <1> DEFINE j == [job[w] EXCEPT !.pc = p]
  <1>1. job' = [job EXCEPT ![w] = j]
    BY DEF Goto, JobsTyped
  <1>2. JobTyped(job[w])
    BY DEF JobsTyped
  <1>3. /\ IsJob(j) /\ j.pc = p /\ j.kind = job[w].kind /\ j.batch = job[w].batch
        /\ j.slots = job[w].slots /\ j.plan = job[w].plan
        /\ j.limit = job[w].limit /\ j.owed = job[w].owed /\ j.since = job[w].since
    BY <1>2 DEF JobTyped, IsJob
  <1> HIDE DEF j
  <1>4. JobTyped(j)
    BY <1>2, <1>3 DEF JobTyped
  <1> QED
    BY <1>1, <1>4, OneTyped

LEMMA RowsStay == ASSUME RowsTyped, row' = row PROVE RowsTyped'
  BY DEF RowsTyped, RowTyped, Row, Clock

LEMMA RowsWritten ==
    ASSUME row' = [a \in Articles |-> row'[a]], \A a \in Articles : RowTyped(row'[a])
    PROVE  RowsTyped'
  BY DEF RowsTyped, RowTyped, Row, Clock

\* The day of the clock is one of the days, and what is ahead of it on that day is a
\* time of the clock.
LEMMA ClockDay ==
    ASSUME NEW t \in Clock
    PROVE  /\ t \in Nat /\ DayOf(t) \in 0..NoDay
           /\ DayStart(t) \in Nat /\ DayStart(t) + DayLength <= Never /\ Never \in Nat
  <1> DEFINE d == DayOf(t)
             m == t % DayLength
  <1>1. DayLength \in Nat \ {0} /\ LastDay \in Nat /\ NoDay = LastDay + 1
    BY SlotsAssumption, OperationsAssumption DEF NoDay
  <1>2. Never = DayLength * NoDay /\ Never \in Nat
    BY <1>1 DEF Never
  <1>3. t \in Nat /\ t < Never
    BY <1>2 DEF Clock
  <1>4. DayStart(t) = DayLength * d /\ DayStart(t) \in Nat /\ d \in Nat
    BY <1>3, DayShape DEF d
  <1>5. t = DayLength * d + m /\ m \in 0..(DayLength - 1)
    BY <1>1, <1>3, Division DEF DayOf
  <1> HIDE DEF d, m
  <1>6. d + 1 <= NoDay
    <2> SUFFICES ASSUME NoDay <= d PROVE FALSE
      BY <1>1, <1>4
    <2>1. DayLength * NoDay <= DayLength * d
      BY <1>1, <1>4, Times
    <2> QED
      BY <1>1, <1>2, <1>3, <1>4, <1>5, <2>1
  <1>7. DayLength * (d + 1) <= DayLength * NoDay
    BY <1>1, <1>4, <1>6, Times
  <1>8. DayLength * (d + 1) = DayLength * d + DayLength
    BY <1>1, <1>4
  <1> QED
    BY <1>1, <1>2, <1>3, <1>4, <1>6, <1>7, <1>8 DEF d

\* The rows that are given a time.
LEMMA AssignedTyped ==
    ASSUME RowsTyped, clock \in Clock, NEW plan, NEW time,
           \A a \in Articles : a \in plan => time[a] \in Clock,
           row' = Assigned(plan, time)
    PROVE  RowsTyped'
  <1> DEFINE f(a) == IF a \in plan
                     THEN [row[a] EXCEPT !.chosen = TRUE, !.day = DayOf(clock), !.at = time[a]]
                     ELSE row[a]
  <1>1. row' = [a \in Articles |-> f(a)]
    BY DEF Assigned
  <1>2. DayOf(clock) \in 0..NoDay /\ Clock \subseteq 0..Never
    <2>1. DayOf(clock) \in 0..NoDay /\ Never \in Nat
      BY ClockDay
    <2> QED
      BY <2>1 DEF Clock
  <1>3. ASSUME NEW a \in Articles PROVE RowTyped(f(a))
    <2>1. RowTyped(row[a])
      BY DEF RowsTyped
    <2>2. CASE a \in plan
      <3>1. time[a] \in Clock /\ time[a] \in 0..Never
        BY <1>2, <2>2
      <3>2. f(a) = [row[a] EXCEPT !.chosen = TRUE, !.day = DayOf(clock), !.at = time[a]]
        BY <2>2
      <3> QED
        BY <1>2, <2>1, <3>1, <3>2 DEF RowTyped, Row
    <2> QED
      BY <2>1, <2>2
  <1> HIDE DEF f
  <1> QED
    BY <1>1, <1>3, RowsWritten

\* The first n rows have places below n among themselves.
LEMMA FirstPlaces ==
    ASSUME NEW S \in SUBSET Articles, NEW n \in Nat, NEW a \in FirstOf(S, n)
    PROVE  Before(a, FirstOf(S, n)) + 1 \in 1..n
  <1> DEFINE A == {b \in S : b > a}
             B == {b \in FirstOf(S, n) : b > a}
  <1>1. IsFiniteSet(S) /\ A \in SUBSET S /\ B \in SUBSET A
    BY OperationsAssumption, FS_Subset DEF FirstOf
  <1>2. Before(a, S) = Cardinality(A) /\ Before(a, FirstOf(S, n)) = Cardinality(B)
    BY DEF Before
  <1>3. Before(a, S) < n
    BY DEF FirstOf
  <1> HIDE DEF A, B
  <1>4. IsFiniteSet(A)
    BY <1>1, FS_Subset
  <1>5. Cardinality(A) \in Nat /\ Cardinality(B) \in Nat /\ Cardinality(B) <= Cardinality(A)
    BY <1>1, <1>4, FS_Subset, FS_CardinalityType
  <1> QED
    BY <1>2, <1>3, <1>5

\* A fetch cycle up to its plan.
LEMMA FetchTyped ==
    ASSUME OpsTyped, NEW w \in Workers,
           \/ \E served \in SUBSET Articles : Pull(w, served)
           \/ \E breaking \in SUBSET Articles : Score(w, breaking)
    PROVE  OpsTyped'
  <1>1. /\ \/ Goto(w, "score") \/ Goto(w, "breaking")
        /\ UNCHANGED <<mix, clock, lock, made, lost, upsets>>
    BY DEF Pull, Score
  <1>2. JobsTyped'
    BY <1>1, GotoTyped DEF OpsTyped
  <1>3. RestTyped'
    BY <1>1 DEF OpsTyped, RestTyped, LockTyped, Clock
  <1>4. \A a \in Articles : RowTyped(row[a])
    BY DEF OpsTyped, RowsTyped
  <1>5. CASE \E served \in SUBSET Articles : Pull(w, served)
    <2>1. PICK served \in SUBSET Articles : Pull(w, served)
      BY <1>5
    <2>2. row' = [a \in Articles |-> IF a \in served /\ row[a].st = "absent"
                                    THEN [row[a] EXCEPT !.st = "new"] ELSE row[a]]
      BY <2>1 DEF Pull
    <2>3. ASSUME NEW a \in Articles PROVE RowTyped(row'[a])
      <3>1. row'[a] = row[a] \/ row'[a] = [row[a] EXCEPT !.st = "new"]
        BY <2>2
      <3> QED
        BY <1>4, <3>1 DEF RowTyped, Row
    <2>4. RowsTyped'
      BY <2>2, <2>3, RowsWritten
    <2> QED
      BY <1>2, <1>3, <2>4 DEF OpsTyped
  <1>6. CASE \E breaking \in SUBSET Articles : Score(w, breaking)
    <2>1. PICK breaking \in SUBSET Articles :
             row' = [a \in Articles |-> [row[a] EXCEPT !.breaking = a \in breaking]]
      BY <1>6 DEF Score
    <2>2. ASSUME NEW a \in Articles PROVE RowTyped(row'[a])
      <3> DEFINE flag == a \in breaking
      <3>1. row'[a] = [row[a] EXCEPT !.breaking = flag]
        BY <2>1
      <3>2. flag \in BOOLEAN
        OBVIOUS
      <3> HIDE DEF flag
      <3> QED
        BY <1>4, <3>1, <3>2 DEF RowTyped, Row
    <2>3. RowsTyped'
      BY <2>1, <2>2, RowsWritten
    <2> QED
      BY <1>2, <1>3, <2>3 DEF OpsTyped
  <1> QED
    BY <1>5, <1>6

\* The places a day has left.
LEMMA RemainingFits == Remaining \in 0..DailyTarget
  <1>1. DailyTarget \in Nat /\ ChosenToday \in SUBSET Articles /\ IsFiniteSet(Articles)
    BY OperationsAssumption DEF ChosenToday
  <1>2. Cardinality(ChosenToday) \in Nat
    BY <1>1, FS_Subset, FS_CardinalityType
  <1> QED
    BY <1>1, <1>2 DEF Remaining

\* The plan, as long as the day has room for the quota.
LEMMA PlanTyped ==
    ASSUME OpsTyped, \A n \in 0..DailyTarget : Roomy(n), NEW w \in Workers,
           \/ \E found \in SUBSET Articles : ReadBreaking(w, found) \/ SelectForQuota(w, found)
           \/ AssignBreaking(w) \/ CountToday(w) \/ AssignQuota(w)
    PROVE  OpsTyped'
  <1>0. /\ JobsTyped /\ LockTyped /\ RowsTyped /\ clock \in Clock /\ mix' = mix
        /\ JobTyped(job[w])
    BY DEF OpsTyped, RestTyped, JobsTyped, ReadBreaking, AssignBreaking, CountToday,
           SelectForQuota, AssignQuota
  <1>1. UNCHANGED <<mix, clock, made, lost, upsets>>
    BY DEF ReadBreaking, AssignBreaking, CountToday, SelectForQuota, AssignQuota
  <1>2. LockTyped' => RestTyped'
    BY <1>1 DEF OpsTyped, RestTyped, Clock
  <1>3. lock' = lock => LockTyped'
    BY <1>0 DEF LockTyped
  <1>4. row' = row => RowsTyped'
    BY <1>0, RowsStay
  <1>5. Finish(w) => JobsTyped' /\ LockTyped'
    BY <1>0, FinishTyped
  <1>6. ASSUME NEW p, NEW x, x \subseteq Articles,
               job' = [job EXCEPT ![w].pc = p, ![w].plan = x],
               p = "assign" => \A a \in x : Before(a, x) + 1 \in 1..Len(job[w].slots)
        PROVE  JobsTyped'
    <2> DEFINE j == [job[w] EXCEPT !.pc = p, !.plan = x]
    <2>1. job' = [job EXCEPT ![w] = j]
      BY <1>0, <1>6 DEF JobsTyped
    <2>2. /\ IsJob(j) /\ j.pc = p /\ j.kind = job[w].kind /\ j.batch = job[w].batch
          /\ j.slots = job[w].slots /\ j.plan = x
          /\ j.limit = job[w].limit /\ j.owed = job[w].owed /\ j.since = job[w].since
      BY <1>0 DEF JobTyped, IsJob
    <2> HIDE DEF j
    <2>3. JobTyped(j)
      BY <1>0, <1>6, <2>2 DEF JobTyped
    <2> QED
      BY <1>0, <2>1, <2>3, OneTyped
  <1>7. ASSUME NEW found \in SUBSET Articles, ReadBreaking(w, found) PROVE OpsTyped'
    <2>1. JobsTyped'
      <3> DEFINE p == IF found = {} THEN "count" ELSE "assign now"
      <3>1. found \subseteq Articles
        OBVIOUS
      <3>2. job' = [job EXCEPT ![w].pc = p, ![w].plan = found]
        BY <1>7 DEF ReadBreaking
      <3>3. p # "assign"
        OBVIOUS
      <3> HIDE DEF p
      <3> QED
        BY <1>6, <3>1, <3>2, <3>3
    <2>2. lock' = lock /\ row' = row
      BY <1>7 DEF ReadBreaking
    <2> QED
      BY <1>2, <1>3, <1>4, <2>1, <2>2 DEF OpsTyped
  <1>8. CASE AssignBreaking(w)
    <2>1. JobsTyped' /\ lock' = lock
      <3> DEFINE p == "count"
                 x == {}
      <3>1. job' = [job EXCEPT ![w].pc = p, ![w].plan = x] /\ lock' = lock
        BY <1>8 DEF AssignBreaking
      <3>2. x \subseteq Articles /\ p # "assign"
        OBVIOUS
      <3> HIDE DEF p, x
      <3> QED
        BY <1>6, <3>1, <3>2
    <2>2. RowsTyped'
      <3> DEFINE plan == job[w].plan
                 time == [a \in plan |-> clock]
      <3>1. row' = Assigned(plan, time)
        BY <1>8 DEF AssignBreaking
      <3>2. \A a \in Articles : a \in plan => time[a] \in Clock
        BY <1>0
      <3> HIDE DEF time
      <3> QED
        BY <1>0, <3>1, <3>2, AssignedTyped
    <2> QED
      BY <1>2, <1>3, <2>1, <2>2 DEF OpsTyped
  <1>9. CASE CountToday(w)
    <2> DEFINE s == TodaySlots(clock, Remaining)
               j == [job[w] EXCEPT !.pc = "select", !.slots = s]
    <2>1. row' = row /\ (Finish(w) \/ (job' = [job EXCEPT ![w] = j] /\ lock' = lock))
      BY <1>0, <1>9 DEF CountToday, JobsTyped
    <2>2. s \in Seq(Clock)
      <3>1. /\ clock \in Nat /\ Never \in Nat
            /\ DayStart(clock) \in Nat /\ DayStart(clock) + DayLength <= Never
        BY <1>0, ClockDay
      <3>2. Remaining \in Nat /\ Roomy(Remaining)
        BY RemainingFits
      <3>3. /\ Len(s) \in Nat /\ s = [k \in 1..Len(s) |-> s[k]]
            /\ \A k \in 1..Len(s) : s[k] \in Int /\ s[k] > clock
            /\ \A k \in 1..Len(s) : s[k] < DayStart(clock) + DayLength
        <4> DEFINE n == Remaining
                   t == TodaySlots(clock, n)
        <4>1. n \in Nat /\ Roomy(n) /\ t = s
          BY <3>2
        <4> HIDE DEF n
        <4>2. /\ Len(t) \in 0..n /\ t = [k \in 1..Len(t) |-> t[k]]
              /\ \A k \in 1..Len(t) : t[k] \in Int /\ t[k] > clock
              /\ Roomy(n) => \A k \in 1..Len(t) : t[k] < DayStart(clock) + DayLength
          BY <3>1, <4>1, SlotsHold
        <4> HIDE DEF t, s
        <4> QED
          BY <4>1, <4>2
      <3> HIDE DEF s
      <3>4. DayLength \in Nat
        BY SlotsAssumption
      <3>5. \A k \in 1..Len(s) : s[k] \in Clock
        BY <3>1, <3>3, <3>4 DEF Clock
      <3> QED
        BY <3>3, <3>5
    <2> HIDE DEF s
    <2>3. /\ IsJob(j) /\ j.pc = "select" /\ j.kind = job[w].kind /\ j.batch = job[w].batch
          /\ j.slots = s /\ j.plan = job[w].plan
          /\ j.limit = job[w].limit /\ j.owed = job[w].owed /\ j.since = job[w].since
      BY <1>0 DEF JobTyped, IsJob
    <2> HIDE DEF j
    <2>4. JobTyped(j)
      BY <1>0, <2>2, <2>3 DEF JobTyped
    <2>5. JobsTyped' /\ LockTyped'
      BY <1>0, <1>3, <1>5, <2>1, <2>4, OneTyped
    <2> QED
      BY <1>2, <1>4, <2>1, <2>5 DEF OpsTyped
  <1>10. ASSUME NEW found \in SUBSET Articles, SelectForQuota(w, found) PROVE OpsTyped'
    <2> DEFINE x == FirstOf(found, Len(job[w].slots))
    <2>1. /\ row' = row
          /\ \/ Finish(w)
             \/ job' = [job EXCEPT ![w].pc = "assign", ![w].plan = x] /\ lock' = lock
      BY <1>10 DEF SelectForQuota
    <2>2. Len(job[w].slots) \in Nat
      BY <1>0 DEF JobTyped
    <2>3. x \subseteq Articles /\ \A a \in x : Before(a, x) + 1 \in 1..Len(job[w].slots)
      <3>1. x \subseteq Articles
        BY <2>2 DEF FirstOf
      <3> QED
        BY <2>2, <3>1, FirstPlaces
    <2> HIDE DEF x
    <2>4. JobsTyped' /\ LockTyped'
      BY <1>3, <1>5, <1>6, <2>1, <2>3
    <2> QED
      BY <1>2, <1>4, <2>1, <2>4 DEF OpsTyped
  <1>11. CASE AssignQuota(w)
    <2> DEFINE plan == job[w].plan
               time == [a \in plan |-> job[w].slots[1 + Before(a, plan)]]
    <2>1. row' = Assigned(plan, time) /\ Finish(w) /\ job[w].pc = "assign"
      BY <1>11 DEF AssignQuota, At
    <2>2. \A a \in plan : job[w].slots[1 + Before(a, plan)] \in Clock
      <3> SUFFICES ASSUME NEW a \in plan PROVE job[w].slots[1 + Before(a, plan)] \in Clock
        OBVIOUS
      <3>1. job[w].slots \in Seq(Clock) /\ Before(a, plan) + 1 \in 1..Len(job[w].slots)
        BY <1>0, <2>1 DEF JobTyped
      <3>2. Before(a, plan) + 1 = 1 + Before(a, plan)
        <4>1. Before(a, plan) \in Nat
          <5>1. plan \in SUBSET Articles /\ {b \in plan : b > a} \in SUBSET Articles
            BY <1>0 DEF JobTyped
          <5>2. IsFiniteSet({b \in plan : b > a})
            BY <5>1, OperationsAssumption, FS_Subset
          <5> QED
            BY <5>2, FS_CardinalityType DEF Before
        <4> QED
          BY <4>1
      <3> QED
        BY <3>1, <3>2
    <2>3. \A a \in Articles : a \in plan => time[a] \in Clock
      BY <2>2
    <2> HIDE DEF time
    <2>4. RowsTyped'
      BY <1>0, <2>1, <2>3, AssignedTyped
    <2> QED
      BY <1>2, <1>5, <2>1, <2>4 DEF OpsTyped
  <1> QED
    BY <1>7, <1>8, <1>9, <1>10, <1>11

LEMMA AfterTyped ==
    ASSUME JobsTyped, LockTyped, mix' = mix, NEW w \in Workers, AfterProcess(w)
    PROVE  JobsTyped' /\ LockTyped'
  <1>1. CASE job[w].kind # "pipeline"
    BY <1>1, FinishTyped DEF AfterProcess
  <1>2. CASE job[w].kind = "pipeline"
    <2> DEFINE j == [job[w] EXCEPT !.pc = "publish", !.batch = {}]
    <2>1. job' = [job EXCEPT ![w] = j] /\ lock' = lock
      BY <1>2 DEF AfterProcess, JobsTyped
    <2>2. JobTyped(job[w])
      BY DEF JobsTyped
    <2>3. /\ IsJob(j) /\ j.pc = "publish" /\ j.kind = job[w].kind /\ j.batch = {}
          /\ j.slots = job[w].slots /\ j.plan = job[w].plan
          /\ j.limit = job[w].limit /\ j.owed = job[w].owed /\ j.since = job[w].since
      BY <2>2 DEF JobTyped, IsJob
    <2> HIDE DEF j
    <2>4. JobTyped(j)
      BY <2>2, <2>3 DEF JobTyped
    <2> QED
      BY <2>1, <2>4, OneTyped DEF LockTyped
  <1> QED
    BY <1>1, <1>2

\* What is due is finitely many.
LEMMA ToPostFinite == IsFiniteSet(ToPost) /\ Cardinality(ToPost) \in Nat /\ ToPost \in SUBSET Articles
  <1>1. ToPost \in SUBSET Articles
    BY DEF ToPost
  <1>2. IsFiniteSet(ToPost)
    BY <1>1, OperationsAssumption, FS_Subset
  <1> QED
    BY <1>1, <1>2, FS_CardinalityType

\* The stages of a pipeline.
LEMMA StagesTyped ==
    ASSUME OpsTyped, NEW w \in Workers,
           \/ ReadDue(w) \/ EndProcess(w) \/ ProcessRaises(w)
           \/ \E a \in Articles : Enrich(w, a)
           \/ PublishStep(w)
    PROVE  OpsTyped'
  <1>0. /\ JobsTyped /\ LockTyped /\ RowsTyped /\ JobTyped(job[w])
        /\ made \in [Articles -> Nat] /\ upsets \in 0..MaxUpsets
        /\ UNCHANGED <<mix, clock, lost>>
    BY DEF OpsTyped, RestTyped, JobsTyped, ReadDue, EndProcess, ProcessRaises, Enrich,
           PublishStep, OpenPublish, CountDue, ReadList, Post, PostFails, EndPublish
  <1>1. row' = row => RowsTyped'
    BY <1>0, RowsStay
  <1>2. LockTyped' /\ made' \in [Articles -> Nat] /\ upsets' \in 0..MaxUpsets => RestTyped'
    BY <1>0 DEF OpsTyped, RestTyped, LockTyped, Clock
  <1>3. ASSUME NEW b, b \subseteq Articles, NEW p, p # "assign",
               job' = [job EXCEPT ![w] = [job[w] EXCEPT !.pc = p, !.batch = b]]
        PROVE  JobsTyped'
    <2> DEFINE j == [job[w] EXCEPT !.pc = p, !.batch = b]
    <2>1. /\ IsJob(j) /\ j.pc = p /\ j.kind = job[w].kind /\ j.batch = b
          /\ j.slots = job[w].slots /\ j.plan = job[w].plan
          /\ j.limit = job[w].limit /\ j.owed = job[w].owed /\ j.since = job[w].since
      BY <1>0 DEF JobTyped, IsJob
    <2>2. job' = [job EXCEPT ![w] = j]
      BY <1>3
    <2> HIDE DEF j
    <2>3. JobTyped(j)
      BY <1>0, <1>3, <2>1 DEF JobTyped
    <2> QED
      BY <1>0, <2>2, <2>3, OneTyped
  <1>4. CASE ReadDue(w)
    <2> DEFINE b == {a \in Articles : row[a].st = "new" /\ Due(a)}
    <2>1. job' = [job EXCEPT ![w] = [job[w] EXCEPT !.pc = "enrich", !.batch = b]]
      BY <1>0, <1>4 DEF ReadDue, JobsTyped
    <2>2. UNCHANGED <<row, lock, made, upsets>>
      BY <1>4 DEF ReadDue
    <2>3. JobsTyped'
      BY <1>3, <2>1
    <2> QED
      BY <1>0, <1>1, <1>2, <2>2, <2>3 DEF OpsTyped, LockTyped
  <1>5. CASE EndProcess(w) \/ ProcessRaises(w)
    <2>1. AfterProcess(w) /\ UNCHANGED <<row, made, upsets>>
      BY <1>5 DEF EndProcess, ProcessRaises
    <2>2. JobsTyped' /\ LockTyped'
      BY <1>0, <2>1, AfterTyped
    <2> QED
      BY <1>0, <1>1, <1>2, <2>1, <2>2 DEF OpsTyped
  <1>6. CASE OpenPublish(w)
    <2>1. /\ UNCHANGED <<row, made, upsets>>
          /\ \/ Finish(w)
             \/ lock' = [lock EXCEPT !["wp"] = w] /\ Goto(w, "count due")
      BY <1>6 DEF OpenPublish
    <2>2. JobsTyped' /\ LockTyped'
      BY <1>0, <2>1, FinishTyped, GotoTyped DEF LockTyped
    <2> QED
      BY <1>0, <1>1, <1>2, <2>1, <2>2 DEF OpsTyped
  <1>7. CASE EndPublish(w)
    <2>1. Finish(w) /\ UNCHANGED <<row, made, upsets>>
      BY <1>7 DEF EndPublish
    <2>2. JobsTyped' /\ LockTyped'
      BY <1>0, <2>1, FinishTyped
    <2> QED
      BY <1>0, <1>1, <1>2, <2>1, <2>2 DEF OpsTyped
  <1>11. CASE CountDue(w)
    <2> DEFINE n == Least(Cardinality(ToPost), PublishMax)
               j == [job[w] EXCEPT !.pc = "list", !.limit = n]
    <2>1. /\ UNCHANGED <<row, made, upsets>>
          /\ Finish(w) \/ (job' = [job EXCEPT ![w] = j] /\ lock' = lock)
      BY <1>0, <1>11 DEF CountDue, JobsTyped
    <2>2. n \in 0..PublishMax
      <3>1. Cardinality(ToPost) \in Nat /\ PublishMax \in Nat
        BY ToPostFinite, OperationsAssumption
      <3> QED
        BY <3>1 DEF Least
    <2> HIDE DEF n
    <2>3. /\ IsJob(j) /\ j.pc = "list" /\ j.kind = job[w].kind /\ j.batch = job[w].batch
          /\ j.slots = job[w].slots /\ j.plan = job[w].plan
          /\ j.limit = n /\ j.owed = job[w].owed /\ j.since = job[w].since
      BY <1>0 DEF JobTyped, IsJob
    <2> HIDE DEF j
    <2>4. JobTyped(j)
      BY <1>0, <2>2, <2>3 DEF JobTyped
    <2>5. JobsTyped' /\ LockTyped'
      BY <1>0, <2>1, <2>4, FinishTyped, OneTyped DEF LockTyped
    <2> QED
      BY <1>0, <1>1, <1>2, <2>1, <2>5 DEF OpsTyped
  <1>12. ASSUME NEW list, ReadList(w, list) PROVE OpsTyped'
    <2>1. job' = [job EXCEPT ![w] = [job[w] EXCEPT !.pc = "post", !.batch = list]]
      BY <1>0, <1>12 DEF ReadList, JobsTyped
    <2>2. UNCHANGED <<row, lock, made, upsets>> /\ list \subseteq Articles
      BY <1>12 DEF ReadList, ToPost
    <2>3. JobsTyped'
      BY <1>3, <2>1, <2>2
    <2> QED
      BY <1>0, <1>1, <1>2, <2>2, <2>3 DEF OpsTyped, LockTyped
  <1>13. ASSUME NEW p \in {"enrich", "post"}, NEW a, job[w].pc = p,
                job' = [job EXCEPT ![w].batch = @ \ {a}]
         PROVE  JobsTyped'
    <2>1. job' = [job EXCEPT ![w] = [job[w] EXCEPT !.pc = p, !.batch = @ \ {a}]]
      <3>1. [job[w] EXCEPT !.pc = p, !.batch = @ \ {a}] = [job[w] EXCEPT !.batch = @ \ {a}]
        BY <1>0, <1>13 DEF JobTyped, IsJob
      <3> QED
        BY <1>0, <1>13, <3>1 DEF JobsTyped
    <2>2. job[w].batch \ {a} \subseteq Articles
      BY <1>0 DEF JobTyped
    <2> QED
      BY <1>3, <2>1, <2>2
  <1>8. ASSUME NEW a \in Articles, NEW s \in {"rich", "aside", "posted"},
               \/ row' = [row EXCEPT ![a].st = s]
               \/ row' = [row EXCEPT ![a].st = s, ![a].chosen = FALSE, ![a].at = Never]
        PROVE  RowsTyped'
    <2> DEFINE no == FALSE
               p == [row[a] EXCEPT !.st = s]
               q == [row[a] EXCEPT !.st = s, !.chosen = no, !.at = Never]
    <2>1. row' = [row EXCEPT ![a] = p] \/ row' = [row EXCEPT ![a] = q]
      BY <1>0, <1>8 DEF RowsTyped
    <2>2. row[a] \in Row /\ (row[a].chosen => row[a].at \in Clock) /\ Never \in 0..Never
      <3>1. clock \in Clock
        BY DEF OpsTyped, RestTyped
      <3>2. Never \in Nat
        BY <3>1, ClockDay
      <3> QED
        BY <1>0, <3>2 DEF RowsTyped, RowTyped
    <2>3. RowTyped(p)
      BY <2>2 DEF RowTyped, Row
    <2>4. no \in BOOLEAN /\ ~no
      OBVIOUS
    <2> HIDE DEF no
    <2>5. q \in Row /\ q.chosen = no
      BY <2>2, <2>4 DEF Row
    <2>6. RowTyped(q)
      BY <2>4, <2>5 DEF RowTyped
    <2> HIDE DEF p, q
    <2>7. \A b \in Articles : RowTyped(row'[b])
      BY <1>0, <2>1, <2>3, <2>6 DEF RowsTyped
    <2>8. row' = [b \in Articles |-> row'[b]]
      BY <1>0, <2>1 DEF RowsTyped
    <2> QED
      BY <2>7, <2>8, RowsWritten
  <1>9. ASSUME NEW a \in Articles, Enrich(w, a) PROVE OpsTyped'
    <2>1. JobsTyped'
      BY <1>9, <1>13 DEF Enrich, At
    <2>2. lock' = lock /\ made' = [made EXCEPT ![a] = @ + 1]
      BY <1>9 DEF Enrich
    <2>3. upsets' \in 0..MaxUpsets
      <3>1. upsets' = upsets \/ (upsets < MaxUpsets /\ upsets' = upsets + 1)
        BY <1>9 DEF Enrich, Upset
      <3> QED
        BY <1>0, <3>1, OperationsAssumption
    <2>4. RowsTyped'
      <3>1. \/ row' = [row EXCEPT ![a].st = "rich"] \/ row' = row
            \/ row' = [row EXCEPT ![a].st = "aside", ![a].chosen = FALSE, ![a].at = Never]
        <4> DEFINE p == [row[a] EXCEPT !.st = IF @ = "new" THEN "rich" ELSE @]
        <4>1. row = [b \in Articles |-> row[b]] /\ row[a] \in Row
          BY <1>0 DEF RowsTyped, RowTyped
        <4>2. p = row[a] \/ p = [row[a] EXCEPT !.st = "rich"]
          BY <4>1 DEF Row
        <4>3. \/ row' = [row EXCEPT ![a] = p] \/ row' = row
              \/ row' = [row EXCEPT ![a].st = "aside", ![a].chosen = FALSE, ![a].at = Never]
          BY <1>9, <4>1 DEF Enrich
        <4> HIDE DEF p
        <4>4. [row EXCEPT ![a] = row[a]] = row
              /\ [row EXCEPT ![a] = [row[a] EXCEPT !.st = "rich"]] = [row EXCEPT ![a].st = "rich"]
          BY <4>1
        <4> QED
          BY <4>2, <4>3, <4>4
      <3> QED
        BY <1>1, <1>8, <3>1
    <2>5. made' \in [Articles -> Nat]
      BY <1>0, <2>2
    <2> QED
      BY <1>0, <1>2, <2>1, <2>2, <2>3, <2>4, <2>5 DEF OpsTyped, LockTyped
  <1>10. ASSUME NEW a \in Articles, Post(w, a) \/ PostFails(w, a) PROVE OpsTyped'
    <2>1. UNCHANGED <<mix, lock, made>> /\ job[w].pc = "post"
          /\ job' = [job EXCEPT ![w].batch = @ \ {a}]
      BY <1>10 DEF Post, PostFails, Listed, NextListed, At
    <2>2. RowsTyped'
      <3>1. \/ row' = [row EXCEPT ![a].st = "posted"] \/ row' = [row EXCEPT ![a].st = "aside"]
            \/ row' = row
            \/ row' = [row EXCEPT ![a].st = "aside", ![a].chosen = FALSE, ![a].at = Never]
        BY <1>10 DEF Post, PostFails
      <3> QED
        BY <1>1, <1>8, <3>1
    <2>3. JobsTyped'
      BY <1>13, <2>1
    <2>4. upsets' \in 0..MaxUpsets
      <3>1. upsets' = upsets \/ (upsets < MaxUpsets /\ upsets' = upsets + 1)
        BY <1>10 DEF Post, PostFails, Upset
      <3> QED
        BY <1>0, <3>1, OperationsAssumption
    <2> QED
      BY <1>0, <1>2, <2>1, <2>2, <2>3, <2>4 DEF OpsTyped, LockTyped
  <1> QED
    BY <1>4, <1>5, <1>6, <1>7, <1>9, <1>10, <1>11, <1>12 DEF PublishStep

LEMMA StartTyped ==
    ASSUME OpsTyped, NEW w \in Workers, NEW kind \in mix, Start(w, kind)
    PROVE  OpsTyped'
  <1>0. JobsTyped /\ LockTyped /\ RowsTyped /\ UNCHANGED <<mix, row, clock, made, lost, upsets>>
    BY DEF OpsTyped, RestTyped, Start
  <1> DEFINE j == Begun(kind)
  <1>1. /\ IsJob(j) /\ j.kind = kind /\ j.pc = FirstStep(kind) /\ j.batch = {}
        /\ j.slots = <<>> /\ j.plan = {} /\ j.limit = 0
        /\ j.owed \subseteq Articles \ Stubborn /\ (j.since = upsets \/ j.since = 0)
    BY Beginning
  <1>2. job' = [job EXCEPT ![w] = j]
    BY DEF Start
  <1> HIDE DEF j
  <1>3. JobsTyped'
    <2>1. JobTyped(j)
      <3>1. 0 \in 0..PublishMax /\ 0 \in 0..MaxUpsets /\ upsets \in 0..MaxUpsets
        BY OperationsAssumption DEF OpsTyped, RestTyped
      <3> QED
        BY <1>1, <3>1 DEF JobTyped
    <2> QED
      BY <1>0, <1>2, <2>1, OneTyped
  <1>4. LockTyped'
    <2>1. LockOf(kind) \in {"fetch", "pipeline", "none"}
      BY DEF LockOf
    <2> QED
      BY <1>0, <2>1 DEF Start, StartUnlocked, StartLocked, LockTyped, Locks
  <1>5. RestTyped'
    BY <1>0, <1>4 DEF OpsTyped, RestTyped, Clock
  <1> QED
    BY <1>0, <1>3, <1>5, RowsStay DEF OpsTyped

LEMMA FaultsTyped ==
    ASSUME OpsTyped,
           \/ \E w \in Workers : Crash(w)
           \/ \E k \in Locks : LoseLock(k)
           \/ Tick
           \/ UNCHANGED vars
    PROVE  OpsTyped'
  <1>0. /\ JobsTyped /\ LockTyped /\ RowsTyped /\ clock \in Clock
        /\ made \in [Articles -> Nat] /\ upsets \in 0..MaxUpsets /\ lost \subseteq Locks
        /\ mix \in Mixes
    BY DEF OpsTyped, RestTyped
  <1>1. ASSUME Upset PROVE upsets' \in 0..MaxUpsets
    BY <1>0, <1>1, OperationsAssumption DEF Upset
  <1>2. CASE \E w \in Workers : Crash(w)
    <2>1. PICK w \in Workers : Crash(w)
      BY <1>2
    <2>2. Finish(w) /\ Upset /\ UNCHANGED <<mix, row, clock, made, lost>>
      BY <2>1 DEF Crash
    <2>3. JobsTyped' /\ LockTyped'
      BY <1>0, <2>2, FinishTyped
    <2> QED
      BY <1>0, <1>1, <2>2, <2>3, RowsStay DEF OpsTyped, RestTyped, Clock
  <1>3. CASE \E k \in Locks : LoseLock(k)
    <2>1. PICK k \in Locks : LoseLock(k)
      BY <1>3
    <2>2. /\ lock' = [lock EXCEPT ![k] = Nobody] /\ lost' = lost \union {k} /\ Upset
          /\ UNCHANGED <<mix, row, clock, job, made>>
      BY <2>1 DEF LoseLock
    <2>3. LockTyped' /\ lost' \subseteq Locks
      BY <1>0, <2>2 DEF LockTyped
    <2>4. JobsTyped' /\ RowsTyped'
      BY <1>0, <2>2, JobsStay, RowsStay
    <2> QED
      BY <1>0, <1>1, <2>2, <2>3, <2>4 DEF OpsTyped, RestTyped, Clock
  <1>4. CASE Tick
    <2>1. clock' \in Clock /\ UNCHANGED <<mix, row, lock, job, made, lost, upsets>>
      BY <1>4 DEF Tick
    <2>2. JobsTyped' /\ RowsTyped' /\ LockTyped'
      BY <1>0, <2>1, JobsStay, RowsStay DEF LockTyped
    <2> QED
      BY <1>0, <2>1, <2>2 DEF OpsTyped, RestTyped, Clock
  <1>6. CASE UNCHANGED vars
    <2>1. JobsTyped' /\ RowsTyped' /\ LockTyped'
      BY <1>0, <1>6, JobsStay, RowsStay DEF vars, LockTyped
    <2> QED
      BY <1>0, <1>6, <2>1 DEF vars, OpsTyped, RestTyped, Clock
  <1> QED
    BY <1>2, <1>3, <1>4, <1>6

LEMMA InitTyped == Init => OpsTyped
  <1> SUFFICES ASSUME Init PROVE OpsTyped
    OBVIOUS
  <1>0. DayLength \in Nat \ {0} /\ LastDay \in Nat /\ MaxUpsets \in Nat
    BY SlotsAssumption, OperationsAssumption
  <1>1. Never \in Nat /\ DayLength <= Never /\ NoDay \in Nat
    <2>1. NoDay \in Nat /\ Never = LastDay * DayLength + DayLength
      BY <1>0 DEF Never, NoDay
    <2>2. LastDay * DayLength \in Nat
      BY <1>0
    <2> QED
      BY <1>0, <2>1, <2>2
  <1>2. JobsTyped
    BY EmptyTyped DEF Init, JobsTyped
  <1>3. RowsTyped
    <2>1. RowTyped(NoRow)
      BY <1>1 DEF NoRow, RowTyped, Row
    <2>2. ASSUME NEW r \in Planned PROVE RowTyped(r)
      <3>1. PICK t \in 0..(DayLength - 1) :
               r = [NoRow EXCEPT !.st = "new", !.breaking = TRUE, !.chosen = TRUE,
                                 !.day = 0, !.at = t]
        BY <2>2 DEF Planned
      <3>2. t \in Clock /\ t \in 0..Never
        BY <1>0, <1>1 DEF Clock
      <3>3. r = [st |-> "new", breaking |-> TRUE, chosen |-> TRUE,
                 day |-> 0, at |-> t]
        BY <3>1 DEF NoRow
      <3> QED
        BY <1>1, <3>2, <3>3 DEF RowTyped, Row
    <2>3. row \in [Articles -> {NoRow}] \/ row \in [Articles -> Planned]
      BY DEF Init
    <2> HIDE DEF RowTyped
    <2>4. \A a \in Articles : RowTyped(row[a])
      BY <2>1, <2>2, <2>3
    <2> QED
      BY <2>3, <2>4 DEF RowsTyped
  <1>4. RestTyped
    BY <1>0, <1>1 DEF Init, RestTyped, LockTyped, Clock
  <1> QED
    BY <1>2, <1>3, <1>4 DEF OpsTyped

\* Every variable has its type, and the times given to articles and offered to
\* cycles are times of the days there are, as long as each day has room for the
\* quota (_plan_today_schedule): otherwise a slot may round to the next midnight.
THEOREM OperationsTyped ==
    ASSUME \A n \in 0..DailyTarget : Roomy(n) PROVE Spec => []TypeOK
  <1>1. OpsTyped /\ [Next]_vars => OpsTyped'
    BY FetchTyped, PlanTyped, StagesTyped, StartTyped, FaultsTyped DEF Next, Step, PublishStep
  <1>2. OpsTyped => TypeOK
    BY DEF OpsTyped, JobsTyped, JobTyped, RowsTyped, RowTyped, RestTyped, LockTyped, TypeOK
  <1> QED
    BY <1>1, <1>2, InitTyped, PTL DEF Spec

-----------------------------------------------------------------------------
(***************************************************************************)
(* What a pipeline delivers.  As long as neither the fetch lock nor that   *)
(* of the pipelines was lost, an enriched article is due, and only the job *)
(* that holds the lock enriches more of them.  So what was ready when a    *)
(* pipeline started is among what it counts and lists, and leaves the list *)
(* posted, set aside or with an upset.                                     *)
(***************************************************************************)
Unharmed == lost \subseteq {"wp"}

\* Where a job is, and what it owes: articles that were enriched before it began.
Stage(w) ==
    /\ lock["wp"] = w => job[w].pc \in PublishSteps \ {"publish"}
    /\ job[w].pc \in Working => job[w].kind \in {"pipeline", "process"}
    /\ job[w].kind = "pipeline" =>
          /\ job[w].pc \in Working \union PublishSteps
          /\ job[w].since <= upsets
          /\ \A a \in job[w].owed : ~Fresh(a)

RichDue == \A a \in Articles : row[a].st = "rich" => Due(a)

\* What is due when a pipeline counts is all it may list, and what it still owes is
\* on the list it works on, unless something went wrong meanwhile.
Delivers(w) ==
    /\ job[w].kind \in {"pipeline", "process"} => lock["pipeline"] = w
    /\ At(w, "enrich") => \A a \in job[w].batch : row[a].st = "new" => Due(a)
    /\ job[w].kind = "pipeline" /\ At(w, "list") => Cardinality(ToPost) <= job[w].limit
    /\ job[w].kind = "pipeline" /\ At(w, "post") /\ upsets = job[w].since =>
          \A a \in job[w].owed : row[a].st = "rich" => a \in job[w].batch

Base == OpsTyped /\ PlanInv /\ CostInv
DeliverInv == /\ \A w \in Workers : Stage(w)
              /\ Unharmed => RichDue /\ \A w \in Workers : Delivers(w)

\* What no step does to a row: enrich one that is not in a batch, take one out of the
\* plan that it does not set aside.
RowWork ==
    \A a \in Articles :
        /\ row[a].chosen => row'[a].chosen \/ row'[a].st = "aside"
        /\ row'[a].st = "rich" => \/ row[a].st = "rich"
                                  \/ /\ row[a].st = "new"
                                     /\ \E w \in Workers : At(w, "enrich") /\ a \in job[w].batch
        /\ row'[a].st = "new" => row[a].st \in {"absent", "new"}

LEMMA OneWorked ==
    ASSUME PlanInv, NEW a \in Articles, NEW x \in {"aside", "posted"},
           \/ row' = [row EXCEPT ![a].st = x]
           \/ row' = [row EXCEPT ![a].st = "aside", ![a].chosen = FALSE, ![a].at = Never]
    PROVE  RowWork
  <1>1. row = [b \in Articles |-> row[b]] /\ IsRow(row[a])
    BY DEF PlanInv, RowsOK
  <1> DEFINE p == [row[a] EXCEPT !.st = x]
             q == [row[a] EXCEPT !.st = "aside", !.chosen = FALSE, !.at = Never]
  <1>2. /\ row' = [row EXCEPT ![a].st = x] => row' = [row EXCEPT ![a] = p]
        /\ row' = [row EXCEPT ![a].st = "aside", ![a].chosen = FALSE, ![a].at = Never]
              => row' = [row EXCEPT ![a] = q]
    BY <1>1
  <1>3. p.st = x /\ p.chosen = row[a].chosen /\ q.st = "aside"
    BY <1>1 DEF IsRow
  <1> HIDE DEF p, q
  <1>4. ASSUME row' = [row EXCEPT ![a] = p] PROVE RowWork
    <2>1. \A b \in Articles : row'[b] = IF b = a THEN p ELSE row[b]
      BY <1>1, <1>4
    <2> QED
      BY <1>3, <2>1 DEF RowWork
  <1>5. ASSUME row' = [row EXCEPT ![a] = q] PROVE RowWork
    <2>1. \A b \in Articles : row'[b] = IF b = a THEN q ELSE row[b]
      BY <1>1, <1>5
    <2> QED
      BY <1>3, <2>1 DEF RowWork
  <1> QED
    BY <1>2, <1>4, <1>5

LEMMA PlanWork == ASSUME PlanInv, NEW w \in Workers, PlanStep(w) PROVE RowWork
  <1>0. \A a \in Articles : IsRow(row[a])
    BY DEF PlanInv, RowsOK
  <1>1. CASE \E served \in SUBSET Articles : Pull(w, served)
    <2>1. ASSUME NEW a \in Articles
          PROVE  \/ row'[a] = row[a]
                 \/ row[a].st = "absent" /\ row'[a].st = "new" /\ row'[a].chosen = row[a].chosen
      <3>1. row'[a] = row[a] \/ (row[a].st = "absent" /\ row'[a] = [row[a] EXCEPT !.st = "new"])
        BY <1>1 DEF Pull
      <3> QED
        BY <1>0, <3>1 DEF IsRow
    <2> QED
      BY <2>1 DEF RowWork
  <1>2. CASE \E breaking \in SUBSET Articles : Score(w, breaking)
    <2>1. ASSUME NEW a \in Articles
          PROVE  row'[a].st = row[a].st /\ row'[a].chosen = row[a].chosen
      <3>1. PICK x : row'[a] = [row[a] EXCEPT !.breaking = x]
        BY <1>2 DEF Score
      <3> QED
        BY <1>0, <3>1 DEF IsRow
    <2> QED
      BY <2>1 DEF RowWork
  <1>3. CASE AssignBreaking(w) \/ AssignQuota(w)
    <2>1. PICK plan, time : row' = Assigned(plan, time)
      BY <1>3 DEF AssignBreaking, AssignQuota
    <2>2. ASSUME NEW a \in Articles
          PROVE  row'[a].st = row[a].st /\ (row[a].chosen => row'[a].chosen)
      <3> DEFINE d == DayOf(clock)
                 t == time[a]
                 r == [row[a] EXCEPT !.chosen = TRUE, !.day = d, !.at = t]
      <3>1. row'[a] = row[a] \/ row'[a] = r
        BY <2>1 DEF Assigned
      <3> HIDE DEF d, t
      <3>2. r.st = row[a].st /\ r.chosen = TRUE
        BY <1>0 DEF IsRow
      <3> QED
        BY <3>1, <3>2
    <2> QED
      BY <2>2 DEF RowWork
  <1>4. CASE \/ \E found \in SUBSET Articles : ReadBreaking(w, found) \/ SelectForQuota(w, found)
             \/ CountToday(w)
    BY <1>4 DEF ReadBreaking, CountToday, SelectForQuota, RowWork
  <1> QED
    BY <1>1, <1>2, <1>3, <1>4 DEF PlanStep

LEMMA NextWork == ASSUME PlanInv, [Next]_vars PROVE RowWork
  <1>0. row' = row => RowWork
    BY DEF RowWork
  <1>1. ASSUME NEW w \in Workers, NEW a \in Articles, Enrich(w, a) PROVE RowWork
    <2>1. CASE row' = [row EXCEPT ![a].st = IF @ = "new" THEN "rich" ELSE @]
      <3> DEFINE s == IF row[a].st = "new" THEN "rich" ELSE row[a].st
                 r == [row[a] EXCEPT !.st = s]
      <3>1. row = [b \in Articles |-> row[b]] /\ IsRow(row[a])
        BY DEF PlanInv, RowsOK
      <3>2. row' = [row EXCEPT ![a] = r] /\ r.st = s /\ r.chosen = row[a].chosen
        BY <2>1, <3>1 DEF IsRow
      <3> HIDE DEF r
      <3>3. \A b \in Articles : row'[b] = IF b = a THEN r ELSE row[b]
        BY <3>1, <3>2
      <3> QED
        BY <1>1, <3>2, <3>3 DEF RowWork, Enrich
    <2>2. CASE row' = [row EXCEPT ![a].st = "aside", ![a].chosen = FALSE, ![a].at = Never]
      <3>1. "aside" \in {"aside", "posted"}
        OBVIOUS
      <3> QED
        BY <2>2, <3>1, OneWorked
    <2> QED
      BY <1>0, <1>1, <2>1, <2>2 DEF Enrich
  <1>2. ASSUME NEW w \in Workers, NEW a \in Articles, Post(w, a) PROVE RowWork
    <2>1. PICK x \in {"aside", "posted"} :
              \/ row' = [row EXCEPT ![a].st = x]
              \/ row' = [row EXCEPT ![a].st = "aside", ![a].chosen = FALSE, ![a].at = Never]
              \/ row' = row
      BY <1>2 DEF Post
    <2> QED
      BY <1>0, <2>1, OneWorked
  <1>3. ASSUME NEW w \in Workers, Step(w) PROVE RowWork
    BY <1>0, <1>1, <1>2, <1>3, PlanWork DEF Step, PlanStep, ReadDue, EndProcess, ProcessRaises,
                                            OpenPublish, CountDue, ReadList, PostFails, EndPublish
  <1>4. CASE \/ \E w \in Workers, kind \in mix : Start(w, kind)
             \/ \E w \in Workers : Crash(w)
             \/ \E k \in Locks : LoseLock(k)
             \/ Tick \/ UNCHANGED vars
    BY <1>0, <1>4 DEF Start, Crash, LoseLock, Tick, vars
  <1> QED
    BY <1>3, <1>4 DEF Next

LEMMA Passing == ASSUME [Next]_vars PROVE lost \subseteq lost' /\ clock' \in {clock, clock + 1}
  <1>1. ASSUME NEW w \in Workers, Step(w) PROVE lost' = lost /\ clock' = clock
    BY <1>1 DEF Step, Pull, Score, ReadBreaking, AssignBreaking, CountToday, SelectForQuota,
                AssignQuota, ReadDue, Enrich, EndProcess, ProcessRaises, OpenPublish, CountDue,
                ReadList, Post, PostFails, EndPublish
  <1>2. CASE \/ \E w \in Workers, kind \in mix : Start(w, kind)
             \/ \E w \in Workers : Crash(w)
             \/ \E k \in Locks : LoseLock(k)
             \/ Tick \/ UNCHANGED vars
    BY <1>2 DEF Start, Crash, LoseLock, Tick, vars
  <1> QED
    BY <1>1, <1>2 DEF Next

\* Nothing that is due is put off.
LEMMA DueStays ==
    ASSUME Base, [Next]_vars, Unharmed, NEW a \in Articles, Due(a), row'[a].st # "aside"
    PROVE  Due(a)'
  <1>1. RowWork /\ TimesKept /\ clock' \in {clock, clock + 1}
    BY NextWork, NextPlans, Passing DEF Base, PlanMove
  <1>2. row'[a].chosen /\ row'[a].at = row[a].at
    BY <1>1 DEF RowWork, TimesKept, Unharmed, Due
  <1>3. row[a].at \in Int /\ row[a].at <= clock /\ clock \in Int
    BY DEF Base, OpsTyped, RowsTyped, RowTyped, PlanInv, Due, Clock
  <1> QED
    BY <1>1, <1>2, <1>3 DEF Due

LEMMA RichStays ==
    ASSUME Base, DeliverInv, [Next]_vars, Unharmed
    PROVE  RichDue'
  <1> SUFFICES ASSUME NEW a \in Articles, row'[a].st = "rich" PROVE Due(a)'
    BY DEF RichDue
  <1>1. Due(a)
    <2>1. \/ row[a].st = "rich"
          \/ row[a].st = "new" /\ \E w \in Workers : At(w, "enrich") /\ a \in job[w].batch
      BY NextWork DEF Base, RowWork
    <2> QED
      BY <2>1 DEF DeliverInv, RichDue, Delivers
  <1> QED
    BY <1>1, DueStays

\* A job that stays where it is, and at most takes one off what it may enrich.
Stays(v) ==
    /\ job'[v].kind = job[v].kind /\ job'[v].pc = job[v].pc /\ job'[v].limit = job[v].limit
    /\ job'[v].owed = job[v].owed /\ job'[v].since = job[v].since
    /\ job'[v].batch = job[v].batch \/ (At(v, "enrich") /\ job'[v].batch \subseteq job[v].batch)

LEMMA Bystander ==
    ASSUME Base, DeliverInv, [Next]_vars, NEW v \in Workers, Stays(v),
           lock'["wp"] = v => lock["wp"] = v,
           Unharmed' /\ lock["pipeline"] = v => lock'["pipeline"] = v
    PROVE  Stage(v)' /\ (Unharmed' => Delivers(v)')
  <1>0. /\ upsets \in Nat /\ upsets' \in Nat /\ upsets' \in {upsets, upsets + 1}
        /\ Ages /\ RowWork /\ (Unharmed' => Unharmed)
    BY CountStep, RowsAge, NextWork, Passing DEF Base, CostInv, Unharmed
  <1>1. Stage(v) /\ job[v].since \in Nat /\ job[v].owed \subseteq Articles /\ job[v].batch \subseteq Articles
    <2>1. JobTyped(job[v]) /\ Stage(v)
      BY DEF Base, OpsTyped, JobsTyped, DeliverInv
    <2> QED
      BY <2>1, OperationsAssumption DEF JobTyped
  <1>2. Stage(v)'
    BY <1>0, <1>1 DEF Stage, Stays, Ages
  <1>3. ASSUME Unharmed' PROVE Delivers(v)'
    <2>1. RichDue /\ \A u \in Workers : Delivers(u)
      BY <1>0, <1>3 DEF DeliverInv
    <2>2. job'[v].kind \in {"pipeline", "process"} => lock'["pipeline"] = v
      BY <1>3, <2>1 DEF Delivers, Stays
    <2>3. ASSUME At(v, "enrich")', NEW a \in job'[v].batch, row'[a].st = "new" PROVE Due(a)'
      <3>1. At(v, "enrich") /\ a \in job[v].batch /\ a \in Articles
        BY <1>1, <2>3 DEF At, Stays
      <3>2. row[a].st = "new"
        BY <1>0, <2>3, <3>1 DEF RowWork, Base, CostInv, BatchesStored, Stored
      <3>3. Due(a)
        BY <2>1, <3>1, <3>2 DEF Delivers
      <3> QED
        BY <1>0, <1>3, <2>3, <3>1, <3>3, DueStays
    <2>4. ASSUME job'[v].kind = "pipeline", At(v, "list")' PROVE Cardinality(ToPost') <= job'[v].limit
      <3>1. job[v].kind = "pipeline" /\ At(v, "list") /\ job'[v].limit = job[v].limit
        BY <2>4 DEF At, Stays
      <3>2. lock["pipeline"] = v /\ Cardinality(ToPost) <= job[v].limit
        BY <2>1, <3>1 DEF Delivers
      <3>3. ASSUME NEW a \in ToPost' PROVE a \in ToPost
        <4>1. a \in Articles /\ row'[a].st = "rich"
          BY <3>3 DEF ToPost, Ready
        <4>2. ASSUME NEW u \in Workers, At(u, "enrich") PROVE FALSE
          <5>1. job[u].kind \in {"pipeline", "process"}
            BY <4>2 DEF DeliverInv, Stage, Working, At
          <5>2. u = v
            BY <2>1, <3>2, <5>1 DEF Delivers
          <5> QED
            BY <3>1, <4>2, <5>2 DEF At
        <4>3. row[a].st = "rich"
          BY <1>0, <4>1, <4>2 DEF RowWork
        <4> QED
          BY <2>1, <4>1, <4>3 DEF ToPost, Ready, RichDue, Due
      <3>4. ToPost' \in SUBSET ToPost
        BY <3>3
      <3>5. IsFiniteSet(ToPost') /\ Cardinality(ToPost') <= Cardinality(ToPost)
        BY <3>4, ToPostFinite, FS_Subset
      <3>6. Cardinality(ToPost') \in Nat /\ Cardinality(ToPost) \in Nat /\ job[v].limit \in Nat
        <4>1. JobTyped(job[v])
          BY DEF Base, OpsTyped, JobsTyped
        <4> QED
          BY <3>5, <4>1, ToPostFinite, FS_CardinalityType, OperationsAssumption DEF JobTyped
      <3> QED
        BY <3>1, <3>2, <3>5, <3>6
    <2>5. ASSUME job'[v].kind = "pipeline", At(v, "post")', upsets' = job'[v].since,
                 NEW a \in job'[v].owed, row'[a].st = "rich"
          PROVE  a \in job'[v].batch
      <3>1. /\ job[v].kind = "pipeline" /\ At(v, "post") /\ a \in job[v].owed /\ a \in Articles
            /\ job'[v].batch = job[v].batch /\ job'[v].since = job[v].since
        BY <1>1, <2>5 DEF At, Stays
      <3>2. upsets = job[v].since
        BY <1>0, <1>1, <2>5, <3>1 DEF Stage
      <3>3. row[a].st = "rich"
        BY <1>0, <1>1, <2>5, <3>1 DEF RowWork, Stage, Fresh
      <3> QED
        BY <2>1, <3>1, <3>2, <3>3 DEF Delivers
    <2> QED
      BY <2>2, <2>3, <2>4, <2>5 DEF Delivers
  <1> QED
    BY <1>2, <1>3

\* A step of one worker leaves the others as they are, and their locks with them.
LEMMA OneWorks ==
    ASSUME Base, DeliverInv, [Next]_vars, NEW w \in Workers,
           \A v \in Workers : v # w => job'[v] = job[v],
           \A k \in {"wp", "pipeline"} :
               \/ lock'[k] = lock[k] \/ (lock[k] = Nobody /\ lock'[k] = w)
               \/ (lock[k] = w /\ lock'[k] = Nobody),
           Stage(w)', Unharmed' => Delivers(w)'
    PROVE  DeliverInv'
  <1>1. ASSUME NEW v \in Workers, v # w PROVE Stage(v)' /\ (Unharmed' => Delivers(v)')
    <2>1. Stays(v)
      BY <1>1 DEF Stays
    <2>2. /\ lock'["wp"] = v => lock["wp"] = v
          /\ lock["pipeline"] = v => lock'["pipeline"] = v
      BY <1>1, OperationsAssumption
    <2> QED
      BY <2>1, <2>2, Bystander
  <1>2. Unharmed' => Unharmed
    BY Passing DEF Unharmed
  <1> QED
    BY <1>1, <1>2, RichStays DEF DeliverInv

LEMMA FinishDelivers ==
    ASSUME Base, DeliverInv, [Next]_vars, NEW w \in Workers, Finish(w)
    PROVE  DeliverInv'
  <1>1. job' = [job EXCEPT ![w] = NoJob] /\ lock' = Released(w)
    BY DEF Finish
  <1>2. job'[w] = NoJob /\ \A v \in Workers : v # w => job'[v] = job[v]
    BY <1>1 DEF Base, PlanInv, JobInv
  <1>3. \A k \in {"wp", "pipeline"} : lock'[k] = IF lock[k] = w THEN Nobody ELSE lock[k]
    BY <1>1 DEF Released, Locks
  <1>4. lock'["wp"] # w
    BY <1>3, OperationsAssumption
  <1>5. NoJob.pc = "idle" /\ NoJob.kind = "none"
    BY DEF NoJob
  <1>6. Stage(w)' /\ Delivers(w)'
    BY <1>2, <1>4, <1>5 DEF Stage, Delivers, At, Working
  <1> QED
    BY <1>2, <1>3, <1>6, OneWorks

\* A step within a job that leaves the two locks alone, or takes the publisher's.
LEMMA GoesOn ==
    ASSUME Base, DeliverInv, [Next]_vars, NEW w \in Workers, NEW j, IsJob(j),
           job' = [job EXCEPT ![w] = j],
           \/ lock' = lock /\ (lock["wp"] = w => j.pc \in PublishSteps \ {"publish"})
           \/ /\ lock["wp"] = Nobody /\ lock' = [lock EXCEPT !["wp"] = w]
              /\ j.pc \in PublishSteps \ {"publish"},
           j.kind = job[w].kind, j.owed = job[w].owed, j.since = job[w].since,
           job[w].kind # "fetch" => j.pc \in Working \union PublishSteps,
           j.pc \in Working => job[w].kind \in {"pipeline", "process"},
           Unharmed' /\ j.pc = "enrich" => \A a \in j.batch : row'[a].st = "new" => Due(a)',
           Unharmed' /\ j.kind = "pipeline" /\ j.pc = "list" => Cardinality(ToPost') <= j.limit,
           Unharmed' /\ j.kind = "pipeline" /\ j.pc = "post" /\ upsets' = j.since =>
               \A a \in j.owed : row'[a].st = "rich" => a \in j.batch
    PROVE  DeliverInv'
  <1>1. job'[w] = j /\ \A v \in Workers : v # w => job'[v] = job[v]
    BY DEF Base, PlanInv, JobInv
  <1>2. /\ lock'["pipeline"] = lock["pipeline"]
        /\ lock'["wp"] = lock["wp"] \/ (lock["wp"] = Nobody /\ lock'["wp"] = w)
    BY DEF Base, PlanInv, Locks
  <1>3. Stage(w) /\ (Unharmed' => Delivers(w))
    BY Passing DEF DeliverInv, Unharmed
  <1>4. /\ upsets \in Nat /\ upsets' \in {upsets, upsets + 1} /\ Ages
        /\ job[w].since \in Nat /\ job[w].owed \subseteq Articles
    <2>1. JobTyped(job[w])
      BY DEF Base, OpsTyped, JobsTyped
    <2> QED
      BY <2>1, CountStep, RowsAge, OperationsAssumption DEF Base, CostInv, JobTyped
  <1>5. lock'["wp"] = w => j.pc \in PublishSteps \ {"publish"}
    BY <1>2, OperationsAssumption
  <1>6. Stage(w)'
    <2>1. j.kind = "pipeline" =>
             /\ j.pc \in Working \union PublishSteps
             /\ j.since <= upsets' /\ \A a \in j.owed : ~Fresh(a)'
      BY <1>3, <1>4 DEF Stage, Ages
    <2> QED
      BY <1>1, <1>5, <2>1 DEF Stage
  <1>7. Unharmed' => Delivers(w)'
    BY <1>1, <1>2, <1>3 DEF Delivers, At
  <1> QED
    BY <1>1, <1>2, <1>6, <1>7, OneWorks

LEMMA StartDelivers ==
    ASSUME Base, DeliverInv, [Next]_vars, NEW w \in Workers, NEW kind \in mix, Start(w, kind)
    PROVE  DeliverInv'
  <1>1. /\ job'[w] = Begun(kind) /\ \A v \in Workers : v # w => job'[v] = job[v]
        /\ row' = row /\ upsets' = upsets /\ upsets \in Nat
    BY DEF Start, Base, PlanInv, JobInv, CostInv
  <1>2. kind \in {"fetch", "pipeline", "process", "publish", "api"}
    <2>1. mix \in Mixes
      BY DEF Base, OpsTyped, RestTyped
    <2> QED
      BY <2>1, OperationsAssumption
  <1>3. /\ Begun(kind).kind = kind /\ Begun(kind).pc = FirstStep(kind)
        /\ kind = "pipeline" =>
              Begun(kind).owed = {a \in Articles \ Stubborn : Ready(a)} /\ Begun(kind).since = upsets
    BY Beginning
  <1>4. /\ FirstStep(kind) \in {"pull", "process", "publish"}
        /\ FirstStep(kind) \in Working => kind \in {"pipeline", "process"}
        /\ kind = "pipeline" => FirstStep(kind) \in Working
        /\ kind \in {"pipeline", "process"} => LockOf(kind) = "pipeline"
        /\ LockOf(kind) # "wp"
    BY <1>2 DEF FirstStep, Working, LockOf
  <1>5. lock = [k \in Locks |-> lock[k]] /\ lock["wp"] # w
    BY DEF Base, PlanInv, DeliverInv, Stage, Start, At, PublishSteps
  <1>6. /\ lock'["wp"] = lock["wp"]
        /\ lock'["pipeline"] = lock["pipeline"] \/ (lock["pipeline"] = Nobody /\ lock'["pipeline"] = w)
        /\ kind \in {"pipeline", "process"} => lock'["pipeline"] = w
    BY <1>4, <1>5 DEF Start, StartLocked, StartUnlocked, Free, Locks
  <1>7. Stage(w)'
    <2>1. \A a \in Articles \ Stubborn : Ready(a) => ~Fresh(a)'
      BY <1>1 DEF Ready, Fresh
    <2> QED
      BY <1>1, <1>3, <1>4, <1>5, <1>6, <2>1 DEF Stage
  <1>8. Delivers(w)'
    BY <1>1, <1>3, <1>4, <1>6 DEF Delivers, At
  <1> QED
    BY <1>1, <1>6, <1>7, <1>8, OneWorks

LEMMA PlanDelivers ==
    ASSUME Base, DeliverInv, [Next]_vars, NEW w \in Workers, PlanStep(w)
    PROVE  DeliverInv'
  <1>1. job[w].pc \in PlanSteps /\ job[w].kind = "fetch" /\ IsJob(job[w])
    BY DEF PlanStep, Pull, Score, ReadBreaking, AssignBreaking, CountToday, SelectForQuota,
           AssignQuota, At, PlanSteps, Base, PlanInv, JobInv, JobHolds
  <1>2. lock["wp"] # w /\ job = [v \in Workers |-> job[v]]
    BY <1>1 DEF DeliverInv, Stage, PlanSteps, PublishSteps, Base, PlanInv, JobInv
  <1>3. ASSUME NEW p \in PlanSteps, NEW x, lock' = lock,
               \/ job' = [job EXCEPT ![w].pc = p] \/ job' = [job EXCEPT ![w].pc = p, ![w].plan = x]
               \/ job' = [job EXCEPT ![w].pc = p, ![w].slots = x]
        PROVE  DeliverInv'
    <2> DEFINE h == [job[w] EXCEPT !.pc = p]
               i == [job[w] EXCEPT !.pc = p, !.plan = x]
               j == [job[w] EXCEPT !.pc = p, !.slots = x]
    <2>1. job' = [job EXCEPT ![w] = h] \/ job' = [job EXCEPT ![w] = i] \/ job' = [job EXCEPT ![w] = j]
      BY <1>2, <1>3
    <2>2. /\ IsJob(h) /\ h.kind = job[w].kind /\ h.pc = p /\ h.owed = job[w].owed /\ h.since = job[w].since
          /\ IsJob(i) /\ i.kind = job[w].kind /\ i.pc = p /\ i.owed = job[w].owed /\ i.since = job[w].since
          /\ IsJob(j) /\ j.kind = job[w].kind /\ j.pc = p /\ j.owed = job[w].owed /\ j.since = job[w].since
      BY <1>1 DEF IsJob
    <2> HIDE DEF h, i, j
    <2>3. PICK g : /\ IsJob(g) /\ g.kind = job[w].kind /\ g.pc = p
                   /\ g.owed = job[w].owed /\ g.since = job[w].since /\ job' = [job EXCEPT ![w] = g]
      BY <2>1, <2>2
    <2>4. p \notin Working \union PublishSteps
      BY DEF PlanSteps, Working, PublishSteps
    <2> QED
      BY <1>1, <1>2, <1>3, <2>3, <2>4, GoesOn DEF Working, PublishSteps
  <1>4. CASE (\E served \in SUBSET Articles : Pull(w, served))
             \/ (\E breaking \in SUBSET Articles : Score(w, breaking))
    BY <1>3, <1>4 DEF Pull, Score, Goto, PlanSteps
  <1>5. CASE (\E found \in SUBSET Articles : ReadBreaking(w, found)) \/ AssignBreaking(w)
    BY <1>3, <1>5 DEF ReadBreaking, AssignBreaking, PlanSteps
  <1>6. CASE CountToday(w) \/ (\E found \in SUBSET Articles : SelectForQuota(w, found)) \/ AssignQuota(w)
    BY <1>3, <1>6, FinishDelivers DEF CountToday, SelectForQuota, AssignQuota, PlanSteps
  <1> QED
    BY <1>4, <1>5, <1>6 DEF PlanStep

LEMMA ProcessDelivers ==
    ASSUME Base, DeliverInv, [Next]_vars, NEW w \in Workers,
           \/ ReadDue(w) \/ EndProcess(w) \/ ProcessRaises(w)
           \/ \E a \in Articles : Enrich(w, a)
    PROVE  DeliverInv'
  <1>1. /\ job[w].pc \in Working /\ job[w].kind \in {"pipeline", "process"} /\ lock["wp"] # w
        /\ IsJob(job[w]) /\ job = [v \in Workers |-> job[v]]
    <2>1. job[w].pc \in Working
      BY DEF ReadDue, EndProcess, ProcessRaises, Enrich, At, Working
    <2> QED
      BY <2>1 DEF DeliverInv, Stage, Working, PublishSteps, Base, PlanInv, JobInv, JobHolds
  <1>2. CASE ReadDue(w)
    <2> DEFINE b == {a \in Articles : row[a].st = "new" /\ Due(a)}
               j == [job[w] EXCEPT !.pc = "enrich", !.batch = b]
    <2>1. job' = [job EXCEPT ![w] = j] /\ lock' = lock /\ row' = row /\ clock' = clock
      BY <1>1, <1>2 DEF ReadDue
    <2>2. \A a \in b : Due(a)'
      BY <2>1 DEF Due
    <2> HIDE DEF b
    <2>3. /\ IsJob(j) /\ j.kind = job[w].kind /\ j.pc = "enrich" /\ j.batch = b
          /\ j.owed = job[w].owed /\ j.since = job[w].since
      BY <1>1 DEF IsJob
    <2> HIDE DEF j
    <2> QED
      BY <1>1, <2>1, <2>2, <2>3, GoesOn DEF Working
  <1>3. CASE \E a \in Articles : Enrich(w, a)
    <2>1. PICK a \in Articles : /\ job' = [job EXCEPT ![w].batch = @ \ {a}] /\ lock' = lock
                                /\ At(w, "enrich")
      BY <1>3 DEF Enrich
    <2> DEFINE b == job[w].batch \ {a}
               j == [job[w] EXCEPT !.batch = b]
    <2>2. job' = [job EXCEPT ![w] = j]
      BY <1>1, <2>1
    <2> HIDE DEF b
    <2>3. /\ j.kind = job[w].kind /\ j.pc = job[w].pc /\ j.limit = job[w].limit
          /\ j.owed = job[w].owed /\ j.since = job[w].since /\ j.batch = b
      BY <1>1 DEF IsJob
    <2> HIDE DEF j
    <2>4. job'[w] = j /\ \A v \in Workers : v # w => job'[v] = job[v]
      BY <1>1, <2>2
    <2>5. Stays(w)
      BY <2>1, <2>3, <2>4 DEF Stays, b
    <2>6. Stage(w)' /\ (Unharmed' => Delivers(w)')
      BY <2>1, <2>5, Bystander
    <2> QED
      BY <2>1, <2>4, <2>6, OneWorks
  <1>4. CASE EndProcess(w) \/ ProcessRaises(w)
    <2>1. CASE job[w].kind = "pipeline"
      <3> DEFINE j == [job[w] EXCEPT !.pc = "publish", !.batch = {}]
      <3>1. job' = [job EXCEPT ![w] = j] /\ lock' = lock
        BY <1>1, <1>4, <2>1 DEF EndProcess, ProcessRaises, AfterProcess
      <3>2. /\ IsJob(j) /\ j.kind = job[w].kind /\ j.pc = "publish"
            /\ j.owed = job[w].owed /\ j.since = job[w].since
        BY <1>1 DEF IsJob
      <3> HIDE DEF j
      <3> QED
        BY <1>1, <3>1, <3>2, GoesOn DEF Working, PublishSteps
    <2>2. CASE job[w].kind # "pipeline"
      BY <1>4, <2>2, FinishDelivers DEF EndProcess, ProcessRaises, AfterProcess
    <2> QED
      BY <2>1, <2>2
  <1> QED
    BY <1>2, <1>3, <1>4

\* The list is all that is due, since the batch limit has room for it.
LEMMA PublishDelivers ==
    ASSUME Cardinality(Articles) <= PublishMax,
           Base, DeliverInv, [Next]_vars, NEW w \in Workers, PublishStep(w)
    PROVE  DeliverInv'
  <1>1. /\ IsJob(job[w]) /\ job = [v \in Workers |-> job[v]]
        /\ job[w].owed \subseteq Articles \ Stubborn /\ job[w].since \in Nat /\ upsets \in Nat
    <2>1. JobTyped(job[w])
      BY DEF Base, OpsTyped, JobsTyped
    <2> QED
      BY <2>1, OperationsAssumption DEF Base, PlanInv, JobInv, CostInv, JobTyped
  <1>2. CASE Finish(w)
    BY <1>2, FinishDelivers
  <1>3. CASE ~Finish(w) /\ OpenPublish(w)
    <2> DEFINE j == [job[w] EXCEPT !.pc = "count due"]
    <2>1. /\ lock["wp"] = Nobody /\ lock' = [lock EXCEPT !["wp"] = w]
          /\ job' = [job EXCEPT ![w] = j]
      BY <1>1, <1>3 DEF OpenPublish, Free, Goto
    <2>2. /\ IsJob(j) /\ j.kind = job[w].kind /\ j.pc = "count due"
          /\ j.owed = job[w].owed /\ j.since = job[w].since
      BY <1>1 DEF IsJob
    <2> HIDE DEF j
    <2> QED
      BY <2>1, <2>2, GoesOn DEF Working, PublishSteps
  <1>4. CASE ~Finish(w) /\ CountDue(w)
    <2> DEFINE n == Least(Cardinality(ToPost), PublishMax)
               j == [job[w] EXCEPT !.pc = "list", !.limit = n]
    <2>1. /\ lock' = lock /\ job' = [job EXCEPT ![w] = j] /\ row' = row /\ clock' = clock
      BY <1>1, <1>4 DEF CountDue
    <2>2. ToPost' = ToPost
      BY <2>1 DEF ToPost, Ready
    <2>3. Cardinality(ToPost) <= n
      <3>1. Cardinality(ToPost) <= Cardinality(Articles) /\ Cardinality(Articles) \in Nat
        BY ToPostFinite, OperationsAssumption, FS_Subset, FS_CardinalityType
      <3> QED
        BY <3>1, ToPostFinite, OperationsAssumption DEF Least
    <2> HIDE DEF n
    <2>4. /\ IsJob(j) /\ j.kind = job[w].kind /\ j.pc = "list" /\ j.limit = n
          /\ j.owed = job[w].owed /\ j.since = job[w].since
      BY <1>1 DEF IsJob
    <2> HIDE DEF j
    <2> QED
      BY <2>1, <2>2, <2>3, <2>4, GoesOn DEF Working, PublishSteps
  <1>5. CASE \E list \in SUBSET Articles : ReadList(w, list)
    <2>1. PICK list \in SUBSET Articles : ReadList(w, list)
      BY <1>5
    <2> DEFINE j == [job[w] EXCEPT !.pc = "post", !.batch = list]
    <2>2. /\ lock' = lock /\ job' = [job EXCEPT ![w] = j] /\ row' = row /\ clock' = clock
      BY <1>1, <2>1 DEF ReadList
    <2>3. /\ IsJob(j) /\ j.kind = job[w].kind /\ j.pc = "post" /\ j.batch = list
          /\ j.owed = job[w].owed /\ j.since = job[w].since
      BY <1>1 DEF IsJob
    <2>4. ASSUME Unharmed', job[w].kind = "pipeline", NEW a \in job[w].owed, row'[a].st = "rich"
          PROVE  a \in list
      <3>1. RichDue /\ Delivers(w) /\ At(w, "list")
        BY <2>1, <2>4, Passing DEF DeliverInv, Unharmed, ReadList
      <3>2. Cardinality(ToPost) <= job[w].limit /\ job[w].limit \in Nat
        <4>1. JobTyped(job[w])
          BY DEF Base, OpsTyped, JobsTyped
        <4> QED
          BY <2>4, <3>1, <4>1, OperationsAssumption DEF Delivers, JobTyped
      <3>3. list \subseteq ToPost /\ Cardinality(list) = Cardinality(ToPost)
        BY <2>1, <3>2, ToPostFinite DEF ReadList, Least
      <3>4. list = ToPost
        BY <3>3, ToPostFinite, FS_Subset
      <3> QED
        BY <1>1, <2>2, <2>4, <3>1, <3>4 DEF RichDue, Due, ToPost, Ready
    <2> HIDE DEF j
    <2>5. lock["wp"] = w => j.pc \in PublishSteps \ {"publish"}
      BY <2>3 DEF PublishSteps
    <2> QED
      BY <2>2, <2>3, <2>4, <2>5, GoesOn DEF Working, PublishSteps
  <1>6. CASE \E a \in Articles : Post(w, a) \/ PostFails(w, a)
    <2>1. PICK a \in Articles : Post(w, a) \/ PostFails(w, a)
      BY <1>6
    <2> DEFINE b == job[w].batch \ {a}
               j == [job[w] EXCEPT !.batch = b]
    <2>2. /\ lock' = lock /\ job' = [job EXCEPT ![w] = j] /\ At(w, "post")
      BY <1>1, <2>1 DEF Post, PostFails, Listed, NextListed
    <2>3. ASSUME upsets' = job[w].since, a \in job[w].owed, Stage(w), job[w].kind = "pipeline"
          PROVE  row'[a].st # "rich" /\ upsets = job[w].since
      <3>1. CASE Post(w, a)
        <4>1. row = [c \in Articles |-> row[c]] /\ IsRow(row[a])
          BY DEF Base, PlanInv, RowsOK
        <4>2. ASSUME NEW x \in {"aside", "posted"}, row' = [row EXCEPT ![a].st = x]
              PROVE  row'[a].st # "rich"
          BY <4>1, <4>2 DEF IsRow
        <4>3. row' = [row EXCEPT ![a].st = "aside", ![a].chosen = FALSE, ![a].at = Never]
                => row'[a].st # "rich"
          BY <4>1 DEF IsRow
        <4> QED
          BY <2>3, <3>1, <4>2, <4>3 DEF Post
      <3>2. CASE PostFails(w, a)
        <4>1. upsets' = upsets + 1
          BY <1>1, <2>3, <3>2 DEF PostFails, Upset
        <4> QED
          BY <1>1, <2>3, <4>1 DEF Stage
      <3> QED
        BY <2>1, <3>1, <3>2
    <2> HIDE DEF b
    <2>4. /\ IsJob(j) /\ j.kind = job[w].kind /\ j.pc = "post" /\ j.batch = b
          /\ j.owed = job[w].owed /\ j.since = job[w].since
      BY <1>1, <2>2 DEF IsJob, At
    <2> HIDE DEF j
    <2>5. ASSUME Unharmed', job[w].kind = "pipeline", upsets' = job[w].since,
                 NEW c \in job[w].owed, row'[c].st = "rich"
          PROVE  c \in b
      <3>1. Stage(w) /\ Delivers(w)
        BY <2>5, Passing DEF DeliverInv, Unharmed
      <3>2. upsets = job[w].since
        <4>1. upsets' \in {upsets, upsets + 1}
          BY <1>1, CountStep
        <4> QED
          BY <1>1, <2>5, <3>1, <4>1 DEF Stage
      <3>3. row[c].st = "rich" /\ c \in Articles
        BY <1>1, <2>5, <3>1, NextWork DEF RowWork, Stage, Fresh, Base
      <3>4. c \in job[w].batch
        BY <2>2, <2>5, <3>1, <3>2, <3>3 DEF Delivers
      <3> QED
        BY <2>3, <2>5, <3>1, <3>4 DEF b
    <2>6. lock["wp"] = w => j.pc \in PublishSteps \ {"publish"}
      BY <2>4 DEF PublishSteps
    <2> QED
      BY <2>2, <2>4, <2>5, <2>6, GoesOn DEF Working, PublishSteps
  <1> QED
    BY <1>2, <1>3, <1>4, <1>5, <1>6 DEF PublishStep, EndPublish

LEMMA NextDelivers ==
    ASSUME Cardinality(Articles) <= PublishMax, Base, DeliverInv, [Next]_vars
    PROVE  DeliverInv'
  <1>1. ASSUME NEW w \in Workers, Step(w) PROVE DeliverInv'
    BY <1>1, PlanDelivers, ProcessDelivers, PublishDelivers DEF Step, PlanStep, PublishStep
  <1>2. ASSUME NEW w \in Workers, Crash(w) PROVE DeliverInv'
    BY <1>2, FinishDelivers DEF Crash
  <1>3. CASE (\E k \in Locks : LoseLock(k)) \/ Tick \/ UNCHANGED vars
    <2>1. job' = job
      BY <1>3 DEF LoseLock, Tick, vars
    <2>2. \/ lock' = lock
          \/ \E k \in Locks : lock' = [lock EXCEPT ![k] = Nobody] /\ lost' = lost \union {k}
      BY <1>3 DEF LoseLock, Tick, vars
    <2>3. lock = [k \in Locks |-> lock[k]]
      BY DEF Base, PlanInv
    <2>4. ASSUME NEW v \in Workers PROVE Stage(v)' /\ (Unharmed' => Delivers(v)')
      <3>1. Stays(v)
        BY <2>1 DEF Stays
      <3>2. lock'["wp"] = v => lock["wp"] = v
        BY <2>2, <2>3, OperationsAssumption DEF Locks
      <3>3. Unharmed' /\ lock["pipeline"] = v => lock'["pipeline"] = v
        BY <2>2, <2>3 DEF Unharmed, Locks
      <3> QED
        BY <3>1, <3>2, <3>3, Bystander
    <2>5. Unharmed' => Unharmed
      BY Passing DEF Unharmed
    <2> QED
      BY <2>4, <2>5, RichStays DEF DeliverInv
  <1>4. ASSUME NEW w \in Workers, NEW kind \in mix, Start(w, kind) PROVE DeliverInv'
    BY <1>4, StartDelivers
  <1> QED
    BY <1>1, <1>2, <1>3, <1>4 DEF Next

LEMMA InitDelivers == Init => DeliverInv
  <1> SUFFICES ASSUME Init PROVE DeliverInv
    OBVIOUS
  <1>1. \A w \in Workers : job[w] = NoJob /\ lock["wp"] # w
    BY OperationsAssumption DEF Init, Locks
  <1>2. NoJob.pc = "idle" /\ NoJob.kind = "none"
    BY DEF NoJob
  <1>3. \A w \in Workers : Stage(w) /\ Delivers(w)
    BY <1>1, <1>2 DEF Stage, Delivers, At, Working
  <1>4. ASSUME NEW a \in Articles PROVE row[a].st # "rich"
    <2>1. NoRow.st = "absent"
      BY DEF NoRow
    <2>2. ASSUME NEW r \in Planned PROVE r.st = "new"
      BY <2>2 DEF Planned, NoRow
    <2>3. row[a] = NoRow \/ row[a] \in Planned
      BY DEF Init
    <2> QED
      BY <2>1, <2>2, <2>3
  <1> QED
    BY <1>3, <1>4 DEF DeliverInv, RichDue

\* A pipeline that ends by itself.
Ended(w) == /\ job[w].kind = "pipeline" /\ job'[w] = NoJob
            /\ upsets' = job[w].since /\ lost \subseteq {"wp"}
            /\ lock["wp"] \in {w, Nobody}
EndsDelivered == \A w \in Workers : Ended(w) => \A a \in job[w].owed : row'[a].st # "rich"

LEMMA EndDelivers == ASSUME Base, DeliverInv, [Next]_vars PROVE EndsDelivered
  <1> SUFFICES ASSUME NEW w \in Workers, Ended(w), NEW a \in job[w].owed, row'[a].st = "rich"
               PROVE  FALSE
    BY DEF EndsDelivered
  <1>1. /\ Stage(w) /\ Delivers(w) /\ RichDue
    BY DEF DeliverInv, Unharmed, Ended
  <1>2. /\ upsets \in Nat /\ upsets' \in {upsets, upsets + 1} /\ job[w].since \in Nat
        /\ job = [v \in Workers |-> job[v]] /\ a \in Articles
    <2>1. JobTyped(job[w])
      BY DEF Base, OpsTyped, JobsTyped
    <2> QED
      BY <2>1, CountStep, OperationsAssumption DEF Base, CostInv, PlanInv, JobInv, JobTyped
  <1>3. upsets' = upsets /\ upsets = job[w].since
    BY <1>1, <1>2 DEF Stage, Ended
  <1>4. row[a].st = "rich"
    BY <1>1, <1>2, NextWork DEF Base, RowWork, Stage, Ended, Fresh
  <1>5. job[w].pc \in Working \union PublishSteps /\ NoJob.pc = "idle" /\ NoJob.kind = "none"
    BY <1>1 DEF Stage, Ended, NoJob
  <1>6. job'[w] = NoJob /\ job'[w].pc # job[w].pc /\ job'[w].kind # job[w].kind
    BY <1>5 DEF Ended, Working, PublishSteps
  <1>7. Step(w)
    <2>1. ASSUME NEW v \in Workers, v # w, Step(v) \/ Crash(v) \/ \E kind \in mix : Start(v, kind)
          PROVE  job'[w] = job[w]
      BY <1>2, <2>1 DEF Step, Pull, Score, ReadBreaking, AssignBreaking, CountToday, SelectForQuota,
                        AssignQuota, ReadDue, Enrich, EndProcess, ProcessRaises, OpenPublish,
                        CountDue, ReadList, Post, PostFails, EndPublish, Crash, Start, Goto, Finish,
                        AfterProcess, NextListed
    <2>2. ~Crash(w)
      BY <1>2, <1>3 DEF Crash, Upset
    <2>3. \A kind : ~Start(w, kind)
      BY <1>5 DEF Start, At, Working, PublishSteps
    <2>4. ASSUME (\E k \in Locks : LoseLock(k)) \/ Tick \/ UNCHANGED vars PROVE job' = job
      BY <2>4 DEF LoseLock, Tick, vars
    <2> QED
      BY <1>6, <2>1, <2>2, <2>3, <2>4 DEF Next
  <1>8. ~PlanStep(w)
    BY <1>5 DEF PlanStep, Pull, Score, ReadBreaking, AssignBreaking, CountToday, SelectForQuota,
                AssignQuota, At, Working, PublishSteps
  <1>9. IsJob(job[w]) /\ job[w].kind = "pipeline"
    BY DEF Base, PlanInv, JobInv, JobHolds, Ended
  <1>10. ASSUME NEW p, NEW x,
                \/ job' = [job EXCEPT ![w].pc = p] \/ job' = [job EXCEPT ![w].batch = x]
                \/ job' = [job EXCEPT ![w].pc = p, ![w].batch = x]
                \/ job' = [job EXCEPT ![w].pc = p, ![w].limit = x]
         PROVE  FALSE
    BY <1>2, <1>6, <1>9, <1>10 DEF IsJob
  <1>11. CASE ReadDue(w) \/ (\E b \in Articles : Enrich(w, b)) \/ EndProcess(w) \/ ProcessRaises(w)
    <2>1. ASSUME AfterProcess(w) PROVE FALSE
      <3>1. job' = [job EXCEPT ![w].pc = "publish", ![w].batch = {}]
        BY <1>9, <2>1 DEF AfterProcess
      <3> QED
        BY <1>10, <3>1
    <2> QED
      BY <1>10, <1>11, <2>1 DEF ReadDue, Enrich, EndProcess, ProcessRaises
  <1>12. CASE OpenPublish(w)
    <2>1. lock["wp"] # w
      BY <1>1, <1>12 DEF Stage, OpenPublish, At
    <2> QED
      BY <1>10, <1>12, <2>1 DEF OpenPublish, Free, Goto, Ended
  <1>13. CASE CountDue(w)
    <2>1. a \in ToPost
      BY <1>1, <1>2, <1>4 DEF RichDue, Due, ToPost, Ready
    <2> QED
      BY <1>10, <1>13, <2>1 DEF CountDue
  <1>14. CASE (\E list \in SUBSET Articles : ReadList(w, list))
              \/ \E b \in Articles : Post(w, b) \/ PostFails(w, b)
    BY <1>10, <1>14 DEF ReadList, Post, PostFails, NextListed
  <1>15. CASE EndPublish(w)
    BY <1>1, <1>3, <1>4, <1>9, <1>15 DEF EndPublish, Delivers
  <1> QED
    BY <1>7, <1>8, <1>11, <1>12, <1>13, <1>14, <1>15 DEF Step, PlanStep

\* What was ready to be posted when a pipeline started is posted or set aside when it
\* ends by itself, with any number of jobs, articles that fail every time, and
\* processing that raises: unless it found another run publishing, something went
\* wrong meanwhile, or the fetch or pipeline lock was lost before (_execute_pipeline,
\* publish_news_to_wp), as long as PUBLISH_BATCH_MAX has room for the articles and
\* each day for the quota.
THEOREM PipelinesDeliver ==
    ASSUME Cardinality(Articles) <= PublishMax, \A n \in 0..DailyTarget : Roomy(n)
    PROVE  Spec => PipelineDelivers
  <1> DEFINE Inv == Base /\ DeliverInv
  <1>1. Init => Inv
    BY InitTyped, InitPlans, InitCosts, InitDelivers DEF Base
  <1>2. Inv /\ [Next]_vars => Inv'
    <2> SUFFICES ASSUME Base, DeliverInv, [Next]_vars PROVE Base' /\ DeliverInv'
      OBVIOUS
    <2>1. OpsTyped'
      BY FetchTyped, PlanTyped, StagesTyped, StartTyped, FaultsTyped DEF Base, Next, Step, PublishStep
    <2> QED
      BY <2>1, NextPlans, NextCosts, NextDelivers DEF Base, PlanMove
  <1>3. Inv /\ [Next]_vars => [EndsDelivered]_vars
    BY EndDelivers
  <1> QED
    BY <1>1, <1>2, <1>3, PTL DEF Spec, PipelineDelivers, EndsDelivered, Ended

-----------------------------------------------------------------------------
(* The slots of the default day, as an instance of the theorem on all days *)

HoursProofs == INSTANCE SlotsProofs WITH DayLength <- 24, ActiveStart <- 14, ActiveEnd <- 2,
                                         ShareOf <- 4, ShareIn <- 5

\* The operators of the two instances are the same.
LEMMA SameSlots ==
    /\ \A t : HoursProofs!DayOf(t) = Hours!DayOf(t)
    /\ \A n : HoursProofs!Roomy(n) <=> Hours!Roomy(n)
    /\ \A now, n : HoursProofs!TodaySlots(now, n) = Hours!TodaySlots(now, n)
  <1>1. \A p, q : HoursProofs!Round(p, q) = Hours!Round(p, q)
    BY DEF HoursProofs!Round, Hours!Round
  <1>2. \A t : /\ HoursProofs!DayOf(t) = Hours!DayOf(t)
               /\ HoursProofs!DayStart(t) = Hours!DayStart(t)
    BY DEF HoursProofs!DayOf, Hours!DayOf, HoursProofs!DayStart, Hours!DayStart
  <1>3. \A t : /\ HoursProofs!ActiveEndOn(t) = Hours!ActiveEndOn(t)
               /\ HoursProofs!ActiveStartOn(t) = Hours!ActiveStartOn(t)
               /\ HoursProofs!OffTime(t) = Hours!OffTime(t)
    BY <1>2 DEF HoursProofs!ActiveEndOn, Hours!ActiveEndOn, HoursProofs!ActiveStartOn,
       Hours!ActiveStartOn, HoursProofs!OffTime, Hours!OffTime
  <1>4. \A first, end, count :
           HoursProofs!EvenSlots(first, end, count) = Hours!EvenSlots(first, end, count)
    BY <1>1 DEF HoursProofs!EvenSlots, Hours!EvenSlots
  <1>5. \A t, count : HoursProofs!OffSlots(t, count) = Hours!OffSlots(t, count)
    BY <1>1, <1>2, <1>3 DEF HoursProofs!OffSlots, Hours!OffSlots
  <1>6. \A s, I : HoursProofs!Ascending(s, I) = Hours!Ascending(s, I)
    <2> SUFFICES ASSUME NEW s, NEW I PROVE HoursProofs!Ascending(s, I) = Hours!Ascending(s, I)
      OBVIOUS
    <2> QED
      BY DEF HoursProofs!Ascending, Hours!Ascending,
             HoursProofs!Cardinality, Hours!Cardinality
  <1>7. \A n : HoursProofs!ActiveQuota(n) = Hours!ActiveQuota(n)
    BY <1>1 DEF HoursProofs!ActiveQuota, Hours!ActiveQuota
  <1>8. \A n : HoursProofs!Roomy(n) <=> Hours!Roomy(n)
    BY <1>3, <1>7 DEF HoursProofs!Roomy, Hours!Roomy
  <1>9. \A now, n : HoursProofs!TodaySlots(now, n) = Hours!TodaySlots(now, n)
    BY <1>3, <1>4, <1>5, <1>6, <1>7 DEF HoursProofs!TodaySlots, Hours!TodaySlots
  <1> QED
    BY <1>2, <1>8, <1>9

\* 24 hours have room for any number of slots below 24.
LEMMA HoursAreRoomy == \A n \in 0..23 : Hours!Roomy(n)
  <1> SUFFICES ASSUME NEW n \in 0..23 PROVE Hours!Roomy(n)
    OBVIOUS
  <1>1. Hours!ActiveEndOn(0) = 24 /\ Hours!OffTime(0) = 14
    BY DEF Hours!ActiveEndOn, Hours!OffTime, Hours!ActiveStartOn, Hours!DayStart, Hours!DayOf
  <1>2. Hours!ActiveQuota(n) \in 0..19
    BY DEF Hours!ActiveQuota, Hours!Round
  <1> QED
    BY <1>1, <1>2 DEF Hours!Roomy

\* On the default day, any number of slots that may be left is offered in order,
\* ahead and on the day (_plan_today_schedule).
THEOREM HourSlots == Spec => []HourSlotsAreToday
  <1>1. HoursProofs!SlotsAreToday
    BY HoursProofs!SlotsLieAhead
  <1>2. Hours!SlotsAreToday
    BY <1>1, SameSlots DEF HoursProofs!SlotsAreToday, Hours!SlotsAreToday
  <1>3. HourSlotsAreToday
    BY <1>2, HoursAreRoomy DEF HourSlotsAreToday
  <1> QED
    BY <1>3, PTL
=============================================================================
