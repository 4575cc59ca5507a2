---------------------------- MODULE ReporterProofs ----------------------------
(***************************************************************************)
(* Proofs about modules Billing and Reporter, for every period, channel    *)
(* order, set of destinations, and any number of forced runs, crashes and  *)
(* faults.                                                                 *)
(*                                                                         *)
(* RInv is about the reporter alone: no channel gets the report more often *)
(* than something happened that excuses it, and the fetch inside a run     *)
(* implements module Billing.  NetInv is about what it shares with the     *)
(* receiver: a remembered request was executed once, and a run waits for   *)
(* the request it sent.  SnapInv says which snapshot the disk, the         *)
(* destinations and the channels hold.  MadeHolds and Bounded count the    *)
(* snapshots.  Each rests on the ones before it.                           *)
(***************************************************************************)
EXTENDS Reporter, FiniteSetTheorems, TLAPS

-----------------------------------------------------------------------------
(***************************************************************************)
(* The fetch, which is module Billing: for every length of the period,     *)
(* every set of cursors and descriptions and every page limit.  Counted    *)
(* ties what was added to the days that were seen; Evidence follows the    *)
(* xAI answers.                                                            *)
(***************************************************************************)
Early == {"idle", "openai"}
Before == {"idle", "openai", "grouped", "confirm"}

Typed ==
    /\ stage \in Stages
    /\ pages \in [read: 0..(MaxPages - 1), seen: SUBSET Cursors, some: BOOLEAN]
    /\ buckets \subseteq Period
    /\ openai \in [Period -> Nat]
    /\ series \in [labels: SUBSET Labels, label: Labels \union {NoLabel}, days: SUBSET Period,
                   zero: BOOLEAN, spent: BOOLEAN, empty: 0..2]
    /\ usage \in [Labels -> [Period -> Nat]]
    /\ spend \in [state: {"none", "RECORDED_SPENDING", "NO_RECORDED_USAGE"},
                  evidence: {"none", "grouped_and_ungrouped_empty",
                             "ungrouped_dense_zero_confirmation"}]

Current(l) == stage = "points" /\ l = series.label
Added(l, d) ==
    IF l \notin series.labels \/ (Current(l) /\ d \notin series.days) THEN 0 ELSE 1

\* A day was added once for each time it was seen, and it is seen at most once.
Counted ==
    /\ \A d \in Period : openai[d] = IF d \in buckets THEN 1 ELSE 0
    /\ stage \notin Early => buckets = Period
    /\ stage \in Before => series.labels = {}
    /\ stage = "points" => series.label \in series.labels
    /\ \A l \in Labels, d \in Period : usage[l][d] = Added(l, d)

\* How many empty answers there were, and what was concluded from them.
Evidence ==
    /\ stage \in Before => ~series.spent
    /\ stage \in Early \cup {"grouped"} => series.empty = 0 /\ ~series.zero
    /\ stage = "confirm" => series.empty = 1 /\ series.zero
    /\ stage \in {"series", "points"} => series.empty = IF series.zero THEN 1 ELSE 0
    /\ stage = "done" => ZeroHasEvidence

IInv == Typed /\ Counted /\ Evidence
-----------------------------------------------------------------------------
\* The state of a fetch that has read nothing.
LEMMA ForgetIInv ==
    ASSUME NEW next \in {"idle", "openai"}, Forget(next)
    PROVE  IInv'
  <1> USE PeriodAssumption, LabelsAssumption, PagesAssumption DEF Forget
  <1>1. Typed'
    BY DEF Typed, Stages, NoPages, NoSeries, Unknown
  <1>2. Counted'
    BY DEF Counted, Added, Current, NoSeries, Early, Before
  <1>3. Evidence'
    BY DEF Evidence, NoSeries, Early, Before
  <1> QED BY <1>1, <1>2, <1>3 DEF IInv

LEMMA InitIInv == BillingInit => IInv
  <1> SUFFICES ASSUME BillingInit PROVE IInv
    OBVIOUS
  <1> USE PeriodAssumption, LabelsAssumption, PagesAssumption DEF BillingInit
  <1>1. Typed
    BY DEF Typed, Stages, NoPages, NoSeries, Unknown
  <1>2. Counted
    BY DEF Counted, Added, Current, NoSeries, Early, Before
  <1>3. Evidence
    BY DEF Evidence, NoSeries, Early, Before
  <1> QED BY <1>1, <1>2, <1>3 DEF IInv

LEMMA ReadBucketIInv ==
    ASSUME IInv, NEW d \in Period, ReadBucket(d)
    PROVE  IInv'
  <1>1. Typed'
    <2>1. openai' \in [Period -> Nat] /\ buckets' \subseteq Period
      BY DEF IInv, Typed, ReadBucket, Unseen
    <2>2. pages' \in [read: 0..(MaxPages - 1), seen: SUBSET Cursors, some: BOOLEAN]
      BY DEF IInv, Typed, ReadBucket
    <2> QED BY <2>1, <2>2 DEF IInv, Typed, ReadBucket
  <1>2. Counted'
    <2>1. /\ d \notin buckets /\ buckets' = buckets \cup {d}
          /\ openai' = [openai EXCEPT ![d] = @ + 1]
          /\ stage = "openai" /\ UNCHANGED <<stage, series, usage>>
      BY DEF ReadBucket, Unseen
    <2>2. \A e \in Period : openai'[e] = IF e \in buckets' THEN 1 ELSE 0
      BY <2>1 DEF IInv, Typed, Counted
    <2> QED BY <2>1, <2>2 DEF IInv, Counted, Added, Current, Early
  <1>3. Evidence'
    BY DEF IInv, Evidence, ReadBucket, Early, Before
  <1> QED BY <1>1, <1>2, <1>3 DEF IInv

\* Steps that change neither what was added nor the days and labels seen.
LEMMA PagingIInv ==
    ASSUME IInv, (\E c \in Cursors : NextPage(c)) \/ LastPage
    PROVE  IInv'
  <1> USE PagesAssumption
  <1>1. Typed'
    <2>1. ASSUME NEW c \in Cursors, NextPage(c)
          PROVE  pages' \in [read: 0..(MaxPages - 1), seen: SUBSET Cursors, some: BOOLEAN]
      <3>1. /\ pages.read \in Nat /\ pages.read + 1 < MaxPages /\ pages.seen \subseteq Cursors
            /\ pages' = [read |-> pages.read + 1, seen |-> pages.seen \union {c}, some |-> FALSE]
        BY <2>1 DEF IInv, Typed, NextPage
      <3>2. pages.read + 1 \in 0..(MaxPages - 1)
        BY <3>1
      <3> QED BY <3>1, <3>2
    <2> QED BY <2>1 DEF IInv, Typed, NextPage, LastPage, Stages
  <1>2. Counted'
    BY DEF IInv, Counted, Added, Current, NextPage, LastPage, Covered, Early, Before
  <1>3. Evidence'
    BY DEF IInv, Evidence, NextPage, LastPage, Early, Before
  <1> QED BY <1>1, <1>2, <1>3 DEF IInv

LEMMA AnswerIInv ==
    ASSUME IInv, GroupedEmpty \/ GroupedUsage \/ ConfirmedEmpty \/ ConfirmedUsage
    PROVE  IInv'
  <1> USE DEF GroupedEmpty, GroupedUsage, ConfirmedEmpty, ConfirmedUsage
  <1>1. /\ series'.labels = series.labels /\ series'.label = series.label
        /\ series'.days = series.days /\ series'.spent = series.spent
        /\ UNCHANGED <<buckets, openai, usage>>
        /\ stage \in {"grouped", "confirm"} /\ stage' \in {"confirm", "series", "done"}
    BY DEF IInv, Typed
  <1>2. Typed'
    <2>1. series.empty \in 0..1
      BY DEF IInv, Typed, Evidence, Early
    <2>2. series' \in [labels: SUBSET Labels, label: Labels \union {NoLabel}, days: SUBSET Period,
                       zero: BOOLEAN, spent: BOOLEAN, empty: 0..2]
      <3>1. series.empty + 1 \in 0..2
        BY <2>1
      <3> DEFINE e == series.empty + 1
                 counted == [series EXCEPT !.zero = TRUE, !.empty = e]
                 again == [series EXCEPT !.empty = e]
      <3>2. series' \in {series, counted, again}
        OBVIOUS
      <3>3. e \in 0..2
        BY <3>1
      <3> HIDE DEF e
      <3>4. {series, counted, again} \subseteq
                [labels: SUBSET Labels, label: Labels \union {NoLabel}, days: SUBSET Period,
                 zero: BOOLEAN, spent: BOOLEAN, empty: 0..2]
        BY <3>3 DEF IInv, Typed
      <3> QED BY <3>2, <3>4
    <2>3. spend' \in [state: {"none", "RECORDED_SPENDING", "NO_RECORDED_USAGE"},
                      evidence: {"none", "grouped_and_ungrouped_empty",
                                 "ungrouped_dense_zero_confirmation"}]
      BY DEF IInv, Typed
    <2> QED BY <1>1, <2>2, <2>3 DEF IInv, Typed, Stages
  <1>3. Counted'
    BY <1>1 DEF IInv, Counted, Added, Current, Early, Before
  <1>4. Evidence'
    <2>1. /\ ~series.spent /\ series.labels = {} /\ series.empty \in 0..2
          /\ series.empty = IF stage = "confirm" THEN 1 ELSE 0
          /\ series.zero <=> stage = "confirm"
      BY <1>1 DEF IInv, Typed, Counted, Evidence, Early, Before
    <2>2. CASE GroupedEmpty
      BY <1>1, <2>1, <2>2 DEF IInv, Typed, Evidence, Early, Before
    <2>3. CASE GroupedUsage \/ ConfirmedUsage
      BY <1>1, <2>1, <2>3 DEF Evidence, Early, Before
    <2>4. CASE ConfirmedEmpty
      BY <1>1, <2>1, <2>4 DEF IInv, Typed, Evidence, Early, Before, ZeroHasEvidence
    <2> QED BY <2>2, <2>3, <2>4
  <1> QED BY <1>2, <1>3, <1>4 DEF IInv

LEMMA OpenSeriesIInv ==
    ASSUME IInv, NEW l \in Labels, OpenSeries(l)
    PROVE  IInv'
  <1>1. /\ stage = "series" /\ stage' = "points" /\ l \notin series.labels
        /\ series'.labels = series.labels \cup {l} /\ series'.label = l
        /\ series'.days = {} /\ series'.zero = series.zero
        /\ series'.spent = series.spent /\ series'.empty = series.empty
        /\ UNCHANGED <<buckets, openai, usage>>
    BY DEF IInv, Typed, OpenSeries, NewLabel
  <1>2. Typed'
    BY DEF IInv, Typed, OpenSeries, Stages
  <1>3. Counted'
    BY <1>1 DEF IInv, Counted, Added, Current, Early, Before
  <1>4. Evidence'
    BY <1>1 DEF IInv, Evidence, Early, Before
  <1> QED BY <1>2, <1>3, <1>4 DEF IInv

LEMMA ReadPointIInv ==
    ASSUME IInv, NEW d \in Period, NEW spent \in BOOLEAN, ReadPoint(d, spent)
    PROVE  IInv'
  <1>1. /\ stage = "points" /\ stage' = "points" /\ d \notin series.days
        /\ series'.labels = series.labels /\ series'.label = series.label
        /\ series'.days = series.days \cup {d} /\ series'.zero = series.zero
        /\ series'.empty = series.empty /\ series.label \in series.labels
        /\ series.label \in Labels /\ UNCHANGED <<buckets, openai>>
    BY DEF IInv, Typed, Counted, ReadPoint
  <1>2. \A l \in Labels, e \in Period :
            usage'[l][e] = IF l = series.label /\ e = d THEN usage[l][e] + 1 ELSE usage[l][e]
    BY <1>1 DEF IInv, Typed, ReadPoint
  <1>3. Typed'
    <2>1. usage' \in [Labels -> [Period -> Nat]]
      <3>1. usage' = [usage EXCEPT ![series.label][d] = @ + 1]
        BY DEF ReadPoint
      <3>2. usage[series.label] \in [Period -> Nat] /\ usage[series.label][d] + 1 \in Nat
        BY <1>1 DEF IInv, Typed
      <3> QED BY <1>1, <3>1, <3>2 DEF IInv, Typed
    <2>2. series' \in [labels: SUBSET Labels, label: Labels \union {NoLabel}, days: SUBSET Period,
                       zero: BOOLEAN, spent: BOOLEAN, empty: 0..2]
      BY DEF IInv, Typed, ReadPoint
    <2> QED BY <1>1, <2>1, <2>2 DEF IInv, Typed, ReadPoint
  <1>4. Counted'
    BY <1>1, <1>2 DEF IInv, Counted, Added, Current, Early, Before
  <1>5. Evidence'
    BY <1>1 DEF IInv, Evidence, Early, Before
  <1> QED BY <1>3, <1>4, <1>5 DEF IInv

LEMMA CloseSeriesIInv ==
    ASSUME IInv, CloseSeries
    PROVE  IInv'
  <1>1. Typed'
    BY DEF IInv, Typed, CloseSeries, Stages
  <1>2. Counted'
    BY DEF IInv, Counted, Added, Current, CloseSeries, Early, Before
  <1>3. Evidence'
    BY DEF IInv, Evidence, CloseSeries, Early, Before
  <1> QED BY <1>1, <1>2, <1>3 DEF IInv

LEMMA FinishUsageIInv ==
    ASSUME IInv, FinishUsage
    PROVE  IInv'
  <1>1. Typed'
    BY DEF IInv, Typed, FinishUsage, Stages
  <1>2. Counted'
    BY DEF IInv, Counted, Added, Current, FinishUsage, Early, Before
  <1>3. Evidence'
    BY DEF IInv, Typed, Evidence, FinishUsage, AllZero, Early, Before, ZeroHasEvidence
  <1> QED BY <1>1, <1>2, <1>3 DEF IInv

\* The invariant is inductive.
LEMMA NextIInv == IInv /\ [BillingNext]_billingVars => IInv'
  <1> SUFFICES ASSUME IInv, [BillingNext]_billingVars PROVE IInv'
    OBVIOUS
  <1>1. CASE StartFetch \/ Forget("idle")
    BY <1>1, ForgetIInv DEF StartFetch
  <1>2. CASE BillingStep
    BY <1>2, ReadBucketIInv, PagingIInv, AnswerIInv, OpenSeriesIInv, ReadPointIInv,
       CloseSeriesIInv, FinishUsageIInv DEF BillingStep
  <1>3. CASE UNCHANGED billingVars
    BY <1>3 DEF billingVars, IInv, Typed, Counted, Added, Current, Evidence, ZeroHasEvidence
  <1> QED BY <1>1, <1>2, <1>3 DEF BillingNext

LEMMA IInvImplies == IInv => BillingTypeOK /\ EveryDayCountedOnce /\ ZeroHasEvidence
  <1> SUFFICES ASSUME IInv PROVE BillingTypeOK /\ EveryDayCountedOnce /\ ZeroHasEvidence
    OBVIOUS
  <1>1. BillingTypeOK
    BY DEF IInv, Typed, BillingTypeOK
  <1>2. EveryDayCountedOnce
    BY DEF IInv, Typed, Counted, Added, Current, Early, EveryDayCountedOnce
  <1>3. ZeroHasEvidence
    BY DEF IInv, Evidence, ZeroHasEvidence
  <1> QED BY <1>1, <1>2, <1>3

\* Every reachable state satisfies the invariant.
LEMMA Invariance == BillingSpec => []IInv
  BY InitIInv, NextIInv, PTL DEF BillingSpec
-----------------------------------------------------------------------------
\* What a fetch has read keeps its type.
THEOREM BillingTyped == BillingSpec => []BillingTypeOK
  BY Invariance, IInvImplies, PTL

\* A fetch that ends has added every day of the period exactly once per provider
\* and per series, whatever pages and points it came in (fetch_openai_costs,
\* fetch_xai_costs).
THEOREM DaysCountedOnce == BillingSpec => []EveryDayCountedOnce
  BY Invariance, IInvImplies, PTL

\* No usage and zero spending are concluded from the answers that show them
\* (fetch_xai_costs, validate_accounting_evidence).
THEOREM ZeroIsShown == BillingSpec => []ZeroHasEvidence
  BY Invariance, IInvImplies, PTL

-----------------------------------------------------------------------------
(* The reporter *)

Pcs == {"idle", "fetch", "json", "mark", "deliver", "await", "oauth", "save"}
Markers == [drive: BOOLEAN, replace: BOOLEAN, sent: SUBSET Channels,
            target: Targets \union {"none"}]
Runs == [pc: Pcs, mode: Modes, made: Nat, status: Markers, id: Nat,
         answer: {"none", "ok", "error"}]
Messages == [pdf: Nat, body: Nat]
Budgets == [forced: Nat, inspected: Nat, crashes: Nat, faults: Nat]

LocalTyped ==
    /\ disk \in [pdf: Nat, json: Nat]
    /\ marker \in Markers
    /\ run \in Runs
    /\ target \in Targets
    /\ mail \in [Channels -> Seq(Messages)]
    /\ made \in Nat
    /\ budget \in Budgets

\* A fetch is under way exactly in the first step of a run.
Phase == run.pc = "fetch" <=> stage # "idle"

\* What excuses one more message on a channel.
Excuses == budget.forced + budget.crashes + budget.faults

\* The channels that the run, or without one the marker, takes for served.
Served ==
    IF run.pc \in {"fetch", "json", "mark", "save"} THEN run.status.sent ELSE marker.sent

Sent ==
    /\ \A c \in Channels : /\ Len(mail[c]) <= 1 + Excuses
                           /\ c \notin Served => Len(mail[c]) <= Excuses
                           /\ c \notin marker.sent /\ run.pc # "save" => Len(mail[c]) <= Excuses
    /\ run.pc \in {"fetch", "json", "mark"} => run.status.sent = {}
    /\ run.pc \in {"deliver", "await", "oauth"} => run.status.sent = marker.sent
    /\ run.pc = "save" => marker.sent \subseteq run.status.sent

RInv == LocalTyped /\ Phase /\ Sent
-----------------------------------------------------------------------------
LEMMA MarkersTyped == NoMarker \in Markers /\ NoRun \in Runs
  BY DEF NoMarker, NoRun, Markers, Runs, Pcs, Modes

LEMMA InitRInv == Init => RInv
  <1> SUFFICES ASSUME Init PROVE RInv
    OBVIOUS
  <1>1. LocalTyped
    <2>1. mail \in [Channels -> Seq(Messages)]
      BY DEF Init
    <2> QED BY <2>1, MarkersTyped DEF Init, LocalTyped, Absent, Budgets
  <1>2. Phase
    BY DEF Init, BillingInit, Phase, NoRun
  <1>3. Sent
    BY DEF Init, Sent, Served, Excuses, NoRun, NoMarker
  <1> QED BY <1>1, <1>2, <1>3 DEF RInv

\* A step that leaves the run where it is, on what it knows, and may have used up
\* something of the budget.
LEMMA StayRInv ==
    ASSUME RInv, UNCHANGED <<stage, disk, marker, target, made, mail>>,
           run' \in Runs, run'.pc = run.pc, run'.status = run.status,
           budget' \in Budgets, Excuses' >= Excuses
    PROVE  RInv'
  <1>0. Excuses \in Nat /\ Excuses' \in Nat
    <2>1. budget \in Budgets
      BY DEF RInv, LocalTyped
    <2>2. \A b \in Budgets : b.forced + b.crashes + b.faults \in Nat
      BY DEF Budgets
    <2> QED BY <2>1, <2>2 DEF Excuses
  <1>1. LocalTyped'
    BY DEF RInv, LocalTyped
  <1>2. Phase'
    BY DEF RInv, Phase
  <1>3. Served' = Served
    BY DEF Served
  <1>4. Sent'
    <2>1. \A c \in Channels : Len(mail[c]) \in Nat
      BY DEF RInv, LocalTyped
    <2> QED BY <1>0, <1>3, <2>1 DEF RInv, Sent
  <1> QED BY <1>1, <1>2, <1>4 DEF RInv

\* A step that ends the run; when the marker was not saved yet, something excuses it.
LEMMA EndRInv ==
    ASSUME RInv, run' = NoRun, stage' = "idle", UNCHANGED <<marker, target, mail>>,
           disk' \in [pdf: Nat, json: Nat], made' \in Nat, budget' \in Budgets,
           Excuses' >= Excuses, run.pc = "save" => Excuses' >= Excuses + 1
    PROVE  RInv'
  <1>0. Excuses \in Nat /\ Excuses' \in Nat
    <2>1. budget \in Budgets
      BY DEF RInv, LocalTyped
    <2>2. \A b \in Budgets : b.forced + b.crashes + b.faults \in Nat
      BY DEF Budgets
    <2> QED BY <2>1, <2>2 DEF Excuses
  <1>1. LocalTyped'
    <2>1. run' \in Runs
      BY MarkersTyped
    <2>2. marker \in Markers /\ target \in Targets /\ mail \in [Channels -> Seq(Messages)]
      BY DEF RInv, LocalTyped
    <2> QED BY <2>1, <2>2 DEF LocalTyped
  <1>2. Phase'
    BY DEF Phase, NoRun
  <1>3. Sent'
    <2>1. \A c \in Channels : Len(mail[c]) \in Nat
      BY DEF RInv, LocalTyped
    <2>2. Served' = marker.sent
      BY DEF Served, NoRun
    <2> QED BY <1>0, <2>1, <2>2 DEF RInv, Sent, NoRun
  <1> QED BY <1>1, <1>2, <1>3 DEF RInv

Writing == {"fetch", "json", "mark"}
Delivering == {"deliver", "await", "oauth"}

\* A step on with the channels it knows to be served.
LEMMA OnRInv ==
    ASSUME RInv, UNCHANGED <<marker, target, mail, budget>>,
           run' \in Runs, run'.status.sent = run.status.sent,
           stage' = "idle", run'.pc # "fetch",
           disk' \in [pdf: Nat, json: Nat], made' \in Nat,
           \/ run.pc \in Writing /\ run'.pc \in Writing
           \/ run.pc \in Delivering /\ run'.pc \in Delivering \cup {"save"}
    PROVE  RInv'
  <1>1. LocalTyped'
    BY DEF RInv, LocalTyped
  <1>2. Phase'
    BY DEF Phase
  <1>3. Excuses' = Excuses
    BY DEF Excuses
  <1>4. Sent'
    BY <1>3 DEF RInv, Sent, Served, Writing, Delivering
  <1> QED BY <1>1, <1>2, <1>4 DEF RInv

\* The sum of the excuses after a fault, a crash or a forced run.
LEMMA FaultCounts ==
    ASSUME LocalTyped, Fault
    PROVE  budget' \in Budgets /\ Excuses' = Excuses + 1 /\ Excuses \in Nat
  <1> DEFINE f == budget.faults + 1
  <1>1. f \in Nat
    BY DEF LocalTyped, Budgets
  <1>2. budget' = [budget EXCEPT !.faults = f]
    BY DEF Fault
  <1>3. f = budget.faults + 1
    OBVIOUS
  <1> HIDE DEF f
  <1>4. budget' \in Budgets /\ budget'.faults = f /\ budget'.forced = budget.forced
        /\ budget'.crashes = budget.crashes
    BY <1>1, <1>2 DEF LocalTyped, Budgets
  <1>5. budget.forced \in Nat /\ budget.crashes \in Nat /\ budget.faults \in Nat
    BY DEF LocalTyped, Budgets
  <1> QED BY <1>3, <1>4, <1>5 DEF Excuses

LEMMA SameExcuses ==
    ASSUME LocalTyped, UNCHANGED budget
    PROVE  budget' \in Budgets /\ Excuses' = Excuses /\ Excuses \in Nat
  BY DEF LocalTyped, Budgets, Excuses
-----------------------------------------------------------------------------
(* The start of a run *)

LEMMA LoadedTyped == LocalTyped => Loaded \in Markers /\ Loaded.sent = marker.sent
  <1> SUFFICES ASSUME LocalTyped PROVE Loaded \in Markers /\ Loaded.sent = marker.sent
    OBVIOUS
  <1> DEFINE d == marker.drive /\ marker.target = target
             r == marker.replace /\ marker.target = target
  <1>1. Loaded = [marker EXCEPT !.drive = d, !.replace = r, !.target = target]
    BY DEF Loaded
  <1>2. d \in BOOLEAN /\ r \in BOOLEAN
    OBVIOUS
  <1> HIDE DEF d, r
  <1> QED BY <1>1, <1>2 DEF LocalTyped, Markers

LEMMA ResumeRInv ==
    ASSUME RInv, NEW mode \in Modes, Resume(mode)
    PROVE  RInv'
  <1>1. Loaded \in Markers /\ Loaded.sent = marker.sent
    BY LoadedTyped DEF RInv
  <1>2. /\ run.pc = "idle" /\ stage' = stage
        /\ UNCHANGED <<disk, marker, target, made, mail, budget>>
        /\ run' = [NoRun EXCEPT !.pc = "deliver", !.made = disk.json, !.status = Loaded]
    BY DEF Resume, billingVars, localVars, remoteVars
  <1>3. disk.json \in Nat
    BY DEF RInv, LocalTyped
  <1>4. run' \in Runs /\ run'.pc = "deliver" /\ run'.status = Loaded
    BY <1>1, <1>2, <1>3 DEF NoRun, Runs, Pcs, Modes
  <1>5. LocalTyped'
    BY <1>2, <1>4 DEF RInv, LocalTyped
  <1>6. Phase'
    BY <1>2, <1>4 DEF RInv, Phase
  <1>7. Sent'
    BY <1>1, <1>2, <1>4 DEF RInv, Sent, Served, Excuses
  <1> QED BY <1>5, <1>6, <1>7 DEF RInv

LEMMA RegenerateRInv ==
    ASSUME RInv, NEW mode \in Modes, Regenerate(mode)
    PROVE  RInv'
  <1> DEFINE fresh == FreshMarker(target, mode = "force")
  <1>1. fresh \in Markers /\ fresh.sent = {}
    BY DEF FreshMarker, Markers, RInv, LocalTyped
  <1>2. /\ run.pc = "idle" /\ stage' = "openai"
        /\ UNCHANGED <<disk, marker, target, made, mail>>
        /\ run' = [NoRun EXCEPT !.pc = "fetch", !.mode = mode, !.status = fresh]
    BY DEF Regenerate, StartFetch, Forget, localVars, remoteVars
  <1>3. run' \in Runs /\ run'.pc = "fetch" /\ run'.status = fresh
    <2> HIDE DEF fresh
    <2> QED BY <1>1, <1>2 DEF NoRun, Runs, Pcs, Modes
  <1> DEFINE f == budget.forced + (IF mode = "force" THEN 1 ELSE 0)
             i == budget.inspected + (IF mode = "inspect" THEN 1 ELSE 0)
  <1>4. /\ f \in Nat /\ i \in Nat
        /\ budget' = [budget EXCEPT !.forced = f, !.inspected = i]
        /\ f = budget.forced + (IF mode = "force" THEN 1 ELSE 0)
    BY DEF Regenerate, RInv, LocalTyped, Budgets
  <1> HIDE DEF f, i, fresh
  <1>5. budget' \in Budgets /\ budget'.forced = f /\ budget'.crashes = budget.crashes
        /\ budget'.faults = budget.faults
    BY <1>4 DEF RInv, LocalTyped, Budgets
  <1>6. /\ Excuses \in Nat
        /\ Excuses' = Excuses + (IF mode = "force" THEN 1 ELSE 0)
    <2>1. budget.forced \in Nat /\ budget.crashes \in Nat /\ budget.faults \in Nat
      BY DEF RInv, LocalTyped, Budgets
    <2> QED BY <1>4, <1>5, <2>1 DEF Excuses
  <1>7. LocalTyped'
    BY <1>2, <1>3, <1>5 DEF RInv, LocalTyped
  <1>8. Phase'
    BY <1>2, <1>3 DEF Phase
  <1>9. Sent'
    <2>1. mode # "force" => marker.sent = {}
      BY DEF Regenerate, Reuses, Marked, NoMarker, Modes
    <2>2. \A c \in Channels : Len(mail[c]) \in Nat /\ Len(mail[c]) <= Excuses'
      BY <1>2, <1>6, <2>1 DEF RInv, LocalTyped, Sent
    <2> QED BY <1>1, <1>2, <1>3, <1>6, <2>2 DEF Sent
  <1> QED BY <1>7, <1>8, <1>9 DEF RInv

\* Reading the billing data changes nothing else and never ends the fetch.
LEMMA ReadBillingRInv == ASSUME RInv, ReadBilling PROVE RInv'
  <1>1. UNCHANGED <<disk, marker, target, made, mail, run, budget>>
    BY DEF ReadBilling, localVars, remoteVars
  <1>2. stage # "idle" /\ stage' # "idle"
    BY DEF ReadBilling, BillingStep, ReadBucket, NextPage, LastPage, GroupedEmpty,
       GroupedUsage, ConfirmedEmpty, ConfirmedUsage, OpenSeries, ReadPoint, CloseSeries,
       FinishUsage
  <1>3. LocalTyped'
    BY <1>1 DEF RInv, LocalTyped
  <1>4. Phase'
    BY <1>1, <1>2 DEF RInv, Phase
  <1>5. Sent'
    BY <1>1 DEF RInv, Sent, Served, Excuses
  <1> QED BY <1>3, <1>4, <1>5 DEF RInv

LEMMA BillingFailsRInv == ASSUME RInv, BillingFails PROVE RInv'
  <1>1. /\ run' = NoRun /\ stage' = "idle" /\ run.pc = "fetch"
        /\ UNCHANGED <<disk, marker, target, made, mail, budget>>
    BY DEF BillingFails, FetchFails, Forget, EndRun, localVars, remoteVars
  <1>2. budget' \in Budgets /\ Excuses' = Excuses /\ Excuses \in Nat
    BY <1>1, SameExcuses DEF RInv
  <1> QED BY <1>1, <1>2, EndRInv DEF RInv, LocalTyped

LEMMA WritePdfRInv == ASSUME RInv, WritePdf PROVE RInv'
  <1>1. /\ run.pc = "fetch" /\ stage' = "idle" /\ made' = made + 1
        /\ run' = [run EXCEPT !.pc = "json", !.made = made']
        /\ disk' = [disk EXCEPT !.pdf = made']
        /\ UNCHANGED <<marker, target, mail, budget>>
    BY DEF WritePdf, UseAmounts, Forget, remoteVars
  <1>2. made' \in Nat
    BY <1>1 DEF RInv, LocalTyped
  <1>3. run' \in Runs /\ run'.pc = "json" /\ run'.status = run.status
        /\ disk' \in [pdf: Nat, json: Nat]
    BY <1>1, <1>2 DEF RInv, LocalTyped, Runs, Pcs
  <1> QED BY <1>1, <1>2, <1>3, OnRInv DEF Writing

LEMMA WriteJsonRInv == ASSUME RInv, WriteJson PROVE RInv'
  <1>1. /\ run.pc = "json" /\ stage' = stage /\ stage = "idle"
        /\ disk' = [disk EXCEPT !.json = run.made]
        /\ UNCHANGED <<marker, target, made, mail, budget>>
    BY DEF WriteJson, billingVars, remoteVars, RInv, Phase
  <1>2. run.made \in Nat /\ disk' \in [pdf: Nat, json: Nat]
    BY <1>1 DEF RInv, LocalTyped, Runs
  <1>3. CASE EndRun
    BY <1>1, <1>2, <1>3, EndRInv, SameExcuses DEF EndRun, RInv, LocalTyped
  <1>4. CASE Goto("mark")
    <2>1. run' \in Runs /\ run'.pc = "mark" /\ run'.status = run.status
      BY <1>4 DEF Goto, RInv, LocalTyped, Runs, Pcs
    <2> QED BY <1>1, <1>2, <2>1, OnRInv DEF Writing, RInv, LocalTyped
  <1> QED BY <1>3, <1>4 DEF WriteJson

LEMMA WriteMarkerRInv == ASSUME RInv, WriteMarker PROVE RInv'
  <1>1. /\ run.pc = "mark" /\ stage' = stage /\ marker' = run.status
        /\ UNCHANGED <<disk, target, made, mail, budget>>
    BY DEF WriteMarker, billingVars, remoteVars
  <1>2. run' \in Runs /\ run'.pc = "deliver" /\ run'.status = run.status
        /\ run.status \in Markers
    BY DEF WriteMarker, Goto, RInv, LocalTyped, Runs, Pcs
  <1>3. LocalTyped'
    BY <1>1, <1>2 DEF RInv, LocalTyped
  <1>4. Phase'
    BY <1>1, <1>2 DEF RInv, Phase
  <1>5. Sent'
    BY <1>1, <1>2 DEF RInv, Sent, Served, Excuses
  <1> QED BY <1>3, <1>4, <1>5 DEF RInv
-----------------------------------------------------------------------------
(* Delivery *)

LEMMA SendRequestRInv == ASSUME RInv, NEW i \in Ids, SendRequest(i) PROVE RInv'
  <1>1. /\ run.pc = "deliver" /\ UNCHANGED <<stage, disk, marker, target, made, mail, budget>>
        /\ run' = [run EXCEPT !.pc = "await", !.id = i, !.answer = "none"]
    BY DEF SendRequest, billingVars, localVars
  <1>2. run' \in Runs /\ run'.pc = "await" /\ run'.status = run.status
    BY <1>1, ReporterBounds DEF RInv, LocalTyped, Runs, Pcs
  <1> QED BY <1>1, <1>2, OnRInv DEF Delivering, RInv, LocalTyped, Phase

LEMMA UploadedTyped ==
    ASSUME NEW status \in Markers
    PROVE  Uploaded(status) \in Markers /\ Uploaded(status).sent = status.sent
  BY DEF Uploaded, Markers

LEMMA AnswerArrivesRInv == ASSUME RInv, AnswerArrives PROVE RInv'
  <1>1. run.pc = "await" /\ UNCHANGED <<stage, disk, marker, target, made, mail, budget>>
    BY DEF AnswerArrives, billingVars, localVars, remoteVars
  <1>2. stage = "idle"
    BY <1>1 DEF RInv, Phase
  <1>3. CASE run.answer = "ok"
    <2> DEFINE u == Uploaded(run.status)
    <2>1. run.status \in Markers
      BY DEF RInv, LocalTyped, Runs
    <2>2. u \in Markers /\ u.sent = run.status.sent
      BY <2>1, UploadedTyped
    <2>3. run' = [run EXCEPT !.pc = "save", !.status = u, !.id = 0, !.answer = "none"]
      BY <1>3 DEF AnswerArrives
    <2> HIDE DEF u
    <2>4. run' \in Runs /\ run'.pc = "save" /\ run'.status = u
      BY <2>2, <2>3 DEF RInv, LocalTyped, Runs, Pcs
    <2> QED BY <1>1, <1>2, <2>2, <2>4, OnRInv DEF Delivering, RInv, LocalTyped
  <1>4. CASE run.answer # "ok"
    BY <1>1, <1>2, <1>4, EndRInv, SameExcuses DEF AnswerArrives, EndRun, RInv, LocalTyped
  <1> QED BY <1>3, <1>4

\* Runs that give up during the delivery, with or without a fault.
LEMMA GiveUpRInv ==
    ASSUME RInv, AnswerLost \/ CallFails \/ RefuseTorn \/ FinishRun
    PROVE  RInv'
  <1>1. /\ run' = NoRun /\ run.pc \in Delivering
        /\ UNCHANGED <<stage, disk, marker, target, made, mail>>
        /\ Fault \/ UNCHANGED budget
    BY DEF AnswerLost, CallFails, RefuseTorn, FinishRun, EndRun, billingVars, localVars,
       remoteVars, Delivering
  <1>2. stage = "idle" /\ run.pc # "save"
    BY <1>1 DEF RInv, Phase, Delivering
  <1>3. budget' \in Budgets /\ Excuses' >= Excuses
    BY <1>1, FaultCounts, SameExcuses DEF RInv
  <1> QED BY <1>1, <1>2, <1>3, EndRInv DEF RInv, LocalTyped

LEMMA UpsertRInv == ASSUME RInv, UpsertPdf \/ UpsertJson PROVE RInv'
  <1>1. PICK file \in {"pdf", "json"}, to \in {"oauth", "save"} :
            /\ UNCHANGED <<stage, disk, marker, target, made, mail>>
            /\ run.pc \in {"deliver", "oauth"}
            /\ \/ /\ run' = [run EXCEPT !.pc = to,
                                        !.status = IF to = "save" THEN Uploaded(@) ELSE @]
                  /\ UNCHANGED budget
               \/ Fault /\ EndRun
    BY DEF UpsertPdf, UpsertJson, Upsert, billingVars, localVars
  <1>2. stage = "idle" /\ run.pc \in Delivering
    BY <1>1 DEF RInv, Phase, Delivering
  <1>3. CASE Fault /\ EndRun
    BY <1>1, <1>2, <1>3, FaultCounts, EndRInv DEF EndRun, Delivering, RInv, LocalTyped
  <1>4. CASE /\ run' = [run EXCEPT !.pc = to, !.status = IF to = "save" THEN Uploaded(@) ELSE @]
             /\ UNCHANGED budget
    <2> DEFINE u == IF to = "save" THEN Uploaded(run.status) ELSE run.status
    <2>1. run.status \in Markers
      BY DEF RInv, LocalTyped, Runs
    <2>2. u \in Markers /\ u.sent = run.status.sent
      BY <2>1, UploadedTyped
    <2>3. run' = [run EXCEPT !.pc = to, !.status = u]
      BY <1>4
    <2> HIDE DEF u
    <2>4. run' \in Runs /\ run'.pc = to /\ run'.status = u
      BY <2>2, <2>3 DEF RInv, LocalTyped, Runs, Pcs
    <2> QED BY <1>1, <1>2, <1>4, <2>2, <2>4, OnRInv DEF Delivering, RInv, LocalTyped
  <1> QED BY <1>1, <1>3, <1>4

\* One more message on a channel.
LEMMA AcceptCounts ==
    ASSUME LocalTyped, NEW c \in Channels, Accept(c)
    PROVE  /\ mail' \in [Channels -> Seq(Messages)]
           /\ Len(mail[c]) \in Nat /\ Len(mail'[c]) = Len(mail[c]) + 1
           /\ \A b \in Channels : b # c => mail'[b] = mail[b]
  <1> DEFINE m == [pdf |-> disk.pdf, body |-> run.made]
  <1>1. m \in Messages
    BY DEF LocalTyped, Messages, Runs
  <1>2. mail' = [mail EXCEPT ![c] = Append(mail[c], m)]
    BY DEF Accept
  <1> HIDE DEF m
  <1>3. mail[c] \in Seq(Messages) /\ Append(mail[c], m) \in Seq(Messages)
        /\ Len(Append(mail[c], m)) = Len(mail[c]) + 1
    BY <1>1 DEF LocalTyped
  <1>4. \A b \in Channels : Len(mail[b]) \in Nat
    BY DEF LocalTyped
  <1>5. \A b \in Channels : mail'[b] = IF b = c THEN Append(mail[c], m) ELSE mail[b]
    BY <1>2 DEF LocalTyped
  <1>6. mail' \in [Channels -> Seq(Messages)]
    BY <1>2, <1>3 DEF LocalTyped
  <1> QED BY <1>3, <1>4, <1>5, <1>6

LEMMA SendToRInv == ASSUME RInv, NEW c \in Channels, SendTo(c) PROVE RInv'
  <1> DEFINE known == run.status.sent \cup {c}
             u == [run.status EXCEPT !.sent = known]
  <1>1. /\ run.pc = "deliver" /\ Accept(c) /\ c \notin run.status.sent
        /\ UNCHANGED <<stage, disk, marker, target, made, budget>>
        /\ run' = [run EXCEPT !.pc = "save", !.status = u]
    BY DEF SendTo, NextChannel, Waiting, billingVars, localVars
  <1>2. u \in Markers /\ u.sent = known
    <2>1. run.status \in Markers
      BY DEF RInv, LocalTyped, Runs
    <2>2. known \in SUBSET Channels
      BY <2>1 DEF Markers
    <2> HIDE DEF known
    <2> QED BY <2>1, <2>2 DEF Markers
  <1> HIDE DEF u
  <1>3. run' \in Runs /\ run'.pc = "save" /\ run'.status = u
    BY <1>1, <1>2 DEF RInv, LocalTyped, Runs, Pcs
  <1>4. LocalTyped'
    BY <1>1, <1>3, AcceptCounts DEF RInv, LocalTyped
  <1>5. Phase'
    BY <1>1, <1>3 DEF RInv, Phase
  <1>6. Sent'
    <2>1. Excuses' = Excuses /\ Excuses \in Nat
      BY <1>1, SameExcuses DEF RInv
    <2>2. marker.sent = run.status.sent
      BY <1>1 DEF RInv, Sent
    <2>a. \A b \in Channels : /\ Len(mail[b]) \in Nat /\ Len(mail[b]) <= 1 + Excuses
                              /\ b \notin marker.sent => Len(mail[b]) <= Excuses
      BY <1>1 DEF RInv, LocalTyped, Sent
    <2>b. /\ Len(mail'[c]) = Len(mail[c]) + 1
          /\ \A b \in Channels : b # c => mail'[b] = mail[b]
      BY <1>1, AcceptCounts DEF RInv
    <2>3. ASSUME NEW b \in Channels
          PROVE  Len(mail'[b]) <= 1 + Excuses /\ (b \notin known => Len(mail'[b]) <= Excuses)
      <3>1. CASE b = c
        <4>1. Len(mail'[b]) = Len(mail[b]) + 1 /\ Len(mail[b]) <= Excuses /\ Len(mail[b]) \in Nat
          BY <1>1, <2>2, <2>a, <2>b, <3>1
        <4> QED BY <2>1, <3>1, <4>1
      <3>2. CASE b # c
        <4>1. mail'[b] = mail[b] /\ Len(mail[b]) \in Nat
          BY <2>a, <2>b, <3>2
        <4> QED BY <2>1, <2>2, <2>a, <3>2, <4>1
      <3> QED BY <3>1, <3>2
    <2> QED BY <1>1, <1>2, <1>3, <2>1, <2>2, <2>3 DEF Sent, Served
  <1> QED BY <1>4, <1>5, <1>6 DEF RInv

LEMMA SendUnansweredRInv ==
    ASSUME RInv, NEW c \in Channels, SendUnanswered(c)
    PROVE  RInv'
  <1>1. /\ run.pc = "deliver" /\ Accept(c) /\ c \notin run.status.sent /\ Fault
        /\ UNCHANGED <<stage, disk, marker, target, made>>
        /\ run' = NoRun \/ run' = run
    BY DEF SendUnanswered, NextChannel, Waiting, EndRun, billingVars, localVars
  <1>2. LocalTyped'
    BY <1>1, AcceptCounts, FaultCounts, MarkersTyped DEF RInv, LocalTyped
  <1>3. Phase'
    BY <1>1 DEF RInv, Phase, NoRun
  <1>4. Sent'
    <2>1. Excuses' = Excuses + 1 /\ Excuses \in Nat
      BY <1>1, FaultCounts DEF RInv
    <2>2. marker.sent = run.status.sent
      BY <1>1 DEF RInv, Sent
    <2>a. \A b \in Channels : /\ Len(mail[b]) \in Nat /\ Len(mail[b]) <= 1 + Excuses
                              /\ b \notin marker.sent => Len(mail[b]) <= Excuses
      BY <1>1 DEF RInv, LocalTyped, Sent
    <2>b. /\ Len(mail'[c]) = Len(mail[c]) + 1
          /\ \A b \in Channels : b # c => mail'[b] = mail[b]
      BY <1>1, AcceptCounts DEF RInv
    <2>3. ASSUME NEW b \in Channels
          PROVE  /\ Len(mail'[b]) <= 1 + Excuses'
                 /\ b \notin marker.sent => Len(mail'[b]) <= Excuses'
      <3>1. CASE b = c
        <4>1. Len(mail'[b]) = Len(mail[b]) + 1 /\ Len(mail[b]) <= Excuses /\ Len(mail[b]) \in Nat
          BY <1>1, <2>2, <2>a, <2>b, <3>1
        <4> QED BY <2>1, <4>1
      <3>2. CASE b # c
        <4>1. mail'[b] = mail[b] /\ Len(mail[b]) \in Nat
          BY <2>a, <2>b, <3>2
        <4> QED BY <2>1, <2>a, <4>1
      <3> QED BY <3>1, <3>2
    <2>4. run'.pc \in {"idle", "deliver"} /\ (run'.pc = "deliver" => run' = run)
      BY <1>1 DEF NoRun
    <2> QED BY <1>1, <2>2, <2>3, <2>4 DEF Sent, Served
  <1> QED BY <1>2, <1>3, <1>4 DEF RInv

LEMMA SaveMarkerRInv == ASSUME RInv, SaveMarker PROVE RInv'
  <1>1. /\ run.pc = "save" /\ stage' = stage /\ marker' = run.status
        /\ UNCHANGED <<disk, target, made, mail, budget>>
    BY DEF SaveMarker, billingVars, remoteVars
  <1>2. run' \in Runs /\ run'.pc = "deliver" /\ run'.status = run.status
        /\ run.status \in Markers
    BY DEF SaveMarker, Goto, RInv, LocalTyped, Runs, Pcs
  <1>3. LocalTyped'
    BY <1>1, <1>2 DEF RInv, LocalTyped
  <1>4. Phase'
    BY <1>1, <1>2 DEF RInv, Phase
  <1>5. Sent'
    BY <1>1, <1>2 DEF RInv, Sent, Served, Excuses
  <1> QED BY <1>3, <1>4, <1>5 DEF RInv
-----------------------------------------------------------------------------
(* What happens around a run *)

LEMMA CrashRInv == ASSUME RInv, Crash PROVE RInv'
  <1> DEFINE n == budget.crashes + 1
  <1>1. /\ run' = NoRun /\ stage' = "idle" /\ UNCHANGED <<marker, target, made, mail>>
        /\ disk' = disk \/ disk' = [disk EXCEPT !.pdf = Torn]
        /\ budget' = [budget EXCEPT !.crashes = n]
    BY DEF Crash, Forget, EndRun, remoteVars
  <1>2. n \in Nat /\ n = budget.crashes + 1
    BY DEF RInv, LocalTyped, Budgets
  <1> HIDE DEF n
  <1>3. budget' \in Budgets /\ budget'.forced = budget.forced /\ budget'.crashes = n
        /\ budget'.faults = budget.faults
    BY <1>1, <1>2 DEF RInv, LocalTyped, Budgets
  <1>4. Excuses' = Excuses + 1 /\ Excuses \in Nat
    <2>1. budget.forced \in Nat /\ budget.crashes \in Nat /\ budget.faults \in Nat
      BY DEF RInv, LocalTyped, Budgets
    <2> QED BY <1>2, <1>3, <2>1 DEF Excuses
  <1>5. disk' \in [pdf: Nat, json: Nat]
    <2>1. Torn \in Nat
      BY ReporterBounds DEF Torn, MaxMade
    <2> QED BY <1>1, <2>1 DEF RInv, LocalTyped
  <1> QED BY <1>1, <1>3, <1>4, <1>5, EndRInv DEF RInv, LocalTyped

LEMMA ReconfigureRInv == ASSUME RInv, NEW t \in Targets, Reconfigure(t) PROVE RInv'
  <1>1. /\ Fault /\ target' = t /\ UNCHANGED <<stage, disk, marker, made, run, mail>>
    BY DEF Reconfigure, billingVars, remoteVars
  <1>2. budget' \in Budgets /\ Excuses' = Excuses + 1 /\ Excuses \in Nat
    BY <1>1, FaultCounts DEF RInv
  <1>3. LocalTyped'
    BY <1>1, <1>2 DEF RInv, LocalTyped
  <1>4. Phase'
    BY <1>1 DEF RInv, Phase
  <1>5. Sent'
    <2>1. \A c \in Channels : Len(mail[c]) \in Nat
      BY DEF RInv, LocalTyped
    <2> QED BY <1>1, <1>2, <2>1 DEF RInv, Sent, Served
  <1> QED BY <1>3, <1>4, <1>5 DEF RInv

LEMMA AnswerTyped ==
    ASSUME LocalTyped, NEW i, NEW a \in {"ok", "error"}, Answer(i, a)
    PROVE  run' \in Runs /\ run'.pc = run.pc /\ run'.status = run.status
  BY DEF Answer, LocalTyped, Runs

\* The receiver and the clock leave the run where it is.
LEMMA ReceiverRInv ==
    ASSUME RInv,
           \/ \E i \in Ids : Receive(i) \/ Duplicate(i)
           \/ StoreFile \/ StoreFails \/ Reply \/ Tick
    PROVE  RInv'
  <1>1. /\ UNCHANGED <<stage, disk, marker, target, made, mail>>
        /\ Fault \/ UNCHANGED budget
        /\ run' = run \/ \E i \in Ids \cup {script.id}, a \in {"ok", "error"} : Answer(i, a)
    <2>1. ASSUME NEW i \in Ids, Admit(i)
          PROVE  /\ UNCHANGED <<stage, disk, marker, target, made, mail, budget>>
                 /\ run' = run \/ Answer(i, "error")
      BY <2>1 DEF Admit, billingVars, localVars
    <2>2. ASSUME NEW i \in Ids, Refuse(i)
          PROVE  /\ UNCHANGED <<stage, disk, marker, target, made, mail, budget>>
                 /\ Answer(i, "error")
      BY <2>2 DEF Refuse, billingVars, localVars
    <2>3. ASSUME NEW i \in Ids, Duplicate(i)
          PROVE  Fault /\ UNCHANGED <<stage, disk, marker, target, made, mail, run>>
      BY <2>3 DEF Duplicate, billingVars, localVars
    <2>4. CASE StoreFile
      BY <2>4 DEF StoreFile, billingVars, localVars
    <2>5. CASE StoreFails
      BY <2>5 DEF StoreFails, billingVars, localVars
    <2>6. CASE Reply
      BY <2>6 DEF Reply, billingVars, localVars
    <2>7. CASE Tick
      BY <2>7 DEF Tick, billingVars, localVars
    <2> QED BY <2>1, <2>2, <2>3, <2>4, <2>5, <2>6, <2>7 DEF Receive
  <1>2. run' \in Runs /\ run'.pc = run.pc /\ run'.status = run.status
    BY <1>1, AnswerTyped DEF RInv, LocalTyped
  <1>3. budget' \in Budgets /\ Excuses' >= Excuses
    BY <1>1, FaultCounts, SameExcuses DEF RInv
  <1> QED BY <1>1, <1>2, <1>3, StayRInv

\* The invariant is inductive.
LEMMA NextRInv == RInv /\ [Next]_vars => RInv'
  <1> SUFFICES ASSUME RInv, [Next]_vars PROVE RInv'
    OBVIOUS
  <1>1. CASE Start
    BY <1>1, ResumeRInv, RegenerateRInv DEF Start
  <1>2. CASE ReadBilling \/ BillingFails \/ WritePdf \/ WriteJson \/ WriteMarker
    BY <1>2, ReadBillingRInv, BillingFailsRInv, WritePdfRInv, WriteJsonRInv, WriteMarkerRInv
  <1>3. CASE Deliver
    BY <1>3, SendRequestRInv, GiveUpRInv, AnswerArrivesRInv, UpsertRInv, SendToRInv,
       SaveMarkerRInv DEF Deliver
  <1>4. CASE Disturb
    BY <1>4, GiveUpRInv, CrashRInv, ReceiverRInv, SendUnansweredRInv, ReconfigureRInv
       DEF Disturb
  <1>5. CASE (\E i \in Ids : Receive(i)) \/ StoreFile \/ Reply \/ Tick
    BY <1>5, ReceiverRInv
  <1>6. CASE UNCHANGED vars
    <2>1. UNCHANGED <<stage, disk, marker, run, target, mail, made, budget>>
      BY <1>6 DEF vars, billingVars
    <2> QED BY <2>1, StayRInv, SameExcuses DEF RInv, LocalTyped
  <1> QED BY <1>1, <1>2, <1>3, <1>4, <1>5, <1>6 DEF Next

LEMMA RInvariance == Spec => []RInv
  BY InitRInv, NextRInv, PTL DEF Spec

\* A channel gets the report of a date once, and once more at most for every
\* forced run, every killed run and every call that failed (run_report and its
\* delivery marker).
THEOREM ResentForCause == Spec => []ResentOnlyForCause
  <1>1. RInv => ResentOnlyForCause
    <2> SUFFICES ASSUME RInv, NEW c \in Channels
                 PROVE  Len(mail[c]) <= 1 + budget.forced + budget.crashes + budget.faults
      BY DEF ResentOnlyForCause
    <2>1. budget.forced \in Nat /\ budget.crashes \in Nat /\ budget.faults \in Nat
          /\ Len(mail[c]) \in Nat
      BY DEF RInv, LocalTyped, Budgets
    <2> QED BY <2>1 DEF RInv, Sent, Excuses
  <1> QED BY <1>1, RInvariance, PTL
-----------------------------------------------------------------------------
(* The fetch of a run is a fetch of module Billing *)

LEMMA StepBilling == RInv /\ [Next]_vars => [BillingNext]_billingVars
  <1> SUFFICES ASSUME RInv, [Next]_vars PROVE [BillingNext]_billingVars
    OBVIOUS
  <1>1. ASSUME NEW mode \in Modes, Regenerate(mode) PROVE BillingNext
    BY <1>1 DEF Regenerate, BillingNext, RInv, Phase
  <1>2. CASE ReadBilling
    BY <1>2 DEF ReadBilling, BillingNext
  <1>3. CASE BillingFails \/ WritePdf \/ Crash
    BY <1>3 DEF BillingFails, FetchFails, WritePdf, UseAmounts, Crash, BillingNext
  <1>4. ASSUME NEW mode \in Modes, Resume(mode) PROVE UNCHANGED billingVars
    BY <1>4 DEF Resume
  <1>5. CASE WriteJson \/ WriteMarker
    BY <1>5 DEF WriteJson, WriteMarker
  <1>6. CASE Deliver
    BY <1>6 DEF Deliver, SendRequest, RefuseTorn, AnswerArrives, UpsertPdf, UpsertJson,
       Upsert, SendTo, SaveMarker, FinishRun
  <1>7. CASE Disturb /\ ~Crash
    BY <1>7 DEF Disturb, AnswerLost, CallFails, StoreFails, SendUnanswered, Reconfigure,
       Duplicate
  <1>8. ASSUME NEW i \in Ids, Receive(i) PROVE UNCHANGED billingVars
    <2>1. CASE Admit(i)
      BY <2>1 DEF Admit
    <2>2. CASE Refuse(i)
      BY <2>2 DEF Refuse
    <2> QED BY <1>8, <2>1, <2>2 DEF Receive
  <1>9. CASE StoreFile \/ Reply \/ Tick
    BY <1>9 DEF StoreFile, Reply, Tick
  <1>10. CASE UNCHANGED vars
    BY <1>10 DEF vars
  <1> QED BY <1>1, <1>2, <1>3, <1>4, <1>5, <1>6, <1>7, <1>8, <1>9, <1>10 DEF Next, Start

\* Every behaviour of the reporter, whatever is forced, killed or lost, fetches
\* as module Billing says (get_live_report called by run_report).
THEOREM ReporterFetches == Spec => BillingSpec
  <1>1. Init => BillingInit
    BY DEF Init
  <1> QED BY <1>1, RInvariance, StepBilling, PTL DEF Spec, BillingSpec

\* The amounts the reporter writes cover every day exactly once.
THEOREM ReportCountsDaysOnce == Spec => []EveryDayCountedOnce
  BY ReporterFetches, DaysCountedOnce, PTL

\* The reporter reports no usage and zero spending on the answers that show them.
THEOREM ReportZeroIsShown == Spec => []ZeroHasEvidence
  BY ReporterFetches, ZeroIsShown, PTL

-----------------------------------------------------------------------------
(***************************************************************************)
(* The receiver: what was sent is on its way, being executed or            *)
(* remembered, and a run waits for the request it sent.                    *)
(***************************************************************************)
FileNames == {"pdf", "json"}
Pairs == [pdf: Nat, json: Nat]
Requests == [copies: Nat, age: Nat, noted: BOOLEAN, ran: Nat, replace: BOOLEAN,
             to: ScriptTargets \union {"none"}, files: Pairs]
RemoteTyped ==
    /\ drive \in [Targets -> Pairs]
    /\ net \in [Ids -> Requests]
    /\ script \in [id: Nat, left: SUBSET FileNames]

\* A request was executed once if it is remembered.
RequestHolds(i) ==
    /\ net[i].copies <= 2 /\ net[i].age <= Window + 1
    /\ net[i].ran = IF net[i].noted THEN 1 ELSE 0
    /\ net[i].to = "none" => net[i] = NoRequest

\* A file the receiver is done with is the one that was sent.
ScriptHolds ==
    /\ script.id # 0 =>
         /\ script.id \in Ids /\ net[script.id].to # "none"
         /\ \A f \in FileNames \ script.left : drive[net[script.id].to][f] = net[script.id].files[f]
    /\ script.id = 0 => script.left = {}

Remote == RemoteTyped /\ ScriptHolds /\ \A i \in Ids : RequestHolds(i)

\* The run waits for the request it sent, with the files that are on disk.
AwaitHolds ==
    /\ run.pc = "await" =>
         /\ run.id \in Ids /\ net[run.id].to # "none" /\ net[run.id].to = run.status.target
         /\ net[run.id].files = disk /\ net[run.id].age <= Window
         /\ ~run.status.drive
    /\ run.answer # "none" => run.pc = "await"

StatusHolds ==
    /\ marker.drive => marker.target \in Targets
    /\ run.pc # "idle" => run.status.target \in Targets
    /\ run.pc = "oauth" => run.status.target \in OAuthTargets

NetInv == Remote /\ AwaitHolds /\ StatusHolds

LEMMA InitNetInv == Init => NetInv
  <1> SUFFICES ASSUME Init PROVE NetInv
    OBVIOUS
  <1>1. RemoteTyped
    BY DEF Init, RemoteTyped, Pairs, Requests, NoRequest, NotRunning, Absent
  <1>2. ScriptHolds
    BY DEF Init, ScriptHolds, NotRunning
  <1>3. ASSUME NEW i \in Ids PROVE RequestHolds(i)
    BY ReporterBounds DEF Init, RequestHolds, NoRequest
  <1>4. AwaitHolds /\ StatusHolds
    BY DEF Init, AwaitHolds, StatusHolds, NoRun, NoMarker
  <1> QED BY <1>1, <1>2, <1>3, <1>4 DEF NetInv, Remote

\* A step of the run that sends nothing to the receiver.
LEMMA LocalNetInv ==
    ASSUME NetInv, UNCHANGED <<drive, net, script>>,
           run'.pc # "await", run'.answer = "none", StatusHolds'
    PROVE  NetInv'
  <1>1. Remote'
    BY DEF NetInv, Remote, RemoteTyped, ScriptHolds, RequestHolds
  <1>2. AwaitHolds'
    BY DEF AwaitHolds
  <1> QED BY <1>1, <1>2 DEF NetInv

\* A run that ends.
LEMMA EndNetInv ==
    ASSUME NetInv, UNCHANGED <<drive, net, script, marker>>, run' = NoRun
    PROVE  NetInv'
  <1>1. StatusHolds'
    BY DEF NetInv, StatusHolds, NoRun
  <1>2. run'.pc # "await" /\ run'.answer = "none"
    BY DEF NoRun
  <1> QED BY <1>1, <1>2, LocalNetInv

\* An answer reaches the run that waits for it, and changes nothing else of it.
LEMMA AnswerKeeps ==
    ASSUME LocalTyped, NEW i, NEW a \in {"ok", "error"}, Answer(i, a)
    PROVE  /\ run'.pc = run.pc /\ run'.status = run.status /\ run'.mode = run.mode
           /\ run'.made = run.made /\ run'.id = run.id
           /\ run'.answer = run.answer \/ (run'.answer = a /\ run.pc = "await" /\ run.id = i)
  BY DEF Answer, LocalTyped, Runs

\* A step of the receiver leaves the run what it waits for.
LEMMA WaitNetInv ==
    ASSUME NetInv, Remote', UNCHANGED <<disk, marker>>,
           run'.pc = run.pc, run'.status = run.status, run'.id = run.id,
           run'.answer # run.answer => run.pc = "await",
           run.pc = "await" => /\ net'[run.id].to = net[run.id].to
                               /\ net'[run.id].files = net[run.id].files
                               /\ net'[run.id].age <= Window
    PROVE  NetInv'
  <1>1. AwaitHolds'
    BY DEF NetInv, AwaitHolds
  <1>2. StatusHolds'
    BY DEF NetInv, StatusHolds
  <1> QED BY <1>1, <1>2 DEF NetInv

LEMMA LoadedFields ==
    LocalTyped => /\ Loaded.target = target
                  /\ Loaded.drive => marker.drive /\ marker.target = target
                  /\ Loaded.replace => marker.replace /\ marker.target = target
  BY DEF LocalTyped, Loaded, Markers

LEMMA LocalStepNetInv ==
    ASSUME RInv, NetInv,
           \/ \E mode \in Modes : Resume(mode) \/ Regenerate(mode)
           \/ ReadBilling \/ BillingFails \/ WritePdf \/ WriteJson \/ WriteMarker
           \/ RefuseTorn \/ AnswerArrives \/ SaveMarker \/ FinishRun
           \/ AnswerLost \/ CallFails \/ Crash
           \/ \E c \in Channels : SendTo(c) \/ SendUnanswered(c)
           \/ \E t \in Targets : Reconfigure(t)
    PROVE  NetInv'
  <1>0. LocalTyped /\ target \in Targets /\ run \in Runs
    BY DEF RInv, LocalTyped
  <1>a. run.pc # "await" => run.answer = "none"
    BY DEF NetInv, AwaitHolds
  <1>1. ASSUME NEW mode \in Modes, Resume(mode) PROVE NetInv'
    <2>1. UNCHANGED <<drive, net, script, marker>>
          /\ run' = [NoRun EXCEPT !.pc = "deliver", !.made = disk.json, !.status = Loaded]
      BY <1>1 DEF Resume, localVars, remoteVars
    <2>2. run'.pc = "deliver" /\ run'.answer = "none" /\ run'.status.target = target
      BY <1>0, <2>1, LoadedFields DEF NoRun
    <2>3. StatusHolds'
      BY <1>0, <2>1, <2>2 DEF NetInv, StatusHolds
    <2> QED BY <2>1, <2>2, <2>3, LocalNetInv
  <1>2. ASSUME NEW mode \in Modes, Regenerate(mode) PROVE NetInv'
    <2>1. UNCHANGED <<drive, net, script, marker>>
          /\ run' = [NoRun EXCEPT !.pc = "fetch", !.mode = mode,
                                  !.status = FreshMarker(target, mode = "force")]
      BY <1>2 DEF Regenerate, localVars, remoteVars
    <2>2. run'.pc = "fetch" /\ run'.answer = "none" /\ run'.status.target = target
      BY <2>1 DEF NoRun, FreshMarker
    <2>3. StatusHolds'
      BY <1>0, <2>1, <2>2 DEF NetInv, StatusHolds
    <2> QED BY <2>1, <2>2, <2>3, LocalNetInv
  <1>3. ASSUME ReadBilling PROVE NetInv'
    <2>1. UNCHANGED <<drive, net, script, marker, run, disk>> /\ run.pc = "fetch"
      BY <1>3 DEF ReadBilling, localVars, remoteVars
    <2>2. StatusHolds'
      BY <2>1 DEF NetInv, StatusHolds
    <2> QED BY <1>a, <2>1, <2>2, LocalNetInv
  <1>4. ASSUME BillingFails \/ RefuseTorn \/ FinishRun \/ AnswerLost \/ CallFails \/ Crash
        PROVE  NetInv'
    <2>1. UNCHANGED <<drive, net, script, marker>> /\ run' = NoRun
      BY <1>4 DEF BillingFails, RefuseTorn, FinishRun, AnswerLost, CallFails, Crash, EndRun,
         localVars, remoteVars
    <2> QED BY <2>1, EndNetInv
  <1>5. ASSUME WritePdf PROVE NetInv'
    <2>1. /\ UNCHANGED <<drive, net, script, marker>> /\ run.pc = "fetch"
          /\ run' = [run EXCEPT !.pc = "json", !.made = made']
      BY <1>5 DEF WritePdf, remoteVars
    <2>2. run'.pc = "json" /\ run'.answer = run.answer /\ run'.status = run.status
      BY <1>0, <2>1 DEF Runs
    <2>3. StatusHolds'
      BY <2>1, <2>2 DEF NetInv, StatusHolds
    <2> QED BY <1>a, <2>1, <2>2, <2>3, LocalNetInv
  <1>6. ASSUME WriteJson PROVE NetInv'
    <2>1. /\ UNCHANGED <<drive, net, script, marker>> /\ run.pc = "json"
          /\ run' = NoRun \/ run' = [run EXCEPT !.pc = "mark"]
      BY <1>6 DEF WriteJson, EndRun, Goto, remoteVars
    <2>2. CASE run' = [run EXCEPT !.pc = "mark"]
      <3>1. run'.pc = "mark" /\ run'.answer = run.answer /\ run'.status = run.status
        BY <1>0, <2>2 DEF Runs
      <3>2. StatusHolds'
        BY <2>1, <3>1 DEF NetInv, StatusHolds
      <3> QED BY <1>a, <2>1, <3>1, <3>2, LocalNetInv
    <2> QED BY <2>1, <2>2, EndNetInv
  <1>7. ASSUME WriteMarker \/ SaveMarker PROVE NetInv'
    <2>1. /\ UNCHANGED <<drive, net, script>> /\ run.pc \in {"mark", "save"}
          /\ marker' = run.status /\ run' = [run EXCEPT !.pc = "deliver"]
      BY <1>7 DEF WriteMarker, SaveMarker, Goto, remoteVars
    <2>2. run'.pc = "deliver" /\ run'.answer = run.answer /\ run'.status = run.status
      BY <1>0, <2>1 DEF Runs
    <2>3. StatusHolds'
      BY <2>1, <2>2 DEF NetInv, StatusHolds
    <2> QED BY <1>a, <2>1, <2>2, <2>3, LocalNetInv
  <1>8. ASSUME AnswerArrives PROVE NetInv'
    <2>1. /\ UNCHANGED <<drive, net, script, marker>> /\ run.pc = "await"
          /\ \/ run' = NoRun
             \/ run' = [run EXCEPT !.pc = "save", !.status = Uploaded(run.status), !.id = 0,
                                   !.answer = "none"]
      BY <1>8 DEF AnswerArrives, EndRun, localVars, remoteVars
    <2>2. CASE run' = [run EXCEPT !.pc = "save", !.status = Uploaded(run.status), !.id = 0,
                                  !.answer = "none"]
      <3>1. run'.pc = "save" /\ run'.answer = "none" /\ run'.status = Uploaded(run.status)
        BY <1>0, <2>2 DEF Runs
      <3>2. run'.status.target = run.status.target
        BY <1>0, <3>1 DEF Uploaded, Runs, Markers
      <3>3. StatusHolds'
        BY <2>1, <3>1, <3>2 DEF NetInv, StatusHolds
      <3> QED BY <2>1, <3>1, <3>3, LocalNetInv
    <2> QED BY <2>1, <2>2, EndNetInv
  <1>9. ASSUME NEW c \in Channels, SendTo(c) PROVE NetInv'
    <2> DEFINE u == [run.status EXCEPT !.sent = @ \union {c}]
    <2>1. /\ UNCHANGED <<drive, net, script, marker>> /\ run.pc = "deliver"
          /\ run' = [run EXCEPT !.pc = "save", !.status = u]
      BY <1>9 DEF SendTo, localVars
    <2>2. u.target = run.status.target
      BY <1>0 DEF Runs, Markers
    <2> HIDE DEF u
    <2>3. run'.pc = "save" /\ run'.answer = run.answer /\ run'.status = u
      BY <1>0, <2>1 DEF Runs
    <2>4. StatusHolds'
      BY <2>1, <2>2, <2>3 DEF NetInv, StatusHolds
    <2> QED BY <1>a, <2>1, <2>3, <2>4, LocalNetInv
  <1>10. ASSUME NEW c \in Channels, SendUnanswered(c) PROVE NetInv'
    <2>1. /\ UNCHANGED <<drive, net, script, marker, disk>> /\ run.pc = "deliver"
          /\ run' = NoRun \/ run' = run
      BY <1>10 DEF SendUnanswered, EndRun, localVars
    <2>2. CASE run' = run
      <3>1. StatusHolds'
        BY <2>1, <2>2 DEF NetInv, StatusHolds
      <3> QED BY <1>a, <2>1, <2>2, <3>1, LocalNetInv
    <2> QED BY <2>1, <2>2, EndNetInv
  <1>11. ASSUME NEW t \in Targets, Reconfigure(t) PROVE NetInv'
    <2>1. UNCHANGED <<drive, net, script, marker, run, disk>> /\ run.pc = "idle"
      BY <1>11 DEF Reconfigure, remoteVars
    <2>2. StatusHolds'
      BY <2>1 DEF NetInv, StatusHolds
    <2> QED BY <1>a, <2>1, <2>2, LocalNetInv
  <1> QED BY <1>1, <1>2, <1>3, <1>4, <1>5, <1>6, <1>7, <1>8, <1>9, <1>10, <1>11

-----------------------------------------------------------------------------
(* The steps that change requests, destinations or the receiver *)

SameRequest(i) ==
    /\ net'[i].to = net[i].to /\ net'[i].files = net[i].files
    /\ net'[i].replace = net[i].replace

\* A step that changes only how often request i is on its way or was handled.
LEMMA RecountRequest ==
    ASSUME RemoteTyped, NEW i \in Ids, NEW n \in Nat,
           \/ net' = [net EXCEPT ![i].copies = n]
           \/ net' = [net EXCEPT ![i].copies = n, ![i].noted = TRUE, ![i].ran = 1]
    PROVE  /\ net' \in [Ids -> Requests]
           /\ \A j \in Ids : SameRequest(j) /\ net'[j].age = net[j].age
           /\ \A j \in Ids \ {i} : net'[j] = net[j]
           /\ net'[i].copies = n
           /\ \/ net'[i].noted = net[i].noted /\ net'[i].ran = net[i].ran
              \/ net'[i].noted /\ net'[i].ran = 1
  <1> DEFINE q == net'[i]
  <1>1. net[i] \in Requests /\ net \in [Ids -> Requests]
    BY DEF RemoteTyped
  <1>2. /\ q \in Requests
        /\ q.to = net[i].to /\ q.files = net[i].files /\ q.replace = net[i].replace
        /\ q.age = net[i].age /\ q.copies = n
        /\ (q.noted = net[i].noted /\ q.ran = net[i].ran) \/ (q.noted /\ q.ran = 1)
    BY <1>1 DEF Requests
  <1>3. net' = [net EXCEPT ![i] = q]
    BY <1>1 DEF Requests
  <1> HIDE DEF q
  <1>4. net' \in [Ids -> Requests]
    BY <1>1, <1>2, <1>3
  <1>5. \A j \in Ids : net'[j] = IF j = i THEN q ELSE net[j]
    BY <1>1, <1>3
  <1> QED BY <1>2, <1>4, <1>5 DEF SameRequest

\* Requests that keep their files leave the receiver what it is executing.
LEMMA SameScript ==
    ASSUME Remote, UNCHANGED <<drive, script>>, \A j \in Ids : SameRequest(j)
    PROVE  ScriptHolds'
  BY DEF Remote, ScriptHolds, SameRequest

\* Admit notes only what it has not executed yet.
LEMMA AdmitRemote ==
    ASSUME Remote, NEW i \in Ids, Admit(i)
    PROVE  /\ Remote' /\ \A j \in Ids : SameRequest(j) /\ net'[j].age = net[j].age
  <1>0. RemoteTyped /\ net[i] \in Requests /\ RequestHolds(i)
    BY DEF Remote, RemoteTyped
  <1>1. ~net[i].noted /\ net[i].ran = 0 /\ net[i].copies > 0 /\ net[i].to # "none"
        /\ net[i].copies \in Nat /\ script.id = 0
    BY <1>0 DEF Admit, Admissible, Fresh, Remembered, Kept, RequestHolds, Requests, NoRequest
  <1>2. net' = [net EXCEPT ![i].copies = net[i].copies - 1, ![i].noted = TRUE, ![i].ran = 1]
    <2>1. net' = [net EXCEPT ![i].copies = net[i].copies - 1, ![i].noted = TRUE,
                             ![i].ran = net[i].ran + 1]
      BY <1>0 DEF Admit, Noted, RemoteTyped, Requests
    <2> QED BY <1>1, <2>1
  <1>3. /\ net' \in [Ids -> Requests]
        /\ \A j \in Ids : SameRequest(j) /\ net'[j].age = net[j].age
        /\ \A j \in Ids \ {i} : net'[j] = net[j]
        /\ net'[i].copies = net[i].copies - 1
        /\ \/ net'[i].noted = net[i].noted /\ net'[i].ran = net[i].ran
           \/ net'[i].noted /\ net'[i].ran = 1
    <2>1. net[i].copies - 1 \in Nat
      BY <1>1
    <2> QED BY <1>0, <1>2, <2>1, RecountRequest
  <1>4. \A j \in Ids : RequestHolds(j)'
    BY <1>1, <1>3 DEF Remote, RequestHolds, SameRequest
  <1>5. drive' = drive
    BY DEF Admit
  <1>6. CASE script' = [id |-> i, left |-> {f \in {"pdf", "json"} :
                                             drive[net[i].to][f] # net[i].files[f]}]
    <2>1. i \in Nat
      BY ReporterBounds
    <2>2. script' \in [id: Nat, left: SUBSET FileNames]
      BY <1>6, <2>1 DEF FileNames
    <2>3. ScriptHolds'
      BY <1>1, <1>3, <1>5, <1>6, ReporterBounds DEF ScriptHolds, FileNames, SameRequest
    <2> QED BY <1>0, <1>3, <1>4, <1>5, <2>2, <2>3 DEF Remote, RemoteTyped
  <1>7. CASE script' = script
    BY <1>0, <1>3, <1>4, <1>5, <1>7, SameScript DEF Remote, RemoteTyped
  <1> QED BY <1>3, <1>6, <1>7 DEF Admit

LEMMA RefuseRemote ==
    ASSUME Remote, NEW i \in Ids, Refuse(i)
    PROVE  /\ Remote' /\ \A j \in Ids : SameRequest(j) /\ net'[j].age = net[j].age
  <1>0. RemoteTyped /\ net[i] \in Requests /\ RequestHolds(i)
    BY DEF Remote, RemoteTyped
  <1>1. net[i].copies > 0 /\ net[i].copies \in Nat /\ net[i].to # "none" /\ net[i].ran \in Nat
        /\ net[i].noted \in BOOLEAN /\ UNCHANGED <<drive, script>>
    BY <1>0 DEF Refuse, RequestHolds, Requests, NoRequest
  <1>2. net' = [net EXCEPT ![i].copies = net[i].copies - 1]
    BY <1>0 DEF Refuse, RemoteTyped, Requests
  <1>3. /\ net' \in [Ids -> Requests]
        /\ \A j \in Ids : SameRequest(j) /\ net'[j].age = net[j].age
        /\ \A j \in Ids \ {i} : net'[j] = net[j]
        /\ net'[i].copies = net[i].copies - 1
        /\ \/ net'[i].noted = net[i].noted /\ net'[i].ran = net[i].ran
           \/ net'[i].noted /\ net'[i].ran = 1
    <2>1. net[i].copies - 1 \in Nat
      BY <1>1
    <2> QED BY <1>0, <1>1, <1>2, <2>1, RecountRequest
  <1>4. \A j \in Ids : RequestHolds(j)'
    BY <1>1, <1>3 DEF Remote, RequestHolds, SameRequest
  <1> QED BY <1>0, <1>1, <1>3, <1>4, SameScript DEF Remote, RemoteTyped

LEMMA DuplicateRemote ==
    ASSUME Remote, NEW i \in Ids, Duplicate(i)
    PROVE  /\ Remote' /\ \A j \in Ids : SameRequest(j) /\ net'[j].age = net[j].age
  <1>0. RemoteTyped /\ net[i] \in Requests /\ RequestHolds(i)
    BY DEF Remote, RemoteTyped
  <1>1. net[i].copies < 2 /\ net[i].copies \in Nat /\ net[i].to # "none" /\ net[i].ran \in Nat
        /\ net[i].noted \in BOOLEAN /\ UNCHANGED <<drive, script>>
    BY <1>0 DEF Duplicate, Requests
  <1>2. net' = [net EXCEPT ![i].copies = net[i].copies + 1]
    BY <1>0 DEF Duplicate, RemoteTyped, Requests
  <1>3. /\ net' \in [Ids -> Requests]
        /\ \A j \in Ids : SameRequest(j) /\ net'[j].age = net[j].age
        /\ \A j \in Ids \ {i} : net'[j] = net[j]
        /\ net'[i].copies = net[i].copies + 1
        /\ \/ net'[i].noted = net[i].noted /\ net'[i].ran = net[i].ran
           \/ net'[i].noted /\ net'[i].ran = 1
    <2>1. net[i].copies + 1 \in Nat
      BY <1>1
    <2> QED BY <1>0, <1>1, <1>2, <2>1, RecountRequest
  <1>4. \A j \in Ids : RequestHolds(j)'
    BY <1>1, <1>3 DEF Remote, RequestHolds, SameRequest
  <1> QED BY <1>0, <1>1, <1>3, <1>4, SameScript DEF Remote, RemoteTyped

\* The clock forgets only what is out of date and not being handled.
LEMMA TickRemote ==
    ASSUME Remote, Tick
    PROVE  /\ Remote'
           /\ \A j \in Ids : \/ SameRequest(j)
                             \/ net'[j] = NoRequest /\ ~Fresh(j) /\ script.id # j
           /\ \A j \in Ids : Fresh(j) => net'[j].age <= net[j].age + 1
  <1> DEFINE Gone(j) == net[j].to = "none" \/ (~Fresh(j) /\ net[j].copies = 0 /\ script.id # j)
             age(j) == IF Fresh(j) THEN net[j].age + 1 ELSE net[j].age
  <1>0. RemoteTyped /\ \A j \in Ids : net[j] \in Requests /\ RequestHolds(j)
    BY DEF Remote, RemoteTyped
  <1>1. \A j \in Ids : net'[j] = IF Gone(j) THEN NoRequest ELSE [net[j] EXCEPT !.age = age(j)]
    BY <1>0 DEF Tick, Requests
  <1>2. ASSUME NEW j \in Ids
        PROVE  /\ net'[j] \in Requests /\ RequestHolds(j)'
               /\ \/ SameRequest(j)
                  \/ net'[j] = NoRequest /\ ~Fresh(j) /\ script.id # j
               /\ Fresh(j) => net'[j].age <= net[j].age + 1
    <2>0. Window \in Nat /\ net[j].age \in Nat
      BY <1>0, ReporterBounds DEF Requests
    <2>1. CASE Gone(j)
      <3>1. net'[j] = NoRequest
        BY <1>1, <2>1
      <3>2. NoRequest \in Requests
        BY DEF NoRequest, Requests, Pairs, Absent
      <3>3. RequestHolds(j)'
        BY <2>0, <3>1 DEF RequestHolds, NoRequest
      <3>4. SameRequest(j) \/ (~Fresh(j) /\ script.id # j)
        <4>1. CASE ~Fresh(j) /\ net[j].copies = 0 /\ script.id # j
          BY <4>1
        <4>2. CASE net[j].to = "none" /\ Fresh(j)
          BY <1>0, <3>1, <4>2 DEF Fresh, RequestHolds, SameRequest, NoRequest
        <4>3. CASE net[j].to = "none" /\ ~Fresh(j)
          BY <1>0, <4>3, ReporterBounds DEF Remote, ScriptHolds
        <4> QED BY <2>1, <4>1, <4>2, <4>3
      <3> QED BY <2>0, <3>1, <3>2, <3>3, <3>4 DEF NoRequest
    <2>2. CASE ~Gone(j)
      <3> DEFINE a == age(j)
      <3>1. a \in Nat /\ a <= Window + 1 /\ a <= net[j].age + 1
        BY <1>0, <2>0 DEF Fresh, RequestHolds
      <3>2. net'[j] = [net[j] EXCEPT !.age = a]
        BY <1>1, <2>2
      <3> HIDE DEF a
      <3>3. /\ net'[j] \in Requests /\ SameRequest(j) /\ net'[j].age = a
            /\ net'[j].copies = net[j].copies /\ net'[j].noted = net[j].noted
            /\ net'[j].ran = net[j].ran
        BY <1>0, <3>1, <3>2 DEF Requests, SameRequest
      <3> QED BY <1>0, <2>2, <3>1, <3>3 DEF RequestHolds, SameRequest
    <2> QED BY <2>1, <2>2
  <1>3. UNCHANGED <<drive, script>>
    BY DEF Tick
  <1>4. net' \in [Ids -> Requests]
    <2>1. net' = [j \in Ids |-> net'[j]]
      BY DEF Tick
    <2> QED BY <1>2, <2>1
  <1>5. ScriptHolds'
    BY <1>2, <1>3 DEF Remote, ScriptHolds, SameRequest
  <1> QED BY <1>0, <1>2, <1>3, <1>4, <1>5 DEF Remote, RemoteTyped

\* A new request takes the place of one that nobody knows any more.
LEMMA SendRequestRemote ==
    ASSUME LocalTyped, Remote, run.status.target \in Targets, NEW i \in Ids, SendRequest(i)
    PROVE  /\ Remote' /\ \A j \in Ids \ {i} : net'[j] = net[j]
           /\ net'[i].to = run.status.target /\ net'[i].files = disk /\ net'[i].age = 0
           /\ net'[i].replace = run.status.replace /\ script.id # i
           /\ UNCHANGED <<drive, script>>
  <1> DEFINE q == [NoRequest EXCEPT !.copies = 1, !.replace = run.status.replace,
                                    !.to = run.status.target, !.files = disk]
  <1>0. RemoteTyped /\ \A j \in Ids : RequestHolds(j)
    BY DEF Remote
  <1>1. /\ net' = [net EXCEPT ![i] = q] /\ script.id # i /\ UNCHANGED <<drive, script>>
        /\ run.status.target \in ScriptTargets
    BY DEF SendRequest, Free
  <1>2. run.status.replace \in BOOLEAN /\ disk \in Pairs
    BY DEF LocalTyped, Runs, Markers, Pairs
  <1>3. /\ q \in Requests /\ q.copies = 1 /\ q.age = 0 /\ q.noted = FALSE /\ q.ran = 0
        /\ q.to = run.status.target /\ q.files = disk /\ q.replace = run.status.replace
    BY <1>1, <1>2 DEF NoRequest, Requests
  <1> HIDE DEF q
  <1>4. net' \in [Ids -> Requests] /\ \A j \in Ids : net'[j] = IF j = i THEN q ELSE net[j]
    BY <1>0, <1>1, <1>3 DEF RemoteTyped
  <1>5. q.to # "none"
    BY <1>3, TargetsAssumption
  <1>6. ASSUME NEW j \in Ids PROVE RequestHolds(j)'
    <2>1. CASE j = i
      BY <1>3, <1>4, <1>5, <2>1, ReporterBounds DEF RequestHolds
    <2>2. CASE j # i
      BY <1>0, <1>4, <2>2 DEF RequestHolds
    <2> QED BY <2>1, <2>2
  <1>7. ScriptHolds'
    BY <1>1, <1>4 DEF Remote, ScriptHolds
  <1> QED BY <1>0, <1>1, <1>3, <1>4, <1>6, <1>7 DEF Remote, RemoteTyped

\* The OAuth backend writes where no request goes.
LEMMA UpsertRemote ==
    ASSUME LocalTyped, Remote, NEW file \in FileNames, NEW from, NEW to, Upsert(file, from, to)
    PROVE  /\ Remote' /\ run.status.target \in OAuthTargets
           /\ \A t \in Targets, f \in FileNames :
                 drive'[t][f] = IF /\ t = run.status.target /\ f = file
                                   /\ drive[t][f] = Absent \/ run.status.replace
                                THEN disk[f] ELSE drive[t][f]
  <1> DEFINE u == run.status.target
  <1>0. drive \in [Targets -> Pairs] /\ disk \in Pairs /\ u \in OAuthTargets /\ u \in Targets
        /\ net \in [Ids -> Requests] /\ script \in [id: Nat, left: SUBSET FileNames]
        /\ UNCHANGED <<net, script>>
    BY DEF Remote, RemoteTyped, LocalTyped, Pairs, Upsert, Targets
  <1>1. drive' = IF drive[u][file] # Absent /\ ~run.status.replace THEN drive
                 ELSE [drive EXCEPT ![u][file] = disk[file]]
    BY DEF Upsert, Upserted
  <1>2. /\ drive' \in [Targets -> Pairs]
        /\ \A t \in Targets, f \in FileNames :
              drive'[t][f] = IF t = u /\ f = file /\ (drive[t][f] = Absent \/ run.status.replace)
                             THEN disk[f] ELSE drive[t][f]
    <2>1. CASE drive[u][file] # Absent /\ ~run.status.replace
      BY <1>0, <1>1, <2>1
    <2>2. CASE ~(drive[u][file] # Absent /\ ~run.status.replace)
      <3> DEFINE p == [drive[u] EXCEPT ![file] = disk[file]]
      <3>1. drive' = [drive EXCEPT ![u] = p]
        BY <1>1, <2>2
      <3>2. p \in Pairs /\ \A f \in FileNames : p[f] = IF f = file THEN disk[f] ELSE drive[u][f]
        <4>1. CASE file = "pdf"
          BY <1>0, <4>1 DEF Pairs, FileNames
        <4>2. CASE file = "json"
          BY <1>0, <4>2 DEF Pairs, FileNames
        <4> QED BY <4>1, <4>2 DEF FileNames
      <3> HIDE DEF p
      <3>3. \A t \in Targets : drive'[t] = IF t = u THEN p ELSE drive[t]
        BY <1>0, <3>1
      <3> QED BY <1>0, <2>2, <3>1, <3>2, <3>3
    <2> QED BY <2>1, <2>2
  <1>3. ScriptHolds'
    <2>1. script.id # 0 => net[script.id].to \in ScriptTargets /\ net[script.id].to \in Targets
                           /\ net[script.id].to # u
      BY <1>0, TargetsAssumption DEF Remote, ScriptHolds, Requests, Targets
    <2> QED BY <1>0, <1>2, <2>1 DEF Remote, ScriptHolds
  <1>4. \A j \in Ids : RequestHolds(j)'
    BY <1>0 DEF Remote, RequestHolds
  <1> QED BY <1>0, <1>2, <1>3, <1>4 DEF Remote, RemoteTyped

\* A file the receiver stores is the one that was sent.
LEMMA StoreFileRemote ==
    ASSUME Remote, StoreFile
    PROVE  /\ Remote' /\ script.id \in Ids /\ net[script.id].to \in ScriptTargets
           /\ script'.id = script.id /\ script'.left \subseteq script.left
           /\ \A t \in Targets, f \in FileNames :
                 drive'[t][f] = IF t = net[script.id].to /\ f \in script.left \ script'.left
                                THEN net[script.id].files[f] ELSE drive[t][f]
  <1> DEFINE r == net[script.id]   u == r.to   file == NextFile
             left == script.left \ {file}
  <1>0. /\ drive \in [Targets -> Pairs] /\ net \in [Ids -> Requests] /\ UNCHANGED net
        /\ script \in [id: Nat, left: SUBSET FileNames] /\ script.left # {}
    BY DEF Remote, RemoteTyped, StoreFile
  <1>1. script.id \in Ids /\ r \in Requests /\ u # "none"
    BY <1>0 DEF Remote, ScriptHolds
  <1>2. u \in ScriptTargets /\ u \in Targets /\ r.files \in Pairs
    BY <1>1 DEF Requests, Targets
  <1>3. file \in script.left /\ file \in FileNames
    BY <1>0 DEF NextFile, FileNames
  <1>4. drive' = [drive EXCEPT ![u][file] = r.files[file]]
        /\ script' = [script EXCEPT !.left = left]
    BY DEF StoreFile
  <1> HIDE DEF file
  <1>5. /\ left \subseteq script.left /\ left \in SUBSET FileNames
        /\ script.left \ left = {file}
    BY <1>0, <1>3
  <1> HIDE DEF left
  <1>6. /\ script' \in [id: Nat, left: SUBSET FileNames]
        /\ script'.id = script.id /\ script'.left = left
    BY <1>0, <1>4, <1>5
  <1>7. /\ drive' \in [Targets -> Pairs]
        /\ \A t \in Targets, f \in FileNames :
              drive'[t][f] = IF t = u /\ f = file THEN r.files[f] ELSE drive[t][f]
    <2> DEFINE p == [drive[u] EXCEPT ![file] = r.files[file]]
    <2>1. drive' = [drive EXCEPT ![u] = p]
      BY <1>4
    <2>2. p \in Pairs /\ \A f \in FileNames : p[f] = IF f = file THEN r.files[f] ELSE drive[u][f]
      <3>1. drive[u] \in Pairs
        BY <1>0, <1>2
      <3>2. CASE file = "pdf"
        BY <1>2, <3>1, <3>2 DEF Pairs, FileNames
      <3>3. CASE file = "json"
        BY <1>2, <3>1, <3>3 DEF Pairs, FileNames
      <3> QED BY <1>3, <3>2, <3>3 DEF FileNames
    <2> HIDE DEF p
    <2>3. \A t \in Targets : drive'[t] = IF t = u THEN p ELSE drive[t]
      BY <1>0, <2>1
    <2> QED BY <1>0, <1>2, <2>1, <2>2, <2>3
  <1>8. ScriptHolds'
    <2>1. \A f \in FileNames \ left : drive'[u][f] = r.files[f]
      BY <1>1, <1>2, <1>5, <1>7 DEF Remote, ScriptHolds
    <2> QED BY <1>0, <1>1, <1>6, <2>1, ReporterBounds DEF ScriptHolds
  <1>9. \A j \in Ids : RequestHolds(j)'
    BY <1>0 DEF Remote, RequestHolds
  <1> QED BY <1>0, <1>1, <1>2, <1>5, <1>6, <1>7, <1>8, <1>9 DEF Remote, RemoteTyped

\* The receiver is done, or gives up.
LEMMA ReleaseRemote ==
    ASSUME Remote, Reply \/ StoreFails
    PROVE  Remote' /\ script' = NotRunning /\ UNCHANGED <<drive, net>>
  <1>1. script' = NotRunning /\ UNCHANGED <<drive, net>>
    BY DEF Reply, StoreFails
  <1> QED BY <1>1 DEF Remote, RemoteTyped, ScriptHolds, RequestHolds, NotRunning

LEMMA RemoteStepNetInv ==
    ASSUME RInv, NetInv,
           \/ \E i \in Ids : SendRequest(i) \/ Receive(i) \/ Duplicate(i)
           \/ UpsertPdf \/ UpsertJson \/ StoreFile \/ StoreFails \/ Reply \/ Tick
    PROVE  NetInv'
  <1>0. LocalTyped /\ Remote /\ run \in Runs
    BY DEF RInv, LocalTyped, NetInv
  <1>1. ASSUME NEW i \in Ids, SendRequest(i) PROVE NetInv'
    <2>1. /\ run.pc = "deliver" /\ ~run.status.drive /\ UNCHANGED <<disk, marker>>
          /\ run' = [run EXCEPT !.pc = "await", !.id = i, !.answer = "none"]
      BY <1>1 DEF SendRequest, localVars
    <2>2. run'.pc = "await" /\ run'.id = i /\ run'.answer = "none" /\ run'.status = run.status
      BY <1>0, <2>1 DEF Runs
    <2>3. run.status.target \in Targets
      BY <2>1 DEF NetInv, StatusHolds
    <2>4. /\ Remote' /\ net'[i].to = run.status.target /\ net'[i].files = disk
          /\ net'[i].age = 0
      BY <1>0, <1>1, <2>3, SendRequestRemote
    <2>5. AwaitHolds'
      BY <2>1, <2>2, <2>3, <2>4, TargetsAssumption, ReporterBounds DEF AwaitHolds
    <2>6. StatusHolds'
      BY <2>1, <2>2 DEF NetInv, StatusHolds
    <2> QED BY <2>4, <2>5, <2>6 DEF NetInv
  <1>2. ASSUME NEW i \in Ids, Receive(i) \/ Duplicate(i) PROVE NetInv'
    <2>1. Remote' /\ \A j \in Ids : SameRequest(j) /\ net'[j].age = net[j].age
      BY <1>0, <1>2, AdmitRemote, RefuseRemote, DuplicateRemote DEF Receive
    <2>2. UNCHANGED <<disk, marker>> /\ (run' = run \/ Answer(i, "error"))
      BY <1>2 DEF Receive, Admit, Refuse, Duplicate, localVars
    <2>3. /\ run'.pc = run.pc /\ run'.status = run.status /\ run'.id = run.id
          /\ run'.answer # run.answer => run.pc = "await"
      BY <1>0, <2>2, AnswerKeeps
    <2> QED BY <2>1, <2>2, <2>3, WaitNetInv DEF NetInv, AwaitHolds, SameRequest
  <1>3. ASSUME UpsertPdf \/ UpsertJson PROVE NetInv'
    <2>1. PICK file \in FileNames, from \in {"deliver", "oauth"}, to \in {"oauth", "save"} :
             /\ Upsert(file, from, to)
             /\ <<from, to>> \in {<<"deliver", "oauth">>, <<"oauth", "save">>}
      BY <1>3 DEF UpsertPdf, UpsertJson, FileNames
    <2>2. Remote' /\ run.status.target \in OAuthTargets /\ run.status.target \in Targets
      BY <1>0, <2>1, UpsertRemote DEF Targets
    <2>3. UNCHANGED <<disk, marker>> /\ run.pc = from
          /\ \/ run' = NoRun
             \/ run' = [run EXCEPT !.pc = to,
                                   !.status = IF to = "save" THEN Uploaded(run.status) ELSE run.status]
      BY <2>1 DEF Upsert, EndRun, localVars
    <2>4. CASE run' = NoRun
      <3>1. AwaitHolds' /\ StatusHolds'
        BY <2>3, <2>4 DEF NetInv, AwaitHolds, StatusHolds, NoRun
      <3> QED BY <2>2, <3>1 DEF NetInv
    <2>5. CASE run' = [run EXCEPT !.pc = to,
                                  !.status = IF to = "save" THEN Uploaded(run.status) ELSE run.status]
      <3>1. /\ run'.pc = to /\ run'.answer = run.answer
            /\ run'.status \in {run.status, Uploaded(run.status)}
        BY <1>0, <2>5 DEF Runs
      <3>2. run'.status.target = run.status.target
        BY <1>0, <3>1 DEF Uploaded, Runs, Markers
      <3>3. to \in {"oauth", "save"} /\ from \in {"deliver", "oauth"}
        BY <2>1
      <3>4. AwaitHolds'
        BY <2>3, <3>1, <3>3 DEF NetInv, AwaitHolds
      <3>5. StatusHolds'
        BY <2>2, <2>3, <3>1, <3>2 DEF NetInv, StatusHolds
      <3> QED BY <2>2, <3>4, <3>5 DEF NetInv
    <2> QED BY <2>3, <2>4, <2>5
  <1>4. ASSUME StoreFile \/ StoreFails \/ Reply PROVE NetInv'
    <2>1. Remote' /\ UNCHANGED <<net, disk, marker>>
      BY <1>0, <1>4, StoreFileRemote, ReleaseRemote DEF StoreFile, StoreFails, Reply, localVars
    <2>2. run' = run \/ \E a \in {"ok", "error"} : Answer(script.id, a)
      BY <1>4 DEF StoreFile, StoreFails, Reply
    <2>3. /\ run'.pc = run.pc /\ run'.status = run.status /\ run'.id = run.id
          /\ run'.answer # run.answer => run.pc = "await"
      BY <1>0, <2>2, AnswerKeeps
    <2> QED BY <2>1, <2>3, WaitNetInv DEF NetInv, AwaitHolds
  <1>5. ASSUME Tick PROVE NetInv'
    <2>1. UNCHANGED <<disk, marker, run>> /\ (run.pc = "await" => net[run.id].age < Window)
      BY <1>5 DEF Tick, localVars
    <2>2. /\ Remote'
          /\ \A j \in Ids : SameRequest(j) \/ ~Fresh(j)
          /\ \A j \in Ids : Fresh(j) => net'[j].age <= net[j].age + 1
      BY <1>0, <1>5, TickRemote
    <2>3. ASSUME run.pc = "await"
          PROVE  SameRequest(run.id) /\ net'[run.id].age <= Window
      <3>1. run.id \in Ids /\ net[run.id].age < Window
        BY <2>1, <2>3 DEF NetInv, AwaitHolds
      <3>2. net[run.id].age \in Nat /\ Window \in Nat /\ net'[run.id].age \in Nat
        BY <1>0, <2>2, <3>1, ReporterBounds DEF Remote, RemoteTyped, Requests
      <3> QED BY <2>2, <3>1, <3>2 DEF Fresh
    <2> QED BY <2>1, <2>2, <2>3, WaitNetInv DEF SameRequest
  <1> QED BY <1>1, <1>2, <1>3, <1>4, <1>5

LEMMA NextNetInv == RInv /\ NetInv /\ [Next]_vars => NetInv'
  <1> SUFFICES ASSUME RInv, NetInv, [Next]_vars PROVE NetInv'
    OBVIOUS
  <1>1. CASE Start \/ ReadBilling \/ BillingFails \/ WritePdf \/ WriteJson \/ WriteMarker
    BY <1>1, LocalStepNetInv DEF Start
  <1>2. CASE Deliver
    BY <1>2, LocalStepNetInv, RemoteStepNetInv DEF Deliver
  <1>3. CASE Disturb
    BY <1>3, LocalStepNetInv, RemoteStepNetInv DEF Disturb
  <1>4. CASE (\E i \in Ids : Receive(i)) \/ StoreFile \/ Reply \/ Tick
    BY <1>4, RemoteStepNetInv
  <1>5. CASE UNCHANGED vars
    <2>1. UNCHANGED <<disk, marker, run, drive, net, script>>
      BY <1>5 DEF vars
    <2>2. Remote'
      BY <2>1 DEF NetInv, Remote, RemoteTyped, ScriptHolds, RequestHolds
    <2> QED BY <2>1, <2>2, WaitNetInv DEF NetInv, AwaitHolds
  <1> QED BY <1>1, <1>2, <1>3, <1>4, <1>5 DEF Next

LEMMA NetInvariance == Spec => []NetInv
  BY InitNetInv, NextNetInv, RInvariance, PTL DEF Spec, Init

\* A request that reaches the receiver twice is executed once, as long as it is
\* known (doPost remembers its nonce while its timestamp is accepted).
THEOREM ReplaysAreRefused == Spec => []ExecutedOnce
  <1>1. NetInv => ExecutedOnce
    BY DEF NetInv, Remote, RequestHolds, ExecutedOnce
  <1> QED BY <1>1, NetInvariance, PTL

-----------------------------------------------------------------------------
(***************************************************************************)
(* Snapshots: what the disk, the destinations and the channels hold, as    *)
(* long as no forced run was killed and at most one was started.           *)
(***************************************************************************)
Sending == {"deliver", "await", "oauth", "save"}
Rewriting == {"json", "mark"}
Orderly == ~Cut /\ budget.forced <= 1

\* Only a forced run replaces files, and its delivery starts anew.
ModeHolds ==
    /\ run.mode = "force" => budget.forced > 0
    /\ run.pc \in Writing => ~run.status.drive /\ (run.status.replace => run.mode = "force")
    /\ budget.forced = 0 => ~marker.replace /\ ~run.status.replace

\* What a forced run sends is what is on disk.
ReplaceHolds ==
    \A i \in Ids : net[i].replace => /\ net[i].files = disk /\ run.pc \notin Writing
                                     /\ budget.forced > 0

\* The files on disk belong together once they are marked.
DiskHolds ==
    /\ run.pc \in Sending => run.made = disk.json
    /\ run.pc \in Rewriting => run.made = made /\ made > 0 /\ disk.pdf = made
    /\ run.pc = "mark" => disk.json = made
    /\ Marked /\ run.pc \notin Rewriting => disk.pdf = disk.json /\ disk.json # Absent
    /\ Marked /\ run.pc \in Writing => run.mode = "force"

\* Destination t holds the snapshot on disk, and what the receiver is still to
\* write there is part of it.
Settled(t) ==
    /\ drive[t] = disk
    /\ script.id # 0 /\ net[script.id].to = t => script.left = {} \/ net[script.id].files = disk
\* After a forced run the OAuth backend compares names only.
Counts(t) == t \in OAuthTargets => budget.forced = 0

SettledHolds ==
    /\ marker.drive /\ run.pc \notin Rewriting /\ Counts(marker.target) => Settled(marker.target)
    /\ run.pc \in Sending /\ run.status.drive /\ Counts(run.status.target)
          => Settled(run.status.target)
    /\ run.answer = "ok" => Settled(run.status.target)
    /\ run.pc = "oauth" /\ budget.forced = 0 => drive[run.status.target].pdf = disk.pdf

\* Nothing has left the machine before there is a marker.
NothingSent == /\ run.pc \notin Sending
               /\ \A i \in Ids : net[i].to = "none"
               /\ \A t \in Targets, f \in FileNames : drive[t][f] = Absent
               /\ \A c \in Channels : DOMAIN mail[c] = {}

\* Without a forced run everything that was sent is the snapshot on disk.
AllMailed(m) == \A c \in Channels : \A k \in DOMAIN mail[c] : mail[c][k] = m
OneHolds ==
    /\ \A i \in Ids : net[i].to # "none" => net[i].files = disk
    /\ \A t \in Targets, f \in FileNames : drive[t][f] \in {Absent, disk[f]}
    /\ AllMailed([pdf |-> disk.pdf, body |-> disk.json])

Snap == /\ ReplaceHolds /\ DiskHolds /\ SettledHolds
        /\ ~Marked => NothingSent
        /\ Marked /\ budget.forced = 0 => OneHolds

SnapInv == ModeHolds /\ (Orderly => Snap)

LEMMA InitSnapInv == Init => SnapInv
  <1> SUFFICES ASSUME Init PROVE SnapInv
    OBVIOUS
  <1>1. /\ run = NoRun /\ marker = NoMarker /\ budget.forced = 0 /\ script = NotRunning
        /\ net = [i \in Ids |-> NoRequest] /\ mail = [c \in Channels |-> <<>>]
        /\ drive = [t \in Targets |-> [pdf |-> Absent, json |-> Absent]]
    BY DEF Init
  <1>2. ModeHolds
    BY <1>1 DEF ModeHolds, NoRun, NoMarker, Writing
  <1>3. ReplaceHolds
    BY <1>1 DEF ReplaceHolds, NoRequest
  <1>4. DiskHolds /\ SettledHolds
    BY <1>1 DEF DiskHolds, SettledHolds, NoRun, NoMarker, Sending, Rewriting, Marked
  <1>5. NothingSent
    <2>1. \A t \in Targets, f \in FileNames : drive[t][f] = Absent
      BY <1>1 DEF FileNames
    <2>2. \A c \in Channels : DOMAIN mail[c] = {}
      BY <1>1
    <2> QED BY <1>1, <2>1, <2>2 DEF NothingSent, NoRun, NoRequest, Sending
  <1> QED BY <1>1, <1>2, <1>3, <1>4, <1>5 DEF SnapInv, Snap, Marked

LEMMA FaultKeepsOrder ==
    ASSUME LocalTyped, Fault \/ UNCHANGED budget
    PROVE  /\ budget'.forced = budget.forced /\ budget'.crashes = budget.crashes
           /\ Orderly' = Orderly /\ budget.forced \in Nat
  <1>1. budget'.forced = budget.forced /\ budget'.crashes = budget.crashes
    BY DEF Fault, LocalTyped, Budgets
  <1> QED BY <1>1 DEF Orderly, Cut, LocalTyped, Budgets

\* While nothing was sent no request replaces anything.
LEMMA NothingReplaces ==
    ASSUME NetInv, NothingSent, NEW i \in Ids
    PROVE  ~net[i].replace
  BY DEF NetInv, Remote, RequestHolds, NothingSent, NoRequest

\* A step that leaves all of this alone.
LEMMA SameSnapInv ==
    ASSUME SnapInv, UNCHANGED <<run, disk, marker, drive, net, script, mail, made>>,
           budget'.forced = budget.forced, Orderly' = Orderly
    PROVE  SnapInv'
  BY DEF SnapInv, Snap, ModeHolds, ReplaceHolds, DiskHolds, SettledHolds, NothingSent,
     OneHolds, AllMailed, Settled, Counts, Marked

\* A run that ends, at a place where the files on disk belong together.
LEMMA EndSnapInv ==
    ASSUME NetInv, SnapInv, run' = NoRun,
           UNCHANGED <<marker, drive, net, script, mail, made>>,
           budget'.forced = budget.forced, Orderly' => Orderly,
           Orderly' => ~Marked \/ (disk' = disk /\ run.pc \notin Rewriting)
    PROVE  SnapInv'
  <1>1. ModeHolds'
    BY DEF SnapInv, ModeHolds, NoRun, NoMarker, Writing
  <1>2. ASSUME Orderly' PROVE Snap'
    <2>1. Snap
      BY <1>2 DEF SnapInv
    <2>2. run'.pc = "idle" /\ run'.answer = "none"
      BY DEF NoRun
    <2>3. CASE ~Marked
      <3>1. NothingSent /\ NothingSent'
        BY <2>1, <2>2, <2>3 DEF Snap, NothingSent, Sending
      <3>2. ReplaceHolds'
        BY <3>1, NothingReplaces DEF ReplaceHolds
      <3>3. DiskHolds' /\ SettledHolds'
        BY <2>2, <2>3 DEF DiskHolds, SettledHolds, Marked, NoMarker, Sending, Rewriting
      <3> QED BY <2>3, <3>1, <3>2, <3>3 DEF Snap, Marked
    <2>4. CASE Marked
      <3>1. disk' = disk /\ run.pc \notin Rewriting
        BY <1>2, <2>4
      <3>2. ReplaceHolds'
        BY <2>1, <2>2, <3>1 DEF Snap, ReplaceHolds, Writing
      <3>3. DiskHolds'
        BY <2>1, <2>2, <3>1 DEF Snap, DiskHolds, Sending, Rewriting, Writing, Marked
      <3>4. SettledHolds'
        BY <2>1, <2>2, <3>1 DEF Snap, SettledHolds, Settled, Counts, Sending
      <3>5. budget'.forced = 0 => OneHolds'
        BY <2>1, <2>4, <3>1 DEF Snap, OneHolds, AllMailed
      <3> QED BY <2>4, <3>2, <3>3, <3>4, <3>5 DEF Snap, Marked
    <2> QED BY <2>3, <2>4
  <1> QED BY <1>1, <1>2 DEF SnapInv

LEMMA EndingSnapInv ==
    ASSUME RInv, NetInv, SnapInv,
           BillingFails \/ RefuseTorn \/ FinishRun \/ AnswerLost \/ CallFails
    PROVE  SnapInv'
  <1>1. /\ run' = NoRun /\ UNCHANGED <<disk, marker, drive, net, script, mail, made>>
        /\ run.pc \notin Rewriting /\ (Fault \/ UNCHANGED budget)
    BY DEF BillingFails, RefuseTorn, FinishRun, AnswerLost, CallFails, EndRun, localVars,
       remoteVars, Rewriting
  <1> QED BY <1>1, FaultKeepsOrder, EndSnapInv DEF RInv

\* A killed run leaves a marked snapshot alone, unless it was forced.
LEMMA CrashSnapInv == ASSUME RInv, NetInv, SnapInv, Crash PROVE SnapInv'
  <1>1. /\ run' = NoRun /\ UNCHANGED <<marker, drive, net, script, mail, made>>
        /\ budget' = [budget EXCEPT !.crashes = budget.crashes + 1]
        /\ disk' = disk \/ run.pc = "fetch"
    BY DEF Crash, EndRun, remoteVars
  <1>2. budget'.forced = budget.forced /\ budget'.crashes = budget.crashes + 1
        /\ budget.crashes \in Nat /\ budget.forced \in Nat
    BY <1>1 DEF RInv, LocalTyped, Budgets
  <1>3. ASSUME Orderly' PROVE Orderly /\ (~Marked \/ (disk' = disk /\ run.pc \notin Rewriting))
    <2>1. budget.forced = 0 /\ Orderly
      BY <1>2, <1>3 DEF Orderly, Cut
    <2>2. Marked => run.pc \notin Writing
      BY <2>1 DEF SnapInv, Snap, ModeHolds, DiskHolds
    <2> QED BY <1>1, <2>1, <2>2 DEF Writing, Rewriting
  <1> QED BY <1>1, <1>2, <1>3, EndSnapInv
-----------------------------------------------------------------------------
(* Snapshots: the steps up to the marker *)

LEMMA ResumeSnapInv == ASSUME RInv, SnapInv, NEW mode \in Modes, Resume(mode) PROVE SnapInv'
  <1>1. /\ run.pc = "idle" /\ Marked
        /\ UNCHANGED <<disk, marker, drive, net, script, mail, made, budget>>
        /\ run' = [NoRun EXCEPT !.pc = "deliver", !.made = disk.json, !.status = Loaded]
    BY DEF Resume, Reuses, localVars, remoteVars
  <1>2. /\ run'.pc = "deliver" /\ run'.made = disk.json /\ run'.status = Loaded
        /\ run'.mode = "send" /\ run'.answer = "none"
    BY <1>1 DEF NoRun
  <1>3. /\ Loaded.target = target
        /\ Loaded.drive => marker.drive /\ marker.target = target
        /\ Loaded.replace => marker.replace
    BY LoadedFields DEF RInv
  <1>4. ModeHolds'
    BY <1>1, <1>2, <1>3 DEF SnapInv, ModeHolds, Writing
  <1>5. ASSUME Orderly' PROVE Snap'
    <2>1. Snap
      BY <1>1, <1>5 DEF SnapInv, Orderly, Cut
    <2>2. ReplaceHolds'
      BY <1>1, <1>2, <2>1 DEF Snap, ReplaceHolds, Writing
    <2>3. DiskHolds'
      BY <1>1, <1>2, <2>1 DEF Snap, DiskHolds, Sending, Rewriting, Writing, Marked
    <2>4. SettledHolds'
      BY <1>1, <1>2, <1>3, <2>1 DEF Snap, SettledHolds, Settled, Counts, Rewriting
    <2>5. budget'.forced = 0 => OneHolds'
      BY <1>1, <2>1 DEF Snap, OneHolds, AllMailed
    <2> QED BY <1>1, <2>2, <2>3, <2>4, <2>5 DEF Snap, Marked
  <1> QED BY <1>4, <1>5 DEF SnapInv

LEMMA RegenerateSnapInv ==
    ASSUME RInv, NetInv, SnapInv, NEW mode \in Modes, Regenerate(mode)
    PROVE  SnapInv'
  <1>1. /\ run.pc = "idle" /\ UNCHANGED <<disk, marker, drive, net, script, mail, made>>
        /\ run' = [NoRun EXCEPT !.pc = "fetch", !.mode = mode,
                                !.status = FreshMarker(target, mode = "force")]
        /\ Marked => mode = "force"
    BY DEF Regenerate, Reuses, localVars, remoteVars, Modes
  <1>2. /\ run'.pc = "fetch" /\ run'.mode = mode /\ run'.answer = "none"
        /\ run'.status = FreshMarker(target, mode = "force")
    BY <1>1 DEF NoRun
  <1>3. /\ ~run'.status.drive /\ run'.status.replace = (mode = "force")
    BY <1>2 DEF FreshMarker
  <1> DEFINE f == budget.forced + (IF mode = "force" THEN 1 ELSE 0)
             n == budget.inspected + (IF mode = "inspect" THEN 1 ELSE 0)
  <1>a. /\ f \in Nat /\ budget.forced \in Nat
        /\ f = budget.forced + (IF mode = "force" THEN 1 ELSE 0)
        /\ budget' = [budget EXCEPT !.forced = f, !.inspected = n]
    BY DEF Regenerate, RInv, LocalTyped, Budgets
  <1> HIDE DEF f, n
  <1>4. budget'.forced = f /\ budget'.crashes = budget.crashes
    BY <1>a DEF RInv, LocalTyped, Budgets
  <1>5. ModeHolds'
    <2>1. f = 0 => budget.forced = 0 /\ mode # "force"
      BY <1>a
    <2>2. mode = "force" => f > 0
      BY <1>a
    <2> QED BY <1>1, <1>2, <1>3, <1>4, <2>1, <2>2 DEF SnapInv, ModeHolds, Writing
  <1>6. ASSUME Orderly' PROVE Snap'
    <2>1. Orderly /\ f <= 1
      BY <1>a, <1>4, <1>6 DEF Orderly, Cut, RInv, LocalTyped, Budgets
    <2>2. Snap
      BY <2>1 DEF SnapInv
    <2>3. \A i \in Ids : ~net[i].replace
      <3>1. CASE mode = "force"
        <4>1. budget.forced = 0
          BY <1>a, <2>1, <3>1
        <4> QED BY <2>2, <4>1 DEF Snap, ReplaceHolds
      <3>2. CASE mode # "force"
        BY <1>1, <2>2, <3>2, NothingReplaces DEF Snap
      <3> QED BY <3>1, <3>2
    <2>4. ReplaceHolds'
      BY <1>1, <2>3 DEF ReplaceHolds
    <2>5. DiskHolds'
      BY <1>1, <1>2, <2>2 DEF Snap, DiskHolds, Sending, Rewriting, Marked
    <2>6. SettledHolds'
      <3>1. Counts(marker.target)' => Counts(marker.target)
        BY <1>1, <1>a, <1>4 DEF Counts
      <3> QED BY <1>1, <1>2, <2>2, <3>1 DEF Snap, SettledHolds, Settled, Rewriting, Sending
    <2>7. ~Marked' => NothingSent'
      BY <1>1, <1>2, <2>2 DEF Snap, NothingSent, Marked, Sending
    <2>8. Marked' /\ budget'.forced = 0 => OneHolds'
      BY <1>1, <1>a, <1>4 DEF Marked
    <2> QED BY <2>4, <2>5, <2>6, <2>7, <2>8 DEF Snap
  <1> QED BY <1>5, <1>6 DEF SnapInv

\* Files are rewritten while there is no marker, or in a forced run.
LEMMA WritePdfSnapInv == ASSUME RInv, NetInv, SnapInv, WritePdf PROVE SnapInv'
  <1>1. /\ run.pc = "fetch" /\ UNCHANGED <<marker, drive, net, script, mail, budget>>
        /\ made' = made + 1 /\ run' = [run EXCEPT !.pc = "json", !.made = made']
        /\ disk' = [disk EXCEPT !.pdf = made']
    BY DEF WritePdf, remoteVars
  <1>2. /\ run'.pc = "json" /\ run'.made = made' /\ run'.status = run.status
        /\ run'.mode = run.mode /\ run'.answer = run.answer
        /\ made' \in Nat /\ made' > 0 /\ disk'.pdf = made'
    BY <1>1 DEF RInv, LocalTyped, Runs
  <1>3. ModeHolds'
    BY <1>1, <1>2 DEF SnapInv, ModeHolds, Writing
  <1>4. ASSUME Orderly' PROVE Snap'
    <2>1. Snap
      BY <1>1, <1>4 DEF SnapInv, Orderly, Cut
    <2>2. ReplaceHolds'
      BY <1>1, <2>1 DEF Snap, ReplaceHolds, Writing
    <2>3. DiskHolds'
      BY <1>1, <1>2, <2>1 DEF Snap, DiskHolds, Sending, Rewriting, Writing, Marked
    <2>4. SettledHolds'
      BY <1>1, <1>2 DEF NetInv, AwaitHolds, SettledHolds, Rewriting, Sending
    <2>5. ~Marked' => NothingSent'
      BY <1>1, <1>2, <2>1 DEF Snap, NothingSent, Marked, Sending
    <2>6. ~(Marked' /\ budget'.forced = 0)
      BY <1>1, <2>1 DEF SnapInv, Snap, ModeHolds, DiskHolds, Writing, Marked
    <2> QED BY <2>2, <2>3, <2>4, <2>5, <2>6 DEF Snap
  <1> QED BY <1>3, <1>4 DEF SnapInv

LEMMA WriteJsonSnapInv == ASSUME RInv, NetInv, SnapInv, WriteJson PROVE SnapInv'
  <1>1. /\ run.pc = "json" /\ UNCHANGED <<marker, drive, net, script, mail, budget, made>>
        /\ disk' = [disk EXCEPT !.json = run.made]
        /\ IF run.mode = "inspect" THEN run' = NoRun ELSE run' = [run EXCEPT !.pc = "mark"]
    BY DEF WriteJson, EndRun, Goto, remoteVars
  <1>2. disk'.pdf = disk.pdf /\ disk'.json = run.made
    BY <1>1 DEF RInv, LocalTyped
  <1>3. CASE run.mode = "inspect"
    <2>1. Orderly => ~Marked
      BY <1>1, <1>3 DEF SnapInv, Snap, DiskHolds, Writing
    <2> QED BY <1>1, <1>3, <2>1, EndSnapInv, FaultKeepsOrder DEF RInv
  <1>4. CASE run.mode # "inspect"
    <2>1. /\ run'.pc = "mark" /\ run'.made = run.made /\ run'.status = run.status
          /\ run'.mode = run.mode /\ run'.answer = run.answer
      BY <1>1, <1>4 DEF RInv, LocalTyped, Runs
    <2>2. ModeHolds'
      BY <1>1, <2>1 DEF SnapInv, ModeHolds, Writing
    <2>3. ASSUME Orderly' PROVE Snap'
      <3>1. Snap
        BY <1>1, <2>3 DEF SnapInv, Orderly, Cut
      <3>2. ReplaceHolds'
        BY <1>1, <3>1 DEF Snap, ReplaceHolds, Writing
      <3>3. DiskHolds'
        BY <1>1, <1>2, <2>1, <3>1 DEF Snap, DiskHolds, Sending, Rewriting, Writing, Marked
      <3>4. SettledHolds'
        BY <1>1, <2>1 DEF NetInv, AwaitHolds, SettledHolds, Rewriting, Sending
      <3>5. ~Marked' => NothingSent'
        BY <1>1, <2>1, <3>1 DEF Snap, NothingSent, Marked, Sending
      <3>6. ~(Marked' /\ budget'.forced = 0)
        BY <1>1, <3>1 DEF SnapInv, Snap, ModeHolds, DiskHolds, Writing, Marked
      <3> QED BY <3>2, <3>3, <3>4, <3>5, <3>6 DEF Snap
    <2> QED BY <2>2, <2>3 DEF SnapInv
  <1> QED BY <1>3, <1>4

\* The marker of a fresh snapshot says that nothing is delivered.
LEMMA WriteMarkerSnapInv == ASSUME RInv, NetInv, SnapInv, WriteMarker PROVE SnapInv'
  <1>1. /\ run.pc = "mark" /\ UNCHANGED <<disk, drive, net, script, mail, budget, made>>
        /\ marker' = run.status /\ run' = [run EXCEPT !.pc = "deliver"]
    BY DEF WriteMarker, Goto, remoteVars
  <1>2. /\ run'.pc = "deliver" /\ run'.made = run.made /\ run'.status = run.status
        /\ run'.mode = run.mode /\ run'.answer = run.answer /\ run.answer = "none"
    BY <1>1 DEF RInv, LocalTyped, Runs, NetInv, AwaitHolds
  <1>3. ~run.status.drive /\ run.status.target \in Targets
    BY <1>1 DEF SnapInv, ModeHolds, NetInv, StatusHolds, Writing
  <1>4. Marked'
    BY <1>1, <1>3, TargetsAssumption DEF Marked, NoMarker
  <1>5. ModeHolds'
    BY <1>1, <1>2 DEF SnapInv, ModeHolds, Writing
  <1>6. ASSUME Orderly' PROVE Snap'
    <2>1. Snap
      BY <1>1, <1>6 DEF SnapInv, Orderly, Cut
    <2>2. ReplaceHolds'
      BY <1>1, <2>1 DEF Snap, ReplaceHolds, Writing
    <2>3. DiskHolds'
      <3>1. run.made = made /\ made > 0 /\ disk.pdf = made /\ disk.json = made
        BY <1>1, <2>1 DEF Snap, DiskHolds, Rewriting
      <3> QED BY <1>1, <1>2, <3>1 DEF DiskHolds, Sending, Rewriting, Writing, Absent
    <2>4. SettledHolds'
      BY <1>1, <1>2, <1>3 DEF SettledHolds
    <2>5. budget'.forced = 0 => OneHolds'
      <3>1. budget.forced = 0 => NothingSent
        BY <1>1, <2>1 DEF SnapInv, Snap, ModeHolds, DiskHolds, Writing
      <3> QED BY <1>1, <3>1 DEF NothingSent, OneHolds, AllMailed
    <2> QED BY <1>4, <2>2, <2>3, <2>4, <2>5 DEF Snap
  <1> QED BY <1>5, <1>6 DEF SnapInv

-----------------------------------------------------------------------------
(* Snapshots: delivery *)

\* A run in its delivery that goes on with the files on disk: what it takes for
\* delivered is settled.
LEMMA OnSnapInv ==
    ASSUME SnapInv, UNCHANGED <<disk, made>>, budget'.forced = budget.forced,
           Orderly' = Orderly, ModeHolds',
           run.pc \in Sending, run'.pc \in Sending, run'.made = run.made,
           Orderly => /\ Marked' /\ ReplaceHolds' /\ SettledHolds'
                      /\ budget.forced = 0 => OneHolds'
    PROVE  SnapInv'
  <1>1. ASSUME Orderly PROVE Snap'
    <2>1. Snap
      BY <1>1 DEF SnapInv
    <2>2. DiskHolds'
      BY <1>1, <2>1
         DEF Snap, DiskHolds, NothingSent, Sending, Rewriting, Writing
    <2> QED BY <1>1, <2>2 DEF Snap
  <1> QED BY <1>1 DEF SnapInv

\* The marker is saved.
LEMMA SaveMarkerSnapInv == ASSUME RInv, NetInv, SnapInv, SaveMarker PROVE SnapInv'
  <1>1. /\ run.pc = "save" /\ UNCHANGED <<disk, drive, net, script, mail, budget, made>>
        /\ marker' = run.status /\ run' = [run EXCEPT !.pc = "deliver"]
    BY DEF SaveMarker, Goto, remoteVars
  <1>2. /\ run'.pc = "deliver" /\ run'.made = run.made /\ run'.status = run.status
        /\ run'.mode = run.mode /\ run'.answer = run.answer /\ run.answer = "none"
    BY <1>1 DEF RInv, LocalTyped, Runs, NetInv, AwaitHolds
  <1>3. Marked'
    BY <1>1, TargetsAssumption DEF Marked, NoMarker, NetInv, StatusHolds
  <1>4. ModeHolds'
    BY <1>1, <1>2 DEF SnapInv, ModeHolds, Writing
  <1>5. ASSUME Orderly
        PROVE  /\ ReplaceHolds' /\ SettledHolds'
               /\ budget.forced = 0 => OneHolds'
    <2>1. Snap /\ Marked
      BY <1>1, <1>5 DEF SnapInv, Snap, NothingSent, Sending
    <2>2. ReplaceHolds'
      BY <1>1, <1>2, <2>1 DEF Snap, ReplaceHolds, Writing
    <2>3. SettledHolds'
      BY <1>1, <1>2, <2>1 DEF Snap, SettledHolds, Settled, Counts, Sending
    <2>4. budget.forced = 0 => OneHolds'
      BY <1>1, <2>1 DEF Snap, OneHolds, AllMailed
    <2> QED BY <2>2, <2>3, <2>4
  <1> QED BY <1>1, <1>2, <1>3, <1>4, <1>5, OnSnapInv, FaultKeepsOrder DEF RInv, Sending

LEMMA SendRequestSnapInv ==
    ASSUME RInv, NetInv, SnapInv, NEW i \in Ids, SendRequest(i)
    PROVE  SnapInv'
  <1>1. /\ run.pc = "deliver" /\ ~run.status.drive
        /\ UNCHANGED <<disk, marker, mail, budget, made>>
        /\ run' = [run EXCEPT !.pc = "await", !.id = i, !.answer = "none"]
    BY DEF SendRequest, localVars
  <1>2. /\ run'.pc = "await" /\ run'.made = run.made /\ run'.status = run.status
        /\ run'.mode = run.mode /\ run'.answer = "none"
    BY <1>1 DEF RInv, LocalTyped, Runs
  <1>3. /\ \A j \in Ids \ {i} : net'[j] = net[j]
        /\ net'[i].files = disk /\ net'[i].replace = run.status.replace
        /\ script.id # i /\ UNCHANGED <<drive, script>>
    <2>1. run.status.target \in Targets
      BY <1>1 DEF NetInv, StatusHolds
    <2> QED BY <2>1, SendRequestRemote DEF RInv, NetInv
  <1>4. ModeHolds'
    BY <1>1, <1>2 DEF SnapInv, ModeHolds, Writing
  <1>5. script.id # 0 => net'[script.id] = net[script.id]
    BY <1>3 DEF NetInv, Remote, ScriptHolds
  <1>6. ASSUME Orderly
        PROVE  /\ Marked' /\ ReplaceHolds' /\ SettledHolds'
               /\ budget.forced = 0 => OneHolds'
    <2>1. Snap /\ Marked
      BY <1>1, <1>6 DEF SnapInv, Snap, NothingSent, Sending
    <2>2. ReplaceHolds'
      <3>1. run.status.replace => budget.forced > 0
        BY DEF SnapInv, ModeHolds, RInv, LocalTyped, Budgets
      <3> QED BY <1>1, <1>2, <1>3, <2>1, <3>1 DEF Snap, ReplaceHolds, Writing
    <2>3. SettledHolds'
      BY <1>1, <1>2, <1>3, <1>5, <2>1
         DEF Snap, SettledHolds, Settled, Counts, Sending, Rewriting
    <2>4. budget.forced = 0 => OneHolds'
      BY <1>1, <1>3, <2>1 DEF Snap, OneHolds, AllMailed
    <2> QED BY <1>1, <2>1, <2>2, <2>3, <2>4 DEF Marked
  <1> QED BY <1>1, <1>2, <1>4, <1>6, OnSnapInv, FaultKeepsOrder DEF RInv, Sending

LEMMA AnswerArrivesSnapInv == ASSUME RInv, NetInv, SnapInv, AnswerArrives PROVE SnapInv'
  <1>1. /\ run.pc = "await" /\ UNCHANGED <<disk, marker, drive, net, script, mail, budget, made>>
        /\ \/ run' = NoRun
           \/ /\ run.answer = "ok"
              /\ run' = [run EXCEPT !.pc = "save", !.status = Uploaded(run.status), !.id = 0,
                                    !.answer = "none"]
    BY DEF AnswerArrives, EndRun, localVars, remoteVars
  <1>2. CASE run' = NoRun
    BY <1>1, <1>2, EndSnapInv, FaultKeepsOrder DEF RInv, Rewriting
  <1>3. CASE /\ run.answer = "ok"
             /\ run' = [run EXCEPT !.pc = "save", !.status = Uploaded(run.status), !.id = 0,
                                   !.answer = "none"]
    <2>1. /\ run'.pc = "save" /\ run'.made = run.made /\ run'.status = Uploaded(run.status)
          /\ run'.mode = run.mode /\ run'.answer = "none"
      BY <1>3 DEF RInv, LocalTyped, Runs
    <2>2. run'.status.target = run.status.target /\ ~run'.status.replace
      BY <2>1 DEF Uploaded, RInv, LocalTyped, Runs, Markers
    <2>3. ModeHolds'
      BY <1>1, <2>1, <2>2 DEF SnapInv, ModeHolds, Writing
    <2>4. ASSUME Orderly
          PROVE  /\ Marked' /\ ReplaceHolds' /\ SettledHolds'
                 /\ budget.forced = 0 => OneHolds'
      <3>1. Snap /\ Marked
        BY <1>1, <2>4 DEF SnapInv, Snap, NothingSent, Sending
      <3>2. ReplaceHolds'
        BY <1>1, <2>1, <3>1 DEF Snap, ReplaceHolds, Writing
      <3>3. SettledHolds'
        BY <1>1, <1>3, <2>1, <2>2, <3>1 DEF Snap, SettledHolds, Settled, Counts, Rewriting
      <3>4. budget.forced = 0 => OneHolds'
        BY <1>1, <3>1 DEF Snap, OneHolds, AllMailed
      <3> QED BY <1>1, <3>1, <3>2, <3>3, <3>4 DEF Marked
    <2> QED BY <1>1, <2>1, <2>3, <2>4, OnSnapInv, FaultKeepsOrder DEF RInv, Sending
  <1> QED BY <1>1, <1>2, <1>3

\* A channel that accepts the snapshot on disk holds nothing else.
LEMMA AcceptWhole ==
    ASSUME LocalTyped, NEW c \in Channels, Accept(c), NEW m,
           m = [pdf |-> disk.pdf, body |-> run.made], AllMailed(m)
    PROVE  AllMailed(m)'
  <1>1. mail \in [Channels -> Seq(Messages)] /\ m \in Messages
    BY DEF LocalTyped, Messages, Runs
  <1>2. mail' = [mail EXCEPT ![c] = Append(mail[c], m)]
    BY DEF Accept
  <1>3. \A b \in Channels : mail'[b] = IF b = c THEN Append(mail[c], m) ELSE mail[b]
    BY <1>1, <1>2
  <1>4. mail[c] \in Seq(Messages) /\ \A k \in DOMAIN mail[c] : mail[c][k] = m
    BY <1>1 DEF AllMailed
  <1>5. \A k \in DOMAIN Append(mail[c], m) : Append(mail[c], m)[k] = m
    BY <1>1, <1>4
  <1> QED BY <1>3, <1>5 DEF AllMailed

\* A message that is sent carries the snapshot on disk, whether or not the run
\* learns that it was accepted.
LEMMA SendSnapInv ==
    ASSUME RInv, NetInv, SnapInv, NEW c \in Channels, SendTo(c) \/ SendUnanswered(c)
    PROVE  SnapInv'
  <1>1. /\ run.pc = "deliver" /\ Accept(c) /\ (Fault \/ UNCHANGED budget)
        /\ UNCHANGED <<disk, marker, drive, net, script, made>>
        /\ \/ run' = [run EXCEPT !.pc = "save", !.status.sent = @ \union {c}]
           \/ run' = NoRun \/ run' = run
    BY DEF SendTo, SendUnanswered, EndRun, localVars
  <1>2. /\ budget'.forced = budget.forced /\ Orderly' = Orderly
    BY <1>1, FaultKeepsOrder DEF RInv
  <1>3. ASSUME Orderly
        PROVE  /\ Snap /\ Marked /\ Marked' /\ run.made = disk.json
               /\ budget.forced = 0 => OneHolds'
    <2>1. Snap /\ Marked /\ run.made = disk.json
      BY <1>1, <1>3 DEF SnapInv, Snap, NothingSent, DiskHolds, Sending
    <2>2. budget.forced = 0 => OneHolds'
      <3> DEFINE m == [pdf |-> disk.pdf, body |-> disk.json]
      <3>1. budget.forced = 0 => AllMailed(m)'
        BY <1>1, <2>1, AcceptWhole DEF Snap, OneHolds, RInv
      <3> QED BY <1>1, <2>1, <3>1 DEF Snap, OneHolds, AllMailed
    <2> QED BY <1>1, <2>1, <2>2 DEF Marked
  <1>4. CASE \/ run' = [run EXCEPT !.pc = "save", !.status.sent = @ \union {c}]
             \/ run' = run
    <2> DEFINE known == [run.status EXCEPT !.sent = @ \union {c}]
    <2>a. /\ known.drive = run.status.drive /\ known.target = run.status.target
          /\ known.replace = run.status.replace
      BY DEF RInv, LocalTyped, Runs, Markers
    <2>b. run' = [run EXCEPT !.pc = "save", !.status = known] \/ run' = run
      BY <1>4
    <2> HIDE DEF known
    <2>1. /\ run'.pc \in {"deliver", "save"} /\ run'.made = run.made
          /\ run'.status.drive = run.status.drive /\ run'.status.target = run.status.target
          /\ run'.status.replace = run.status.replace
          /\ run'.mode = run.mode /\ run'.answer = run.answer
      BY <1>1, <2>a, <2>b DEF RInv, LocalTyped, Runs
    <2>2. ModeHolds'
      BY <1>1, <1>2, <2>1 DEF SnapInv, ModeHolds, Writing
    <2>3. ASSUME Orderly
          PROVE  ReplaceHolds' /\ SettledHolds'
      <3>1. ReplaceHolds'
        BY <1>1, <1>2, <1>3, <2>1, <2>3 DEF Snap, ReplaceHolds, Writing
      <3>2. SettledHolds'
        BY <1>1, <1>2, <1>3, <2>1, <2>3
           DEF Snap, SettledHolds, Settled, Counts, Sending, Rewriting
      <3> QED BY <3>1, <3>2
    <2> QED BY <1>1, <1>2, <1>3, <2>1, <2>2, <2>3, OnSnapInv DEF Sending
  <1>5. CASE run' = NoRun
    <2>1. run'.pc = "idle" /\ run'.answer = "none" /\ run'.mode = "send"
          /\ ~run'.status.replace
      BY <1>5 DEF NoRun, NoMarker
    <2>2. ModeHolds'
      BY <1>1, <1>2, <2>1 DEF SnapInv, ModeHolds, Writing
    <2>3. ASSUME Orderly PROVE Snap'
      <3>1. ReplaceHolds'
        BY <1>1, <1>2, <1>3, <2>1, <2>3 DEF Snap, ReplaceHolds, Writing
      <3>2. DiskHolds'
        BY <1>1, <1>3, <2>1, <2>3 DEF Snap, DiskHolds, Sending, Rewriting, Writing, Marked
      <3>3. SettledHolds'
        BY <1>1, <1>2, <1>3, <2>1, <2>3
           DEF Snap, SettledHolds, Settled, Counts, Sending, Rewriting
      <3> QED BY <1>2, <1>3, <2>3, <3>1, <3>2, <3>3 DEF Snap
    <2> QED BY <1>2, <2>2, <2>3 DEF SnapInv
  <1> QED BY <1>1, <1>4, <1>5

\* The OAuth backend keeps what it has: without a forced run that is the snapshot.
LEMMA UpsertSnapInv == ASSUME RInv, NetInv, SnapInv, UpsertPdf \/ UpsertJson PROVE SnapInv'
  <1>1. PICK file \in FileNames, from \in {"deliver", "oauth"}, to \in {"oauth", "save"} :
           /\ Upsert(file, from, to)
           /\ \/ file = "pdf" /\ from = "deliver" /\ to = "oauth"
              \/ file = "json" /\ from = "oauth" /\ to = "save"
    BY DEF UpsertPdf, UpsertJson, FileNames
  <1>u. PICK u \in OAuthTargets : u = run.status.target
    BY <1>1 DEF Upsert
  <1>2. /\ run.pc = from /\ UNCHANGED <<disk, marker, net, script, mail, made>>
        /\ Fault \/ UNCHANGED budget
        /\ \/ run' = NoRun
           \/ run' = [run EXCEPT !.pc = to,
                                 !.status = IF to = "save" THEN Uploaded(run.status)
                                            ELSE run.status]
    BY <1>1 DEF Upsert, EndRun, localVars
  <1>3. /\ u \in Targets /\ drive' \in [Targets -> Pairs]
        /\ \A t \in Targets, f \in FileNames :
              drive'[t][f] = IF t = u /\ f = file /\ (drive[t][f] = Absent \/ run.status.replace)
                             THEN disk[f] ELSE drive[t][f]
    BY <1>1, <1>u, UpsertRemote DEF RInv, NetInv, Remote, RemoteTyped, Targets
  <1>a. drive \in [Targets -> Pairs] /\ disk \in Pairs
    BY DEF RInv, LocalTyped, NetInv, Remote, RemoteTyped, Pairs
  <1>4. /\ budget'.forced = budget.forced /\ Orderly' = Orderly
    BY <1>2, FaultKeepsOrder DEF RInv
  <1>5. ASSUME Orderly PROVE Snap /\ Marked /\ Marked'
    BY <1>1, <1>2, <1>5 DEF SnapInv, Snap, NothingSent, Marked, Sending
  <1>6. ASSUME Orderly, budget.forced = 0, NEW t \in Targets, NEW f \in FileNames
        PROVE  /\ drive'[t][f] \in {Absent, disk[f]}
               /\ drive[t][f] = disk[f] => drive'[t][f] = disk[f]
               /\ t = u /\ f = file => drive'[t][f] = disk[f]
    <2>1. drive[t][f] \in {Absent, disk[f]}
      BY <1>5, <1>6 DEF Snap, OneHolds
    <2> QED BY <1>3, <2>1
  <1>7. ASSUME Orderly, NEW t \in Targets, Counts(t), Settled(t)
        PROVE  Settled(t)' /\ Counts(t)'
    <2>1. drive'[t].pdf = disk.pdf /\ drive'[t].json = disk.json
      <3>1. drive[t].pdf = disk.pdf /\ drive[t].json = disk.json
        BY <1>7 DEF Settled
      <3>2. CASE t = u
        BY <1>3, <1>6, <1>7, <3>1, <3>2 DEF Counts, FileNames
      <3>3. CASE t # u
        BY <1>3, <1>7, <3>1, <3>3 DEF FileNames
      <3> QED BY <3>2, <3>3
    <2>2. drive'[t] \in Pairs
      BY <1>3, <1>7
    <2>3. drive'[t] = disk
      BY <1>a, <2>1, <2>2 DEF Pairs
    <2> QED BY <1>2, <1>4, <1>7, <2>3 DEF Settled, Counts
  <1>8. ASSUME Orderly PROVE budget.forced = 0 => OneHolds'
    BY <1>2, <1>5, <1>6, <1>8 DEF Snap, OneHolds, AllMailed
  <1>9. ASSUME Orderly, marker.drive, Counts(marker.target)' PROVE Settled(marker.target)'
    <2>1. marker.target \in Targets /\ Counts(marker.target)
      BY <1>2, <1>4, <1>9 DEF NetInv, StatusHolds, Counts
    <2>2. Settled(marker.target)
      BY <1>1, <1>2, <1>5, <1>9, <2>1 DEF Snap, SettledHolds, Rewriting
    <2> QED BY <1>2, <1>7, <1>9, <2>1, <2>2
  <1>10. CASE run' = NoRun
    <2>1. run'.pc = "idle" /\ run'.answer = "none" /\ run'.mode = "send"
          /\ ~run'.status.replace
      BY <1>10 DEF NoRun, NoMarker
    <2>2. ModeHolds'
      BY <1>2, <1>4, <2>1 DEF SnapInv, ModeHolds, Writing
    <2>3. ASSUME Orderly PROVE Snap'
      <3>1. ReplaceHolds'
        BY <1>2, <1>4, <1>5, <2>1, <2>3 DEF Snap, ReplaceHolds, Writing
      <3>2. DiskHolds'
        BY <1>1, <1>2, <1>5, <2>1, <2>3
           DEF Snap, DiskHolds, Sending, Rewriting, Writing, Marked
      <3>3. SettledHolds'
        BY <1>2, <1>9, <2>1, <2>3 DEF SettledHolds, Sending
      <3> QED BY <1>4, <1>5, <1>8, <2>3, <3>1, <3>2, <3>3 DEF Snap
    <2> QED BY <1>4, <2>2, <2>3 DEF SnapInv
  <1>11. CASE run' = [run EXCEPT !.pc = to,
                                 !.status = IF to = "save" THEN Uploaded(run.status)
                                            ELSE run.status]
    <2>1. /\ run'.pc = to /\ run'.made = run.made /\ run'.mode = run.mode
          /\ run'.answer = run.answer
          /\ run'.status = IF to = "save" THEN Uploaded(run.status) ELSE run.status
      BY <1>11 DEF RInv, LocalTyped, Runs
    <2>2. /\ run'.status.target = u
          /\ run'.status.replace => run.status.replace
          /\ to # "save" => run'.status.drive = run.status.drive
      BY <1>u, <2>1 DEF Uploaded, RInv, LocalTyped, Runs, Markers
    <2>3. ~run.status.drive /\ run.answer = "none"
      BY <1>1, <1>2 DEF Upsert, NetInv, AwaitHolds
    <2>4. ModeHolds'
      BY <1>1, <1>2, <1>4, <2>1, <2>2 DEF SnapInv, ModeHolds, Writing
    <2>5. ASSUME Orderly PROVE ReplaceHolds' /\ SettledHolds'
      <3>1. ReplaceHolds'
        BY <1>1, <1>2, <1>4, <1>5, <2>1, <2>5 DEF Snap, ReplaceHolds, Writing
      <3>2. ASSUME to = "oauth", budget.forced = 0 PROVE drive'[u].pdf = disk.pdf
        BY <1>1, <1>3, <1>6, <2>5, <3>2 DEF FileNames
      <3>3. ASSUME to = "save", Counts(u)' PROVE Settled(u)'
        <4>1. budget.forced = 0
          BY <1>3, <1>4, <3>3 DEF Counts
        <4>2. drive[u].pdf = disk.pdf /\ file = "json"
          BY <1>1, <1>2, <1>5, <1>u, <2>5, <3>3, <4>1 DEF Snap, SettledHolds
        <4>3. drive'[u].pdf = disk.pdf /\ drive'[u].json = disk.json
          BY <1>3, <1>6, <2>5, <4>1, <4>2 DEF FileNames
        <4>4. drive'[u] = disk
          BY <1>3, <1>a, <4>3 DEF Pairs
        <4>5. script.id # 0 => net[script.id].to # u
          BY <1>3, TargetsAssumption DEF NetInv, Remote, RemoteTyped, ScriptHolds, Requests
        <4> QED BY <1>2, <4>4, <4>5 DEF Settled
      <3>4. SettledHolds'
        BY <1>1, <1>2, <1>4, <1>9, <2>1, <2>2, <2>3, <2>5, <3>2, <3>3 DEF SettledHolds
      <3> QED BY <3>1, <3>4
    <2>6. run.pc \in Sending /\ run'.pc \in Sending
      BY <1>1, <1>2, <2>1 DEF Sending
    <2> QED BY <1>2, <1>4, <1>5, <1>8, <2>1, <2>4, <2>5, <2>6, OnSnapInv
  <1> QED BY <1>2, <1>10, <1>11

-----------------------------------------------------------------------------
(* Snapshots: the receiver *)

\* A step of the receiver that leaves settled destinations settled and gives the
\* run an answer that is true.
LEMMA ReceiverSnapInv ==
    ASSUME RInv, NetInv, SnapInv, UNCHANGED <<disk, marker, mail, made>>,
           budget'.forced = budget.forced, Orderly' = Orderly,
           run'.pc = run.pc, run'.status = run.status, run'.mode = run.mode,
           run'.made = run.made,
           \A i \in Ids : SameRequest(i) \/ net'[i] = NoRequest,
           \A t \in Targets, f \in FileNames :
              \/ drive'[t][f] = drive[t][f]
              \/ \E i \in Ids : net[i].to = t /\ drive'[t][f] = net[i].files[f],
           ASSUME Orderly, Snap, disk.pdf # Absent, disk.json # Absent,
                  NEW t \in Targets, Settled(t)
           PROVE  Settled(t)',
           Orderly /\ run'.answer = "ok" /\ run.answer # "ok" => Settled(run.status.target)'
    PROVE  SnapInv'
  <1>1. ModeHolds'
    BY DEF SnapInv, ModeHolds
  <1>2. ASSUME Orderly PROVE Snap'
    <2>1. Snap
      BY <1>2 DEF SnapInv
    <2>2. \A i \in Ids : /\ net'[i].replace => net[i].replace /\ net'[i].files = net[i].files
                         /\ net'[i].to # "none" => /\ net[i].to # "none"
                                                   /\ net'[i].files = net[i].files
      BY DEF SameRequest, NoRequest
    <2>3. ReplaceHolds'
      BY <2>1, <2>2 DEF Snap, ReplaceHolds
    <2>4. DiskHolds'
      BY <2>1 DEF Snap, DiskHolds, Marked
    <2>5. Marked /\ run.pc \notin Rewriting => disk.pdf # Absent /\ disk.json # Absent
      BY <2>1 DEF Snap, DiskHolds
    <2>6. ASSUME NEW t \in Targets, Settled(t), Marked, run.pc \notin Rewriting
          PROVE  Settled(t)'
      BY <1>2, <2>1, <2>5, <2>6
    <2>7. SettledHolds'
      <3>1. marker.drive => marker.target \in Targets /\ Marked
        BY DEF NetInv, StatusHolds, Marked, NoMarker
      <3>2. run.pc \in Sending => Marked /\ run.pc \notin Rewriting
                                  /\ run.status.target \in Targets
        BY <2>1 DEF Snap, NothingSent, NetInv, StatusHolds, Sending, Rewriting
      <3>3. run.answer = "ok" => run.pc \in Sending
        BY DEF NetInv, AwaitHolds, Sending
      <3>4. ASSUME run.pc = "oauth", budget.forced = 0
            PROVE  drive'[run.status.target].pdf = disk.pdf
        <4>1. run.status.target \in OAuthTargets /\ run.status.target \in Targets
          BY <3>4 DEF NetInv, StatusHolds, Targets
        <4>2. \A i \in Ids : net[i].to # run.status.target
          BY <4>1, TargetsAssumption DEF NetInv, Remote, RemoteTyped, Requests
        <4>3. drive[run.status.target].pdf = disk.pdf
          BY <2>1, <3>4 DEF Snap, SettledHolds
        <4> QED BY <4>1, <4>2, <4>3 DEF FileNames
      <3>5. marker.drive /\ run.pc \notin Rewriting /\ Counts(marker.target)
              => Settled(marker.target)'
        BY <2>1, <2>6, <3>1 DEF Snap, SettledHolds
      <3>6. run.pc \in Sending /\ run.status.drive /\ Counts(run.status.target)
              => Settled(run.status.target)'
        BY <2>1, <2>6, <3>2 DEF Snap, SettledHolds
      <3>7. run'.answer = "ok" => Settled(run.status.target)'
        BY <1>2, <2>1, <2>6, <3>2, <3>3 DEF Snap, SettledHolds
      <3> QED BY <3>4, <3>5, <3>6, <3>7 DEF SettledHolds, Counts, Settled
    <2>8. ~Marked' => NothingSent'
      BY <2>1, <2>2, TargetsAssumption DEF Snap, NothingSent, Marked
    <2>9. Marked' /\ budget'.forced = 0 => OneHolds'
      <3>1. ASSUME OneHolds, NEW t \in Targets, NEW f \in FileNames
            PROVE  drive'[t][f] \in {Absent, disk[f]}
        <4>1. \A i \in Ids : net[i].to = t => net[i].files = disk
          BY <3>1, TargetsAssumption DEF OneHolds
        <4> QED BY <3>1, <4>1 DEF OneHolds
      <3> QED BY <2>1, <2>2, <3>1 DEF Snap, OneHolds, AllMailed, Marked
    <2> QED BY <2>3, <2>4, <2>7, <2>8, <2>9 DEF Snap
  <1> QED BY <1>1, <1>2 DEF SnapInv

\* An answer that is not "ok" says nothing about a destination.
LEMMA AnswerError ==
    ASSUME LocalTyped, NEW i, run' = run \/ Answer(i, "error")
    PROVE  /\ run'.pc = run.pc /\ run'.status = run.status /\ run'.mode = run.mode
           /\ run'.made = run.made
           /\ ~(run'.answer = "ok" /\ run.answer # "ok")
  BY AnswerKeeps

\* What is admitted for a settled destination is the snapshot it holds.
LEMMA AdmitSnapInv == ASSUME RInv, NetInv, SnapInv, NEW i \in Ids, Admit(i) PROVE SnapInv'
  <1>1. /\ UNCHANGED <<disk, marker, mail, made, budget, drive>>
        /\ run' = run \/ Answer(i, "error")
        /\ \/ script' = script
           \/ /\ \A f \in FileNames : Writable(i, f)
              /\ script' = [id |-> i, left |-> {f \in FileNames :
                                                  drive[net[i].to][f] # net[i].files[f]}]
    BY DEF Admit, localVars, FileNames
  <1>2. \A j \in Ids : SameRequest(j)
    BY AdmitRemote DEF NetInv
  <1>3. net \in [Ids -> Requests] /\ drive \in [Targets -> Pairs] /\ disk \in Pairs
    BY DEF NetInv, Remote, RemoteTyped, RInv, LocalTyped, Pairs
  <1>4. ASSUME Orderly, Snap, disk.pdf # Absent, disk.json # Absent,
               NEW t \in Targets, Settled(t)
        PROVE  Settled(t)'
    <2>1. CASE script' = script
      <3>1. script.id # 0 => script.id \in Ids
        BY DEF NetInv, Remote, ScriptHolds
      <3> QED BY <1>1, <1>2, <1>4, <2>1, <3>1 DEF Settled, SameRequest
    <2>2. CASE /\ \A f \in FileNames : Writable(i, f)
               /\ script' = [id |-> i, left |-> {f \in FileNames :
                                                   drive[net[i].to][f] # net[i].files[f]}]
      <3>1. CASE net[i].to # t
        BY <1>1, <1>2, <1>4, <2>2, <3>1 DEF Settled, SameRequest
      <3>2. CASE net[i].to = t
        <4>1. drive[t] = disk
          BY <1>4 DEF Settled
        <4>2. ASSUME NEW f \in FileNames PROVE drive[t][f] = net[i].files[f]
          <5>1. drive[t][f] = disk[f] /\ disk[f] # Absent
            BY <1>4, <4>1 DEF FileNames
          <5>2. net[i].replace => net[i].files = disk
            BY <1>4 DEF Snap, ReplaceHolds
          <5> QED BY <2>2, <3>2, <5>1, <5>2 DEF Writable
        <4>3. script'.left = {}
          BY <2>2, <3>2, <4>2
        <4> QED BY <1>1, <4>1, <4>3 DEF Settled
      <3> QED BY <3>1, <3>2
    <2> QED BY <1>1, <2>1, <2>2
  <1>5. Orderly' = Orderly
    BY <1>1 DEF Orderly, Cut
  <1>6. /\ run'.pc = run.pc /\ run'.status = run.status /\ run'.mode = run.mode
        /\ run'.made = run.made
        /\ ~(run'.answer = "ok" /\ run.answer # "ok")
    BY <1>1, AnswerError DEF RInv
  <1> QED BY <1>1, <1>2, <1>4, <1>5, <1>6, ReceiverSnapInv

\* Steps that leave destinations and receiver alone.
LEMMA RequestsSnapInv ==
    ASSUME RInv, NetInv, SnapInv,
           (\E i \in Ids : Refuse(i) \/ Duplicate(i)) \/ Tick
    PROVE  SnapInv'
  <1>1. /\ UNCHANGED <<disk, marker, mail, made, drive, script>>
        /\ Fault \/ UNCHANGED budget
        /\ run' = run \/ \E i \in Ids : Answer(i, "error")
    <2>1. CASE \E i \in Ids : Refuse(i)
      BY <2>1 DEF Refuse, localVars
    <2>2. CASE \E i \in Ids : Duplicate(i)
      BY <2>2 DEF Duplicate, localVars
    <2>3. CASE Tick
      BY <2>3 DEF Tick, localVars
    <2> QED BY <2>1, <2>2, <2>3
  <1>2. \A j \in Ids : SameRequest(j) \/ (net'[j] = NoRequest /\ script.id # j)
    BY RefuseRemote, DuplicateRemote, TickRemote DEF NetInv
  <1>3. ASSUME NEW t \in Targets, Settled(t) PROVE Settled(t)'
    <2>1. script.id # 0 => script.id \in Ids /\ SameRequest(script.id)
      BY <1>2 DEF NetInv, Remote, ScriptHolds
    <2> QED BY <1>1, <1>3, <2>1 DEF Settled, SameRequest
  <1>4. budget'.forced = budget.forced /\ Orderly' = Orderly
    BY <1>1, FaultKeepsOrder DEF RInv
  <1>5. /\ run'.pc = run.pc /\ run'.status = run.status /\ run'.mode = run.mode
        /\ run'.made = run.made
        /\ ~(run'.answer = "ok" /\ run.answer # "ok")
    BY <1>1, AnswerError DEF RInv
  <1> QED BY <1>1, <1>2, <1>3, <1>4, <1>5, ReceiverSnapInv

\* What is still written to a settled destination is the snapshot it holds.
LEMMA StoreFileSnapInv == ASSUME RInv, NetInv, SnapInv, StoreFile PROVE SnapInv'
  <1> DEFINE r == net[script.id]
  <1>1. /\ UNCHANGED <<disk, marker, mail, made, run, net, budget>> /\ script.left # {}
    BY DEF StoreFile, localVars
  <1>2. /\ drive' \in [Targets -> Pairs] /\ script.id \in Ids
        /\ script'.id = script.id /\ script'.left \subseteq script.left
        /\ \A t \in Targets, f \in FileNames :
              drive'[t][f] = IF t = r.to /\ f \in script.left \ script'.left
                             THEN r.files[f] ELSE drive[t][f]
    BY StoreFileRemote DEF NetInv, Remote, RemoteTyped
  <1>3. disk \in Pairs
    BY DEF RInv, LocalTyped, Pairs
  <1>4. ASSUME NEW t \in Targets, Settled(t) PROVE Settled(t)'
    <2>1. drive[t] = disk /\ (r.to = t => r.files = disk)
      BY <1>1, <1>2, <1>4, ReporterBounds DEF Settled
    <2>2. drive'[t].pdf = disk.pdf /\ drive'[t].json = disk.json
      BY <1>2, <2>1 DEF FileNames
    <2>3. drive'[t] = disk
      BY <1>2, <1>3, <2>2 DEF Pairs
    <2> QED BY <1>1, <1>2, <2>1, <2>3 DEF Settled
  <1>5. \A i \in Ids : SameRequest(i)
    BY <1>1 DEF SameRequest
  <1>6. Orderly' = Orderly
    BY <1>1 DEF Orderly, Cut
  <1>7. \A t \in Targets, f \in FileNames :
           \/ drive'[t][f] = drive[t][f]
           \/ \E i \in Ids : net[i].to = t /\ drive'[t][f] = net[i].files[f]
    BY <1>2
  <1> QED BY <1>1, <1>4, <1>5, <1>6, <1>7, ReceiverSnapInv

\* The answer "ok" means that the destination holds both files.
LEMMA ReleaseSnapInv == ASSUME RInv, NetInv, SnapInv, Reply \/ StoreFails PROVE SnapInv'
  <1>1. /\ UNCHANGED <<disk, marker, mail, made, net, drive>>
        /\ Fault \/ UNCHANGED budget
        /\ script' = NotRunning
    BY DEF Reply, StoreFails, localVars
  <1>2. \A t \in Targets : drive[t] = disk => Settled(t)'
    BY <1>1 DEF Settled, NotRunning
  <1>3. budget'.forced = budget.forced /\ Orderly' = Orderly
    BY <1>1, FaultKeepsOrder DEF RInv
  <1>4. \A i \in Ids : SameRequest(i)
    BY <1>1 DEF SameRequest
  <1>5. /\ run'.pc = run.pc /\ run'.status = run.status /\ run'.mode = run.mode
        /\ run'.made = run.made
        /\ run'.answer = "ok" /\ run.answer # "ok" =>
             Reply /\ run.pc = "await" /\ run.id = script.id
    BY AnswerKeeps, AnswerError DEF Reply, StoreFails, RInv
  <1>6. ASSUME Reply, run.pc = "await", run.id = script.id
        PROVE  Settled(run.status.target)'
    <2>1. /\ script.id \in Ids /\ script.id # 0 /\ script.left = {}
          /\ net[script.id].to = run.status.target /\ net[script.id].files = disk
          /\ run.status.target \in Targets
      BY <1>6 DEF Reply, NetInv, AwaitHolds, StatusHolds
    <2>2. \A f \in FileNames : drive[run.status.target][f] = disk[f]
      BY <2>1 DEF NetInv, Remote, ScriptHolds
    <2>3. drive[run.status.target] \in Pairs /\ disk \in Pairs
      BY <2>1 DEF NetInv, Remote, RemoteTyped, RInv, LocalTyped, Pairs
    <2>4. drive[run.status.target] = disk
      BY <2>2, <2>3 DEF Pairs, FileNames
    <2> QED BY <1>1, <1>5, <2>4 DEF Settled, NotRunning
  <1>7. ASSUME NEW t \in Targets, Settled(t) PROVE Settled(t)'
    BY <1>2, <1>7 DEF Settled
  <1> QED BY <1>1, <1>3, <1>4, <1>5, <1>6, <1>7, ReceiverSnapInv

LEMMA NextSnapInv == RInv /\ NetInv /\ SnapInv /\ [Next]_vars => SnapInv'
  <1> SUFFICES ASSUME RInv, NetInv, SnapInv, [Next]_vars PROVE SnapInv'
    OBVIOUS
  <1>1. CASE Start
    BY <1>1, ResumeSnapInv, RegenerateSnapInv DEF Start
  <1>2. CASE ReadBilling
    <2>1. UNCHANGED <<run, disk, marker, drive, net, script, mail, made, budget>>
      BY <1>2 DEF ReadBilling, localVars, remoteVars
    <2> QED BY <2>1, SameSnapInv, FaultKeepsOrder DEF RInv
  <1>3. CASE BillingFails \/ WritePdf \/ WriteJson \/ WriteMarker
    BY <1>3, EndingSnapInv, WritePdfSnapInv, WriteJsonSnapInv, WriteMarkerSnapInv
  <1>4. CASE Deliver
    BY <1>4, SendRequestSnapInv, EndingSnapInv, AnswerArrivesSnapInv, UpsertSnapInv,
       SendSnapInv, SaveMarkerSnapInv DEF Deliver
  <1>5. CASE Disturb
    <2>1. ASSUME NEW t \in Targets, Reconfigure(t) PROVE SnapInv'
      <3>1. UNCHANGED <<run, disk, marker, drive, net, script, mail, made>> /\ Fault
        BY <2>1 DEF Reconfigure, remoteVars
      <3> QED BY <3>1, SameSnapInv, FaultKeepsOrder DEF RInv
    <2> QED BY <1>5, <2>1, EndingSnapInv, CrashSnapInv, ReleaseSnapInv, SendSnapInv,
               RequestsSnapInv DEF Disturb
  <1>6. CASE (\E i \in Ids : Receive(i)) \/ StoreFile \/ Reply \/ Tick
    BY <1>6, AdmitSnapInv, RequestsSnapInv, StoreFileSnapInv, ReleaseSnapInv DEF Receive
  <1>7. CASE UNCHANGED vars
    <2>1. UNCHANGED <<run, disk, marker, drive, net, script, mail, made, budget>>
      BY <1>7 DEF vars
    <2> QED BY <2>1, SameSnapInv, FaultKeepsOrder DEF RInv
  <1> QED BY <1>1, <1>2, <1>3, <1>4, <1>5, <1>6, <1>7 DEF Next

LEMMA SnapInvariance == Spec => []SnapInv
  BY InitSnapInv, NextSnapInv, RInvariance, NetInvariance, PTL DEF Spec

\* What the delivery marker records as uploaded is on that destination, and stays
\* there (run_report's marker against DrivePublisher and doPost).
THEOREM MarkerIsTrue == Spec => []RecordedIsStored
  <1>1. SnapInv => RecordedIsStored
    <2> SUFFICES ASSUME SnapInv, marker.drive, Orderly,
                        run.mode = "force" => run.pc \notin Rewriting,
                        Counts(marker.target)
                 PROVE  drive[marker.target] = disk
      BY DEF RecordedIsStored, Orderly, Rewriting, Counts
    <2>1. Snap /\ Marked
      BY DEF SnapInv, Marked, NoMarker
    <2>2. run.pc \notin Rewriting
      BY <2>1 DEF Snap, DiskHolds, Rewriting, Writing
    <2> QED BY <2>1, <2>2 DEF Snap, SettledHolds, Settled
  <1> QED BY <1>1, SnapInvariance, PTL

\* Until a resend is forced, the report of a date is one snapshot everywhere
\* (run_report, which goes on with the files of the marker).
THEOREM ReportIsOneSnapshot == Spec => []OneSnapshot
  <1>1. ASSUME RInv, NetInv, SnapInv PROVE OneSnapshot
    <2> DEFINE sent == UNION {UNION {{m.pdf, m.body} : m \in {mail[c][k] : k \in DOMAIN mail[c]}}
                              : c \in Channels}
               kept == {drive[t][f] : t \in Targets, f \in {"pdf", "json"}} \ {Absent}
    <2> SUFFICES ASSUME budget.forced = 0 PROVE Cardinality(sent \union kept) <= 1
      BY DEF OneSnapshot
    <2>1. Snap
      BY <1>1 DEF SnapInv, Orderly, Cut
    <2>2. sent \subseteq {disk.json} /\ kept \subseteq {disk.json}
      <3>1. CASE ~Marked
        <4>1. NothingSent
          BY <2>1, <3>1 DEF Snap
        <4>2. sent = {}
          BY <4>1 DEF NothingSent
        <4>3. kept = {}
          BY <4>1 DEF NothingSent, FileNames
        <4> QED BY <4>2, <4>3
      <3>2. CASE Marked
        <4>1. OneHolds
          BY <2>1, <3>2 DEF Snap
        <4>2. disk.pdf = disk.json
          <5>1. run.pc \notin Rewriting
            BY <1>1, <2>1, <3>2 DEF Snap, SnapInv, ModeHolds, DiskHolds, Rewriting, Writing
          <5> QED BY <2>1, <3>2, <5>1 DEF Snap, DiskHolds
        <4>3. sent \subseteq {disk.json}
          BY <4>1, <4>2 DEF OneHolds, AllMailed
        <4>4. kept \subseteq {disk.json}
          BY <4>1, <4>2 DEF OneHolds, FileNames
        <4> QED BY <4>3, <4>4
      <3> HIDE DEF sent, kept
      <3> QED BY <3>1, <3>2
    <2> HIDE DEF sent, kept
    <2>3. IsFiniteSet({disk.json}) /\ Cardinality({disk.json}) = 1
      BY FS_Singleton
    <2> QED BY <2>2, <2>3, FS_Subset
  <1> QED BY <1>1, RInvariance, NetInvariance, SnapInvariance, PTL

-----------------------------------------------------------------------------
(***************************************************************************)
(* Types: the number of snapshots, and what the files can hold.            *)
(***************************************************************************)
Spent == budget.forced + budget.inspected + budget.crashes

\* A run that was paid for has not written its files yet.
Owed == IF run.pc = "fetch" /\ run.mode # "send" THEN 1 ELSE 0
\* Ordinary runs write files once, and not again when there is a marker.
First == IF Marked \/ (run.pc \in Rewriting /\ run.mode = "send") THEN 1 ELSE 0

MadeHolds ==
    /\ budget.forced <= MaxForced /\ budget.inspected <= MaxInspected
    /\ budget.crashes <= MaxCrashes
    /\ run.pc \in Writing /\ run.mode # "force" => ~Marked
    /\ made + Owed <= Spent + First

LEMMA StaysBelow ==
    ASSUME NEW m \in Nat, NEW s \in Nat, NEW o \in 0..1, NEW p \in 0..1, NEW f \in 0..1,
           NEW g \in 0..1, p <= o, f <= g, m + o <= s + f
    PROVE  m + p <= s + g
  OBVIOUS

\* A step that writes no snapshot and loses none.
LEMMA FrameCounted ==
    ASSUME LocalTyped, MadeHolds, made' = made,
           budget'.forced = budget.forced, budget'.inspected = budget.inspected,
           budget'.crashes = budget.crashes,
           Marked => Marked',
           \/ run'.pc = run.pc /\ run'.mode = run.mode /\ (Marked' <=> Marked)
           \/ /\ run'.pc \notin Writing
              /\ run.pc \in Rewriting /\ run.mode = "send" => Marked'
    PROVE  MadeHolds'
  <1>1. Spent' = Spent /\ Spent \in Nat /\ made \in Nat
    BY DEF Spent, LocalTyped, Budgets
  <1>2. Owed' <= Owed /\ First <= First' /\ Owed \in 0..1 /\ First \in 0..1
        /\ Owed' \in 0..1 /\ First' \in 0..1
    BY DEF Owed, First, Writing
  <1>3. run'.pc \in Writing /\ run'.mode # "force" => ~Marked'
    BY DEF MadeHolds
  <1>4. made + Owed <= Spent + First
    BY DEF MadeHolds
  <1>5. made' + Owed' <= Spent' + First'
    <2>1. made + Owed' <= Spent + First'
      BY <1>1, <1>2, <1>4, StaysBelow
    <2> QED BY <1>1, <2>1
  <1> QED BY <1>3, <1>5 DEF MadeHolds

LEMMA FaultSpends ==
    ASSUME LocalTyped, Fault \/ UNCHANGED budget
    PROVE  /\ budget'.forced = budget.forced /\ budget'.inspected = budget.inspected
           /\ budget'.crashes = budget.crashes
  BY DEF Fault, LocalTyped, Budgets

LEMMA RegenerateCounted ==
    ASSUME RInv, MadeHolds, NEW mode \in Modes, Regenerate(mode)
    PROVE  MadeHolds'
  <1> DEFINE f == budget.forced + (IF mode = "force" THEN 1 ELSE 0)
             n == budget.inspected + (IF mode = "inspect" THEN 1 ELSE 0)
  <1>1. /\ run.pc = "idle" /\ marker' = marker /\ made' = made
        /\ run' = [NoRun EXCEPT !.pc = "fetch", !.mode = mode,
                                !.status = FreshMarker(target, mode = "force")]
        /\ Marked => mode = "force"
        /\ mode = "force" => budget.forced < MaxForced
        /\ mode = "inspect" => budget.inspected < MaxInspected
        /\ budget' = [budget EXCEPT !.forced = f, !.inspected = n]
    BY DEF Regenerate, Reuses, localVars, Modes
  <1>2. /\ budget.forced \in Nat /\ budget.inspected \in Nat /\ budget.crashes \in Nat
        /\ made \in Nat /\ budget \in Budgets
    BY DEF RInv, LocalTyped, Budgets
  <1>3. /\ f <= MaxForced /\ n <= MaxInspected /\ f \in Nat /\ n \in Nat
        /\ f + n = budget.forced + budget.inspected + (IF mode # "send" THEN 1 ELSE 0)
    BY <1>1, <1>2, ReporterBounds DEF MadeHolds, Modes
  <1> HIDE DEF f, n
  <1>4. budget'.forced = f /\ budget'.inspected = n /\ budget'.crashes = budget.crashes
    BY <1>1, <1>2 DEF Budgets
  <1>5. run'.pc = "fetch" /\ run'.mode = mode
    BY <1>1 DEF NoRun
  <1>6. Owed = 0 /\ Owed' = (IF mode # "send" THEN 1 ELSE 0) /\ First' = First /\ First \in 0..1
    BY <1>1, <1>5 DEF Owed, First, Rewriting, Marked
  <1>7. Spent' = Spent + (IF mode # "send" THEN 1 ELSE 0) /\ Spent \in Nat
    BY <1>2, <1>3, <1>4 DEF Spent
  <1> QED BY <1>1, <1>2, <1>3, <1>4, <1>5, <1>6, <1>7 DEF MadeHolds, Marked

LEMMA WritePdfCounted == ASSUME RInv, MadeHolds, WritePdf PROVE MadeHolds'
  <1>1. /\ run.pc = "fetch" /\ made' = made + 1 /\ UNCHANGED <<marker, budget>>
        /\ run' = [run EXCEPT !.pc = "json", !.made = made']
    BY DEF WritePdf
  <1>2. run'.pc = "json" /\ run'.mode = run.mode /\ run.mode \in Modes
        /\ made \in Nat /\ budget \in Budgets
    BY <1>1 DEF RInv, LocalTyped, Runs
  <1>3. Spent' = Spent /\ Spent \in Nat
    BY <1>1, <1>2 DEF Spent, Budgets
  <1>4. CASE run.mode = "send"
    <2>1. Owed = 0 /\ Owed' = 0 /\ First = 0 /\ First' = 1
      BY <1>1, <1>2, <1>4 DEF Owed, First, MadeHolds, Writing, Rewriting
    <2> QED BY <1>1, <1>2, <1>3, <2>1 DEF MadeHolds, Writing, Marked
  <1>5. CASE run.mode # "send"
    <2>1. Owed = 1 /\ Owed' = 0 /\ First' = First /\ First \in 0..1
      BY <1>1, <1>2, <1>5 DEF Owed, First, Marked
    <2> QED BY <1>1, <1>2, <1>3, <2>1 DEF MadeHolds, Writing, Marked
  <1> QED BY <1>4, <1>5

LEMMA WriteJsonCounted == ASSUME RInv, MadeHolds, WriteJson PROVE MadeHolds'
  <1>1. /\ run.pc = "json" /\ UNCHANGED <<marker, budget, made>>
        /\ IF run.mode = "inspect" THEN run' = NoRun ELSE run' = [run EXCEPT !.pc = "mark"]
    BY DEF WriteJson, EndRun, Goto
  <1>2. CASE run.mode = "inspect"
    BY <1>1, <1>2, FrameCounted, FaultSpends DEF RInv, NoRun, Writing, Marked
  <1>3. CASE run.mode # "inspect"
    <2>1. run'.pc = "mark" /\ run'.mode = run.mode
      BY <1>1, <1>3 DEF RInv, LocalTyped, Runs
    <2>2. Owed' = Owed /\ First' = First /\ Spent' = Spent
      BY <1>1, <2>1 DEF Owed, First, Spent, Rewriting, Marked
    <2> QED BY <1>1, <2>1, <2>2 DEF MadeHolds, Writing, Marked
  <1> QED BY <1>2, <1>3

LEMMA CrashCounted == ASSUME RInv, MadeHolds, Crash PROVE MadeHolds'
  <1>1. /\ run' = NoRun /\ UNCHANGED <<marker, made>> /\ budget.crashes < MaxCrashes
        /\ budget' = [budget EXCEPT !.crashes = budget.crashes + 1]
    BY DEF Crash, EndRun
  <1>2. /\ budget.forced \in Nat /\ budget.inspected \in Nat /\ budget.crashes \in Nat
        /\ made \in Nat /\ budget \in Budgets
    BY DEF RInv, LocalTyped, Budgets
  <1>3. /\ budget'.forced = budget.forced /\ budget'.inspected = budget.inspected
        /\ budget'.crashes = budget.crashes + 1
    BY <1>1, <1>2 DEF Budgets
  <1>4. Owed \in 0..1 /\ First \in 0..1 /\ Owed' = 0 /\ First' \in 0..1
    BY <1>1 DEF Owed, First, NoRun
  <1>5. Spent' = Spent + 1 /\ Spent \in Nat
    BY <1>2, <1>3 DEF Spent
  <1>6. budget'.crashes <= MaxCrashes
    BY <1>1, <1>2, <1>3, ReporterBounds
  <1>7. made' + Owed' <= Spent' + First'
    BY <1>1, <1>2, <1>4, <1>5 DEF MadeHolds
  <1> QED BY <1>1, <1>3, <1>6, <1>7 DEF MadeHolds, NoRun, Writing

LEMMA NextCounted == RInv /\ NetInv /\ MadeHolds /\ [Next]_vars => MadeHolds'
  <1> SUFFICES ASSUME RInv, NetInv, MadeHolds, [Next]_vars PROVE MadeHolds'
    OBVIOUS
  <1>0. LocalTyped /\ run \in Runs
    BY DEF RInv, LocalTyped
  <1>1. ASSUME NEW mode \in Modes, Resume(mode) PROVE MadeHolds'
    <2>1. /\ UNCHANGED <<marker, made, budget>> /\ run.pc = "idle" /\ run'.pc = "deliver"
      BY <1>1 DEF Resume, localVars, NoRun
    <2> QED BY <1>0, <2>1, FrameCounted DEF Writing, Rewriting, Marked
  <1>2. CASE ReadBilling \/ (\E t \in Targets : Reconfigure(t)) \/ UNCHANGED vars
    <2>1. UNCHANGED <<marker, made, run>> /\ (Fault \/ UNCHANGED budget)
      BY <1>2 DEF ReadBilling, Reconfigure, vars, localVars
    <2> QED BY <1>0, <2>1, FrameCounted, FaultSpends DEF Marked
  <1>3. CASE \/ BillingFails \/ RefuseTorn \/ FinishRun \/ AnswerLost \/ CallFails
             \/ AnswerArrives \/ UpsertPdf \/ UpsertJson
             \/ \E c \in Channels : SendTo(c) \/ SendUnanswered(c)
             \/ \E i \in Ids : SendRequest(i)
    <2>1. /\ UNCHANGED <<marker, made>> /\ (Fault \/ UNCHANGED budget)
          /\ run.pc \notin Rewriting
      BY <1>3 DEF BillingFails, RefuseTorn, FinishRun, AnswerLost, CallFails, AnswerArrives,
         UpsertPdf, UpsertJson, Upsert, SendTo, SendUnanswered, SendRequest, localVars, Rewriting
    <2>2. run'.pc \notin Writing
      <3>1. CASE BillingFails \/ RefuseTorn \/ FinishRun \/ AnswerLost \/ CallFails
        BY <3>1 DEF BillingFails, RefuseTorn, FinishRun, AnswerLost, CallFails, EndRun, NoRun,
           Writing
      <3>2. CASE AnswerArrives
        <4>1. \/ run' = NoRun
              \/ run' = [run EXCEPT !.pc = "save", !.status = Uploaded(run.status), !.id = 0,
                                    !.answer = "none"]
          BY <3>2 DEF AnswerArrives, EndRun
        <4>2. run' = NoRun => run'.pc = "idle"
          BY DEF NoRun
        <4>3. run' # NoRun => run'.pc \in {"oauth", "save"}
          BY <1>0, <4>1 DEF Runs
        <4> QED BY <4>2, <4>3 DEF Writing
      <3>3. CASE UpsertPdf \/ UpsertJson
        <4>1. PICK to \in {"oauth", "save"} :
                 \/ run' = NoRun
                 \/ run' = [run EXCEPT !.pc = to,
                                       !.status = IF to = "save" THEN Uploaded(run.status)
                                                  ELSE run.status]
          BY <3>3 DEF UpsertPdf, UpsertJson, Upsert, EndRun
        <4>2. run' = NoRun => run'.pc = "idle"
          BY DEF NoRun
        <4>3. run' # NoRun => run'.pc \in {"oauth", "save"}
          BY <1>0, <4>1 DEF Runs
        <4> QED BY <4>2, <4>3 DEF Writing
      <3>4. ASSUME NEW c \in Channels, SendTo(c) PROVE run'.pc \notin Writing
        BY <1>0, <3>4 DEF SendTo, Writing, Runs
      <3>5. ASSUME NEW c \in Channels, SendUnanswered(c) PROVE run'.pc \notin Writing
        BY <1>0, <3>5 DEF SendUnanswered, EndRun, NoRun, Writing
      <3>6. ASSUME NEW i \in Ids, SendRequest(i) PROVE run'.pc \notin Writing
        BY <1>0, <3>6 DEF SendRequest, Writing, Runs
      <3> QED BY <1>3, <3>1, <3>2, <3>3, <3>4, <3>5, <3>6
    <2> QED BY <1>0, <2>1, <2>2, FrameCounted, FaultSpends DEF Marked
  <1>4. CASE WriteMarker \/ SaveMarker
    <2>1. /\ UNCHANGED <<made, budget>> /\ run.pc \in {"mark", "save"}
          /\ marker' = run.status /\ run' = [run EXCEPT !.pc = "deliver"]
      BY <1>4 DEF WriteMarker, SaveMarker, Goto
    <2>2. Marked' /\ run'.pc = "deliver"
      BY <1>0, <2>1, TargetsAssumption DEF Marked, NoMarker, NetInv, StatusHolds, Runs
    <2> QED BY <1>0, <2>1, <2>2, FrameCounted DEF Writing
  <1>5. CASE \/ \E i \in Ids : Receive(i) \/ Duplicate(i)
             \/ StoreFile \/ StoreFails \/ Reply \/ Tick
    <2>1. /\ UNCHANGED <<marker, made>> /\ (Fault \/ UNCHANGED budget)
          /\ run' = run \/ \E i \in Ids \union {script.id}, a \in {"ok", "error"} : Answer(i, a)
      <3>1. CASE \E i \in Ids : Receive(i) \/ Duplicate(i)
        BY <3>1 DEF Receive, Admit, Refuse, Duplicate, localVars
      <3>2. CASE StoreFile \/ StoreFails \/ Reply \/ Tick
        BY <3>2 DEF StoreFile, StoreFails, Reply, Tick, localVars
      <3> QED BY <1>5, <3>1, <3>2
    <2>2. run'.pc = run.pc /\ run'.mode = run.mode
      BY <1>0, <2>1, AnswerKeeps
    <2> QED BY <1>0, <2>1, <2>2, FrameCounted, FaultSpends DEF Marked
  <1> QED BY <1>1, <1>2, <1>3, <1>4, <1>5, RegenerateCounted, WritePdfCounted, WriteJsonCounted,
             CrashCounted DEF Next, Start, Deliver, Disturb

\* The number of snapshots stays below the number of a torn file.
LEMMA MadeBound ==
    ASSUME RInv, MadeHolds
    PROVE  /\ MaxMade \in Nat /\ Torn = MaxMade + 1 /\ made <= MaxMade
           /\ Absent \in Contents /\ Torn \in Contents /\ 0..MaxMade \subseteq Contents
  <1>1. /\ budget.forced \in Nat /\ budget.inspected \in Nat /\ budget.crashes \in Nat
        /\ made \in Nat
    BY DEF RInv, LocalTyped, Budgets
  <1>2. MaxForced \in Nat /\ MaxInspected \in Nat /\ MaxCrashes \in Nat
    BY ReporterBounds
  <1>3. Owed \in 0..1 /\ First \in 0..1
    BY DEF Owed, First
  <1>4. MaxMade \in Nat /\ made <= MaxMade
    BY <1>1, <1>2, <1>3 DEF MadeHolds, Spent, MaxMade
  <1> QED BY <1>4 DEF Torn, Contents, Absent
-----------------------------------------------------------------------------
(* Every file and message holds the number of a snapshot *)

Letters == [pdf: Contents, body: Contents]
Bounded ==
    /\ disk \in Files /\ run.made \in Contents
    /\ drive \in [Targets -> Files]
    /\ \A i \in Ids : net[i].files \in Files
    /\ mail \in [Channels -> Seq(Letters)]

LEMMA AcceptBounded ==
    ASSUME Bounded, NEW c \in Channels, Accept(c)
    PROVE  mail' \in [Channels -> Seq(Letters)]
  <1> DEFINE m == [pdf |-> disk.pdf, body |-> run.made]
  <1>1. m \in Letters
    BY DEF Bounded, Files, Letters
  <1>2. mail' = [mail EXCEPT ![c] = Append(mail[c], m)]
    BY DEF Accept
  <1> HIDE DEF m
  <1>3. mail[c] \in Seq(Letters) /\ Append(mail[c], m) \in Seq(Letters)
    BY <1>1 DEF Bounded
  <1> QED BY <1>2, <1>3 DEF Bounded

\* Files that are copied from files.
LEMMA CopiedBounded ==
    ASSUME Bounded, drive' \in [Targets -> Pairs],
           \A t \in Targets, f \in FileNames :
              \/ drive'[t][f] \in {drive[t][f], disk[f]}
              \/ \E i \in Ids : drive'[t][f] = net[i].files[f]
    PROVE  drive' \in [Targets -> Files]
  <1> SUFFICES ASSUME NEW t \in Targets PROVE drive'[t] \in Files
    OBVIOUS
  <1>1. /\ drive'[t].pdf \in Contents /\ drive'[t].json \in Contents
    BY DEF Bounded, Files, FileNames
  <1> QED BY <1>1 DEF Pairs, Files

LEMMA NextBounded ==
    ASSUME RInv, NetInv, MadeHolds, RInv', NetInv', MadeHolds', Bounded, [Next]_vars
    PROVE  Bounded'
  <1>0. /\ LocalTyped /\ run \in Runs /\ Remote
        /\ Absent \in Contents /\ Torn \in Contents /\ 0..MaxMade \subseteq Contents
    BY MadeBound DEF RInv, LocalTyped, NetInv
  <1>a. ASSUME UNCHANGED <<drive, net, mail>>, disk' \in Files, run'.made \in Contents
        PROVE  Bounded'
    BY <1>a DEF Bounded
  <1>b. NoRun.made \in Contents
    BY <1>0 DEF NoRun, Absent
  <1>1. ASSUME NEW mode \in Modes, Resume(mode) \/ Regenerate(mode) PROVE Bounded'
    <2>1. UNCHANGED <<drive, net, mail, disk>> /\ run'.made \in {0, disk.json}
      BY <1>1 DEF Resume, Regenerate, localVars, remoteVars, NoRun
    <2> QED BY <1>0, <1>a, <2>1 DEF Bounded, Files, Absent
  <1>2. CASE ReadBilling \/ (\E t \in Targets : Reconfigure(t)) \/ UNCHANGED vars
    <2>1. UNCHANGED <<drive, net, mail, disk, run>>
      BY <1>2 DEF ReadBilling, Reconfigure, vars, localVars, remoteVars
    <2> QED BY <1>a, <2>1 DEF Bounded
  <1>3. CASE \/ BillingFails \/ RefuseTorn \/ FinishRun \/ AnswerLost \/ CallFails
             \/ AnswerArrives \/ WriteMarker \/ SaveMarker
    <2>1. UNCHANGED <<drive, net, mail, disk>> /\ run'.made \in {NoRun.made, run.made}
      <3>1. CASE BillingFails \/ RefuseTorn \/ FinishRun \/ AnswerLost \/ CallFails
        BY <3>1 DEF BillingFails, RefuseTorn, FinishRun, AnswerLost, CallFails, EndRun,
           localVars, remoteVars
      <3>2. CASE AnswerArrives
        BY <1>0, <3>2 DEF AnswerArrives, EndRun, localVars, remoteVars, Runs
      <3>3. CASE WriteMarker \/ SaveMarker
        BY <1>0, <3>3 DEF WriteMarker, SaveMarker, Goto, remoteVars, Runs
      <3> QED BY <1>3, <3>1, <3>2, <3>3
    <2> QED BY <1>a, <1>b, <2>1 DEF Bounded
  <1>4. CASE WritePdf
    <2>1. /\ UNCHANGED <<drive, net, mail>> /\ disk' = [disk EXCEPT !.pdf = made']
          /\ run' = [run EXCEPT !.pc = "json", !.made = made']
      BY <1>4 DEF WritePdf, remoteVars
    <2>2. made' \in Contents
      <3>1. made' \in Nat /\ made' <= MaxMade
        <4>1. /\ budget' \in Budgets /\ made' \in Nat
              /\ made' + Owed' <= Spent' + First'
              /\ budget'.forced <= MaxForced /\ budget'.inspected <= MaxInspected
              /\ budget'.crashes <= MaxCrashes
          BY DEF RInv, LocalTyped, MadeHolds
        <4>2. Owed' \in 0..1 /\ First' \in 0..1
          BY DEF Owed, First
        <4> QED BY <4>1, <4>2, ReporterBounds DEF Budgets, Spent, MaxMade
      <3> QED BY <1>0, <3>1, MadeBound
    <2>3. run'.made = made'
      BY <1>0, <2>1 DEF Runs
    <2>4. disk' \in Files
      BY <2>1, <2>2 DEF Bounded, Files
    <2> QED BY <1>a, <2>1, <2>2, <2>3, <2>4
  <1>5. CASE WriteJson
    <2>1. /\ UNCHANGED <<drive, net, mail>> /\ disk' = [disk EXCEPT !.json = run.made]
          /\ run' = NoRun \/ run' = [run EXCEPT !.pc = "mark"]
      BY <1>5 DEF WriteJson, EndRun, Goto, remoteVars
    <2>2. run'.made \in {NoRun.made, run.made}
      BY <1>0, <2>1 DEF Runs
    <2>3. disk' \in Files
      BY <2>1 DEF Bounded, Files
    <2> QED BY <1>a, <1>b, <2>1, <2>2, <2>3 DEF Bounded
  <1>6. CASE Crash
    <2>1. /\ UNCHANGED <<drive, net, mail>> /\ run' = NoRun
          /\ disk' = disk \/ disk' = [disk EXCEPT !.pdf = Torn]
      BY <1>6 DEF Crash, EndRun, remoteVars
    <2>2. disk' \in Files
      BY <1>0, <2>1 DEF Bounded, Files
    <2> QED BY <1>a, <1>b, <2>1, <2>2
  <1>7. ASSUME NEW c \in Channels, SendTo(c) \/ SendUnanswered(c) PROVE Bounded'
    <2>1. UNCHANGED <<drive, net, disk>> /\ Accept(c)
      BY <1>7 DEF SendTo, SendUnanswered, localVars
    <2>2. run'.made \in {NoRun.made, run.made}
      BY <1>0, <1>7 DEF SendTo, SendUnanswered, EndRun, Runs
    <2>3. mail' \in [Channels -> Seq(Letters)]
      BY <2>1, AcceptBounded
    <2> QED BY <1>b, <2>1, <2>2, <2>3 DEF Bounded
  <1>8. ASSUME NEW i \in Ids, SendRequest(i) PROVE Bounded'
    <2>1. /\ UNCHANGED <<disk, mail>>
          /\ run' = [run EXCEPT !.pc = "await", !.id = i, !.answer = "none"]
      BY <1>8 DEF SendRequest, localVars
    <2>2. run'.made = run.made
      BY <1>0, <2>1 DEF Runs
    <2>3. run.status.target \in Targets
      BY <1>8 DEF SendRequest, NetInv, StatusHolds
    <2>4. /\ \A j \in Ids \ {i} : net'[j] = net[j]
          /\ net'[i].files = disk /\ drive' = drive
      BY <1>0, <1>8, <2>3, SendRequestRemote
    <2> QED BY <2>1, <2>2, <2>4 DEF Bounded
  <1>9. CASE UpsertPdf \/ UpsertJson
    <2>1. PICK file \in FileNames, from \in {"deliver", "oauth"}, to \in {"oauth", "save"} :
             Upsert(file, from, to)
      BY <1>9 DEF UpsertPdf, UpsertJson, FileNames
    <2>2. UNCHANGED <<disk, net, mail>> /\ run'.made \in {NoRun.made, run.made}
      BY <1>0, <2>1 DEF Upsert, EndRun, localVars, Runs
    <2>3. \A t \in Targets, f \in FileNames : drive'[t][f] \in {drive[t][f], disk[f]}
      BY <1>0, <2>1, UpsertRemote
    <2>4. drive' \in [Targets -> Pairs]
      BY DEF NetInv, Remote, RemoteTyped
    <2> QED BY <1>b, <2>2, <2>3, <2>4, CopiedBounded DEF Bounded
  <1>10. CASE StoreFile
    <2>1. UNCHANGED <<disk, net, mail, run>>
      BY <1>10 DEF StoreFile, localVars
    <2>2. \A t \in Targets, f \in FileNames :
             \/ drive'[t][f] \in {drive[t][f], disk[f]}
             \/ \E i \in Ids : drive'[t][f] = net[i].files[f]
      BY <1>0, <1>10, StoreFileRemote
    <2>3. drive' \in [Targets -> Pairs]
      BY DEF NetInv, Remote, RemoteTyped
    <2> QED BY <2>1, <2>2, <2>3, CopiedBounded DEF Bounded
  <1>11. CASE (\E i \in Ids : Receive(i) \/ Duplicate(i)) \/ StoreFails \/ Reply \/ Tick
    <2>1. UNCHANGED <<disk, mail, drive>>
      BY <1>11 DEF Receive, Admit, Refuse, Duplicate, StoreFails, Reply, Tick, localVars
    <2>2. run' = run \/ \E i \in Ids \union {script.id}, a \in {"ok", "error"} : Answer(i, a)
      BY <1>11 DEF Receive, Admit, Refuse, Duplicate, StoreFails, Reply, Tick
    <2>3. run'.made = run.made
      BY <1>0, <2>2, AnswerKeeps
    <2>4. \A j \in Ids : net'[j].files \in {net[j].files, NoRequest.files}
      BY <1>0, <1>11, AdmitRemote, RefuseRemote, DuplicateRemote, ReleaseRemote, TickRemote
         DEF Receive, SameRequest
    <2>5. NoRequest.files \in Files
      BY <1>0 DEF NoRequest, Files
    <2> QED BY <2>1, <2>3, <2>4, <2>5 DEF Bounded
  <1> QED BY <1>1, <1>2, <1>3, <1>4, <1>5, <1>6, <1>7, <1>8, <1>9, <1>10, <1>11
          DEF Next, Start, Deliver, Disturb

LEMMA InitCounted == Init => MadeHolds /\ Bounded
  <1> SUFFICES ASSUME Init PROVE MadeHolds /\ Bounded
    OBVIOUS
  <1>1. /\ run = NoRun /\ marker = NoMarker /\ made = 0
        /\ budget = [forced |-> 0, inspected |-> 0, crashes |-> 0, faults |-> 0]
        /\ net = [i \in Ids |-> NoRequest] /\ mail = [c \in Channels |-> <<>>]
        /\ disk = [pdf |-> Absent, json |-> Absent]
        /\ drive = [t \in Targets |-> [pdf |-> Absent, json |-> Absent]]
    BY DEF Init
  <1>2. MadeHolds
    BY <1>1, ReporterBounds
       DEF MadeHolds, Owed, First, Spent, NoRun, Marked, Writing, Rewriting
  <1>3. Absent \in Contents
    BY <1>2, InitRInv, MadeBound
  <1>4. Bounded
    <2>1. mail \in [Channels -> Seq(Letters)]
      BY <1>1
    <2> QED BY <1>1, <1>3, <2>1 DEF Bounded, Files, NoRun, NoRequest, Absent
  <1> QED BY <1>2, <1>4

LEMMA BoundedInvariance == Spec => [](MadeHolds /\ Bounded)
  <1>1. /\ RInv /\ NetInv /\ MadeHolds /\ Bounded /\ [Next]_vars => (MadeHolds /\ Bounded)'
    BY NextRInv, NextNetInv, NextCounted, NextBounded
  <1> QED BY <1>1, InitCounted, RInvariance, NetInvariance, PTL DEF Spec

\* Types of a run, of the files it writes and sends and of the requests it leaves
\* behind, with the number of snapshots that are ever made.
THEOREM ReporterTyped == Spec => []TypeOK
  <1>1. ASSUME RInv, NetInv, MadeHolds, Bounded, BillingTypeOK PROVE TypeOK
    <2>1. /\ marker \in Markers /\ run.pc \in Pcs /\ made \in 0..MaxMade
      BY <1>1, MadeBound DEF RInv, LocalTyped, Runs
    <2>2. run.pc = "fetch" <=> stage \in Fetching \union {"done"}
      BY <1>1 DEF RInv, Phase, BillingTypeOK, Stages, Fetching
    <2>3. ASSUME NEW i \in Ids
          PROVE  net[i].copies \in 0..2 /\ net[i].age \in 0..(Window + 1)
      BY <1>1, ReporterBounds DEF NetInv, Remote, RemoteTyped, RequestHolds, Requests
    <2>4. script.id \in Ids \union {0}
      BY <1>1 DEF NetInv, Remote, ScriptHolds
    <2>5. \A c \in Channels : mail[c] \in Seq([pdf: Contents, body: Contents])
      BY <1>1 DEF Bounded, Letters
    <2> QED BY <1>1, <2>1, <2>2, <2>3, <2>4, <2>5 DEF TypeOK, Bounded, Markers, Pcs
  <1> QED BY <1>1, RInvariance, NetInvariance, BoundedInvariance, ReporterFetches, BillingTyped,
             PTL
=============================================================================
