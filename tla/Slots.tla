-------------------------------- MODULE Slots --------------------------------
(***************************************************************************)
(* The publication times the planner offers on one UTC day: a share of the *)
(* remaining quota evenly over the active window, the rest evenly over the *)
(* time outside it, and nothing in the past.  Time is counted in ticks; a  *)
(* tick is one second in the code.                                         *)
(***************************************************************************)
EXTENDS Integers, Sequences, FiniteSets

CONSTANTS
    DayLength,    \* ticks of a day
    ActiveStart,  \* ACTIVE_START_UTC
    ActiveEnd,    \* ACTIVE_END_UTC; not after ActiveStart when it is on the next day
    ShareOf,      \* ACTIVE_SHARE is ShareOf / ShareIn
    ShareIn

ASSUME SlotsAssumption ==
    /\ {DayLength, ShareIn} \subseteq Nat \ {0}
    /\ {ActiveStart, ActiveEnd} \subseteq 0..(DayLength - 1)
    /\ ShareOf \in 0..ShareIn

\* Python's round of p / q: to the nearest integer, a half to the even one.
Round(p, q) ==
    LET f == p \div q
        r == 2 * (p % q)
    IN  IF r < q \/ (r = q /\ f % 2 = 0) THEN f ELSE f + 1

DayOf(t) == t \div DayLength
DayStart(t) == DayOf(t) * DayLength

EvenSlots(first, end, count) ==
    [i \in 1..count |-> first + Round((i - 1) * (end - first), count)]

\* The active window of the day of t, cut at midnight.
ActiveEndOn_Unclamped(t) ==
    DayStart(t) + (IF ActiveEnd <= ActiveStart THEN ActiveEnd + DayLength ELSE ActiveEnd)
ActiveEndOn(t) ==
    DayStart(t) + (IF ActiveEnd <= ActiveStart THEN DayLength ELSE ActiveEnd)
ActiveStartOn(t) == DayStart(t) + ActiveStart

\* The time outside the window as one stretch, morning before evening: x ticks into it.
OffTime(t) == DayLength - (ActiveEndOn(t) - ActiveStartOn(t))
OffSlots(t, count) ==
    LET Slot(i) ==   \* x = i * OffTime(t) / count
            IF i * OffTime(t) <= ActiveStart * count /\ ActiveStart > 0
            THEN DayStart(t) + Round(i * OffTime(t), count)
            ELSE ActiveEndOn(t) + Round(i * OffTime(t) - ActiveStart * count, count)
    IN  [i \in 1..(IF OffTime(t) > 0 THEN count ELSE 0) |-> Slot(i - 1)]

\* The s[i] with i in I in ascending order: fewer than k of them come before the
\* k-th, and k are not after it.
Ascending(s, I) ==
    [k \in 1..Cardinality(I) |->
        CHOOSE t \in {s[i] : i \in I} :
            /\ Cardinality({i \in I : s[i] < t}) < k
            /\ k <= Cardinality({i \in I : s[i] <= t})]

ActiveQuota(n) == Round(n * ShareOf, ShareIn)

\* Only the slots that are still ahead, in the order of time.
TodaySlots(now, remaining) ==
    LET active == ActiveQuota(remaining)
        all == EvenSlots(ActiveStartOn(now), ActiveEndOn(now), active)
                   \o OffSlots(now, remaining - active)
    IN  Ascending(all, {i \in DOMAIN all : all[i] > now})
-----------------------------------------------------------------------------
\* The slots of the window, and those outside it, are more than half a tick apart:
\* nearer ones may be rounded to the first tick after the stretch.
Roomy(n) ==
    /\ ActiveQuota(n) < 2 * (ActiveEndOn(0) - ActiveStart)
    /\ n - ActiveQuota(n) < 2 * OffTime(0) \/ OffTime(0) = 0

\* Whenever a cycle asks and whatever the quota leaves, the times offered lie
\* ahead, on this day of UTC, in order, and are no more than the places left, as
\* long as the day has room for them.
SlotsAreToday ==
    \A now \in 0..(2 * DayLength - 1), n \in 0..(DayLength - 1) :
        LET s == TodaySlots(now, n) IN
        Roomy(n) =>
            /\ Len(s) <= n
            /\ \A i \in DOMAIN s : s[i] > now /\ DayOf(s[i]) = DayOf(now)
            /\ \A i, j \in DOMAIN s : i < j => s[i] <= s[j]
=============================================================================
