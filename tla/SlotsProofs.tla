----------------------------- MODULE SlotsProofs -----------------------------
(***************************************************************************)
(* Proofs about Slots, for any day, window, share and number of places.    *)
(* Rounding stays below the end of a stretch when its slots are more than  *)
(* half a tick apart; a time of every rank exists (RankedExists), so what  *)
(* Ascending chooses is in order; and both stretches lie inside their day. *)
(***************************************************************************)
EXTENDS Slots, TLAPS, FiniteSetTheorems, WellFoundedInduction

LEMMA Division ==
    ASSUME NEW p \in Int, NEW q \in Nat \ {0}
    PROVE  /\ p \div q \in Int /\ p % q \in 0..(q - 1)
           /\ p = q * (p \div q) + (p % q)
  OBVIOUS

LEMMA Times ==
    ASSUME NEW q \in Nat \ {0}, NEW f \in Int, NEW g \in Int, f <= g
    PROVE  q * f <= q * g
  OBVIOUS

\* Rounding gives a natural number no larger than a bound of the quotient.
LEMMA RoundBound ==
    ASSUME NEW q \in Nat \ {0}, NEW n \in Nat, NEW p \in Nat, p <= q * n
    PROVE  Round(p, q) \in 0..n
  <1> DEFINE f == p \div q
             r == p % q
  <1>1. f \in Int /\ r \in 0..(q - 1) /\ p = q * f + r
    BY Division
  <1> HIDE DEF f, r
  <1>2. f >= 0
    <2> SUFFICES ASSUME f <= -1 PROVE FALSE
      BY <1>1
    <2>1. q * f <= q * (-1)
      BY <1>1, Times
    <2> QED
      BY <1>1, <2>1
  <1>3. f <= n
    <2> SUFFICES ASSUME n + 1 <= f PROVE FALSE
      BY <1>1
    <2>1. q * (n + 1) <= q * f
      BY <1>1, Times
    <2>2. q * (n + 1) = q * n + q
      OBVIOUS
    <2> QED
      BY <1>1, <2>1, <2>2
  <1>4. f = n => r = 0
    BY <1>1
  <1>5. Round(p, q) = IF 2 * r < q \/ (2 * r = q /\ f % 2 = 0) THEN f ELSE f + 1
    BY DEF Round, f, r
  <1> QED
    BY <1>1, <1>2, <1>3, <1>4, <1>5

LEMMA DayGrows ==
    ASSUME NEW t \in Nat
    PROVE  DayOf(t) \in Nat /\ DayOf(t) <= DayOf(t + 1)
  <1> DEFINE f == t \div DayLength
             g == (t + 1) \div DayLength
  <1>0. DayLength \in Nat \ {0}
    BY SlotsAssumption
  <1>1. f \in Int /\ t % DayLength \in 0..(DayLength - 1) /\ t = DayLength * f + (t % DayLength)
    BY <1>0, Division
  <1>2. /\ g \in Int /\ (t + 1) % DayLength \in 0..(DayLength - 1)
        /\ t + 1 = DayLength * g + ((t + 1) % DayLength)
    BY <1>0, Division
  <1>3. DayOf(t) = f /\ DayOf(t + 1) = g
    BY DEF DayOf
  <1> HIDE DEF f, g
  <1>4. f >= 0
    <2> SUFFICES ASSUME f <= -1 PROVE FALSE
      BY <1>1
    <2>1. DayLength * f <= DayLength * (-1)
      BY <1>0, <1>1, Times
    <2> QED
      BY <1>0, <1>1, <2>1
  <1>5. f <= g
    <2> SUFFICES ASSUME g + 1 <= f PROVE FALSE
      BY <1>1, <1>2
    <2>1. DayLength * (g + 1) <= DayLength * f
      BY <1>0, <1>1, <1>2, Times
    <2>2. DayLength * (g + 1) = DayLength * g + DayLength
      BY <1>0, <1>2
    <2> QED
      BY <1>0, <1>1, <1>2, <2>1, <2>2
  <1> QED
    BY <1>1, <1>3, <1>4, <1>5

\* Rounding is off by a half at most, so a quotient that is more than half below a
\* bound stays below it.
LEMMA RoundNear ==
    ASSUME NEW q \in Nat \ {0}, NEW p \in Nat
    PROVE  Round(p, q) \in Nat /\ 2 * (q * Round(p, q)) <= 2 * p + q
  <1> DEFINE f == p \div q
             r == p % q
  <1>1. f \in Int /\ r \in 0..(q - 1) /\ p = q * f + r
    BY Division
  <1>2. Round(p, q) \in Nat
    <2>1. p <= q * p
      BY Times
    <2> QED
      BY <2>1, RoundBound
  <1>3. Round(p, q) = f \/ (Round(p, q) = f + 1 /\ 2 * r >= q)
    <2>1. Round(p, q) = IF 2 * r < q \/ (2 * r = q /\ f % 2 = 0) THEN f ELSE f + 1
      BY DEF Round
    <2> HIDE DEF f, r
    <2> QED
      BY <1>1, <2>1
  <1> HIDE DEF f, r
  <1>4. q * (f + 1) = q * f + q
    BY <1>1
  <1>5. q * f \in Int
    BY <1>1
  <1> QED
    BY <1>1, <1>2, <1>3, <1>4, <1>5

LEMMA RoundBelow ==
    ASSUME NEW q \in Nat \ {0}, NEW p \in Nat, NEW n \in Nat, 2 * p + q < 2 * (q * n)
    PROVE  Round(p, q) \in 0..(n - 1)
  <1>1. Round(p, q) \in Nat /\ 2 * (q * Round(p, q)) <= 2 * p + q
    BY RoundNear
  <1>2. ASSUME n <= Round(p, q) PROVE FALSE
    <2>1. q * n <= q * Round(p, q)
      BY <1>1, <1>2, Times
    <2>2. q * n \in Int /\ q * Round(p, q) \in Int
      BY <1>1
    <2> QED
      BY <1>1, <2>1, <2>2
  <1> QED
    BY <1>1, <1>2

\* The i-th of count even steps over a length ends below it, if the steps are more
\* than half a tick long.
LEMMA StepBelow ==
    ASSUME NEW count \in Nat \ {0}, NEW i \in 0..(count - 1), NEW n \in Nat, count < 2 * n
    PROVE  /\ i * n \in Nat /\ count * n \in Nat
           /\ 2 * (i * n) + count < 2 * (count * n)
  <1>1. i \in Nat /\ i <= count - 1 /\ count - 1 \in Nat
    OBVIOUS
  <1>2. n * i <= n * (count - 1)
    BY <1>1, Times
  <1>3. n * (count - 1) = n * count - n /\ n * i = i * n /\ n * count = count * n
    OBVIOUS
  <1>4. i * n \in Nat /\ count * n \in Nat
    BY <1>1
  <1> QED
    BY <1>2, <1>3, <1>4

\* The parts of a day: the window, cut at midnight, and the time outside it.
WindowEnd == IF ActiveEnd <= ActiveStart THEN DayLength ELSE ActiveEnd
LEMMA DayShape ==
    ASSUME NEW now \in Nat
    PROVE  /\ DayLength \in Nat \ {0} /\ DayOf(now) \in Nat
           /\ DayStart(now) \in Nat /\ DayStart(now) = DayOf(now) * DayLength
           /\ ActiveStart \in Nat /\ WindowEnd \in Nat
           /\ ActiveStart < WindowEnd /\ WindowEnd <= DayLength
           /\ ActiveStartOn(now) = DayStart(now) + ActiveStart
           /\ ActiveEndOn(now) = DayStart(now) + WindowEnd
           /\ OffTime(now) = DayLength - WindowEnd + ActiveStart
           /\ OffTime(now) \in Nat /\ OffTime(0) = OffTime(now)
           /\ ActiveEndOn(0) - ActiveStart = WindowEnd - ActiveStart
  <1>1. /\ DayLength \in Nat \ {0} /\ ActiveStart \in 0..(DayLength - 1)
        /\ ActiveEnd \in 0..(DayLength - 1)
    BY SlotsAssumption
  <1>2. /\ ActiveStart \in Nat /\ WindowEnd \in Nat
        /\ ActiveStart < WindowEnd /\ WindowEnd <= DayLength
    BY <1>1 DEF WindowEnd
  <1>3. \A t \in Nat : DayOf(t) \in Nat
    BY DayGrows
  <1>4. \A t \in Nat : DayStart(t) = DayOf(t) * DayLength /\ DayStart(t) \in Nat
    BY <1>1, <1>3 DEF DayStart
  <1>5. \A t \in Nat : /\ ActiveStartOn(t) = DayStart(t) + ActiveStart
                       /\ ActiveEndOn(t) = DayStart(t) + WindowEnd
    BY DEF ActiveStartOn, ActiveEndOn, WindowEnd
  <1>6. \A t \in Nat : OffTime(t) = DayLength - WindowEnd + ActiveStart
    BY <1>1, <1>2, <1>4, <1>5 DEF OffTime
  <1>7. DayStart(0) = 0
    <2>1. DayOf(0) = 0
      BY <1>1 DEF DayOf
    <2> QED
      BY <1>1, <2>1 DEF DayStart
  <1> QED
    BY <1>1, <1>2, <1>3, <1>4, <1>5, <1>6, <1>7

\* Times between two midnights are of one day.
LEMMA SameDay ==
    ASSUME NEW now \in Nat, NEW t \in Int,
           DayStart(now) <= t, t < DayStart(now) + DayLength
    PROVE  DayOf(t) = DayOf(now)
  <1> DEFINE f == t \div DayLength
             d == DayOf(now)
  <1>1. DayLength \in Nat \ {0} /\ d \in Nat /\ DayStart(now) = DayLength * d
    BY DayShape
  <1>2. f \in Int /\ t % DayLength \in 0..(DayLength - 1) /\ t = DayLength * f + (t % DayLength)
    BY <1>1, Division
  <1>3. DayOf(t) = f
    BY DEF DayOf
  <1> HIDE DEF f, d
  <1>4. DayLength * f \in Int /\ DayLength * d \in Int
    BY <1>1, <1>2
  <1>5. ASSUME f <= d - 1 PROVE FALSE
    <2>1. DayLength * (f + 1) <= DayLength * d
      BY <1>1, <1>2, <1>5, Times
    <2>2. DayLength * (f + 1) = DayLength * f + DayLength
      BY <1>1, <1>2
    <2> QED
      BY <1>1, <1>2, <1>4, <2>1, <2>2
  <1>6. ASSUME d + 1 <= f PROVE FALSE
    <2>1. DayLength * (d + 1) <= DayLength * f
      BY <1>1, <1>2, <1>6, Times
    <2>2. DayLength * (d + 1) = DayLength * d + DayLength
      BY <1>1
    <2> QED
      BY <1>1, <1>2, <1>4, <2>1, <2>2
  <1> QED
    BY <1>1, <1>2, <1>3, <1>5, <1>6 DEF d

LEMMA LeastNatural ==
    ASSUME NEW S, S \subseteq Nat, S # {}
    PROVE  \E x \in S : \A y \in S : x <= y
  <1> DEFINE R == {p \in Nat \X Nat : p[1] < p[2]}
  <1>1. IsWellFoundedOn(R, Nat)
    BY NatLessThanWellFounded DEF OpToRel
  <1>2. \A x, y \in S : <<y, x>> \in R <=> y < x
    OBVIOUS
  <1> HIDE DEF R
  <1>3. PICK x \in S : \A y \in S : ~(<<y, x>> \in R)
    BY <1>1, WFMin
  <1>4. \A y \in S : ~(y < x)
    BY <1>2, <1>3
  <1> QED
    BY <1>4

\* How many of the s[i] are not after t, and how many are before it.
UpTo(s, I, t) == {i \in I : s[i] <= t}
Under(s, I, t) == {i \in I : s[i] < t}

LEMMA CountsRise ==
    ASSUME NEW I, IsFiniteSet(I), NEW s, \A i \in I : s[i] \in Int, NEW t \in Int
    PROVE  /\ IsFiniteSet(UpTo(s, I, t)) /\ IsFiniteSet(Under(s, I, t))
           /\ Cardinality(UpTo(s, I, t)) \in 0..Cardinality(I)
           /\ Cardinality(Under(s, I, t)) \in Nat
           /\ \A j \in I : t < s[j] =>
                 /\ Cardinality(UpTo(s, I, t)) < Cardinality(UpTo(s, I, s[j]))
                 /\ Cardinality(UpTo(s, I, t)) <= Cardinality(Under(s, I, s[j]))
  <1>1. \A u \in Int : /\ UpTo(s, I, u) \in SUBSET I /\ IsFiniteSet(UpTo(s, I, u))
                       /\ Under(s, I, u) \in SUBSET I /\ IsFiniteSet(Under(s, I, u))
    <2>1. \A u : UpTo(s, I, u) \in SUBSET I /\ Under(s, I, u) \in SUBSET I
      BY DEF UpTo, Under
    <2> QED
      BY <2>1, FS_Subset
  <1>2. \A u \in Int : /\ Cardinality(UpTo(s, I, u)) \in Nat
                       /\ Cardinality(Under(s, I, u)) \in Nat
                       /\ Cardinality(UpTo(s, I, u)) <= Cardinality(I)
    BY <1>1, FS_CardinalityType, FS_Subset
  <1>3. ASSUME NEW j \in I, t < s[j]
        PROVE  /\ Cardinality(UpTo(s, I, t)) < Cardinality(UpTo(s, I, s[j]))
               /\ Cardinality(UpTo(s, I, t)) <= Cardinality(Under(s, I, s[j]))
    <2> DEFINE A == UpTo(s, I, t)
               B == UpTo(s, I, s[j])
               C == Under(s, I, s[j])
    <2>1. A \in SUBSET B /\ A \in SUBSET C
      BY <1>3 DEF UpTo, Under
    <2>2. j \in B /\ j \notin A
      BY <1>3 DEF UpTo
    <2>3. IsFiniteSet(B) /\ IsFiniteSet(C) /\ Cardinality(A) \in Nat /\ Cardinality(B) \in Nat
      BY <1>1, <1>2, <1>3
    <2> HIDE DEF A, B, C
    <2>4. Cardinality(A) <= Cardinality(B) /\ Cardinality(A) <= Cardinality(C)
      BY <2>1, <2>3, FS_Subset
    <2>5. Cardinality(A) # Cardinality(B)
      BY <2>1, <2>2, <2>3, FS_Subset
    <2> QED
      BY <2>3, <2>4, <2>5 DEF A, B, C
  <1>4. Cardinality(I) \in Nat
    BY FS_CardinalityType
  <1> QED
    BY <1>1, <1>2, <1>3, <1>4

\* A finite family of integers has a latest one.
LEMMA LatestIs ==
    ASSUME NEW I, IsFiniteSet(I), I # {}, NEW s, \A i \in I : s[i] \in Int
    PROVE  \E m \in I : \A j \in I : s[j] <= s[m]
  <1> DEFINE n == Cardinality(I)
             C(i) == Cardinality(UpTo(s, I, s[i]))
             Gaps == {n - C(i) : i \in I}
  <1>1. n \in Nat /\ \A i \in I : C(i) \in 0..n
    BY CountsRise, FS_CardinalityType
  <1>2. \A i, j \in I : s[i] < s[j] => C(i) < C(j)
    BY CountsRise
  <1> HIDE DEF C, n
  <1>3. Gaps \subseteq Nat /\ Gaps # {}
    BY <1>1
  <1>4. PICK g \in Gaps : \A h \in Gaps : g <= h
    <2> HIDE DEF Gaps
    <2> QED
      BY <1>3, LeastNatural
  <1>5. PICK m \in I : g = n - C(m)
    BY <1>4
  <1>6. ASSUME NEW j \in I PROVE ~(s[m] < s[j])
    <2>1. n - C(j) \in Gaps
      OBVIOUS
    <2>2. n - C(m) <= n - C(j)
      BY <1>4, <1>5, <2>1
    <2>3. ~(C(m) < C(j))
      BY <1>1, <2>2
    <2> QED
      BY <1>2, <2>3
  <1> QED
    BY <1>6

\* Every rank belongs to one of the times.
LEMMA RankedExists ==
    ASSUME NEW I, IsFiniteSet(I), NEW s, \A i \in I : s[i] \in Int,
           NEW k \in 1..Cardinality(I)
    PROVE  \E i \in I : /\ Cardinality(Under(s, I, s[i])) < k
                        /\ k <= Cardinality(UpTo(s, I, s[i]))
  <1> DEFINE n == Cardinality(I)
             C(i) == Cardinality(UpTo(s, I, s[i]))
             Enough == {i \in I : k <= C(i)}
             Counts == {C(i) : i \in Enough}
  <1>1. n \in Nat /\ k \in Nat /\ 1 <= k /\ k <= n
    BY FS_CardinalityType
  <1>2. \A i \in I : C(i) \in 0..n
    BY CountsRise
  <1>3. \E m \in I : m \in Enough
    <2>1. I # {}
      BY <1>1, FS_EmptySet
    <2>2. PICK m \in I : \A j \in I : s[j] <= s[m]
      BY <2>1, LatestIs
    <2>3. UpTo(s, I, s[m]) = I
      BY <2>2 DEF UpTo
    <2> QED
      BY <1>1, <2>3
  <1>4. PICK c \in Counts : \A d \in Counts : c <= d
    <2>1. Counts \subseteq Nat /\ Counts # {}
      <3> HIDE DEF C
      <3> QED
        BY <1>2, <1>3
    <2> HIDE DEF Counts
    <2> QED
      BY <2>1, LeastNatural
  <1>5. PICK i \in Enough : c = C(i)
    BY <1>4
  <1>6. \A j \in Enough : C(i) <= C(j)
    <2> HIDE DEF C, Enough
    <2> QED
      BY <1>4, <1>5
  <1>7. ASSUME k <= Cardinality(Under(s, I, s[i])) PROVE FALSE
    <2> DEFINE U == Under(s, I, s[i])
    <2>1. U \in SUBSET I /\ IsFiniteSet(U) /\ \A j \in U : s[j] < s[i] /\ s[j] \in Int
      <3>1. U \in SUBSET I /\ \A j \in U : s[j] < s[i] /\ s[j] \in Int
        BY DEF Under
      <3> QED
        BY <3>1, FS_Subset
    <2>2. U # {}
      BY <1>1, <1>7, FS_EmptySet
    <2>3. PICK m \in U : \A j \in U : s[j] <= s[m]
      <3> HIDE DEF U
      <3> QED
        BY <2>1, <2>2, LatestIs
    <2>4. m \in I /\ s[m] < s[i] /\ s[m] \in Int /\ s[i] \in Int
      BY <2>1, <2>3
    <2>5. U \in SUBSET UpTo(s, I, s[m]) /\ IsFiniteSet(UpTo(s, I, s[m]))
      <3>1. U \in SUBSET UpTo(s, I, s[m])
        BY <2>1, <2>3 DEF UpTo
      <3> QED
        BY <2>4, <3>1, CountsRise
    <2>6. Cardinality(U) <= C(m) /\ Cardinality(U) \in Nat
      BY <2>1, <2>5, FS_Subset, FS_CardinalityType
    <2>7. C(m) < C(i)
      BY <2>4, CountsRise
    <2> HIDE DEF C
    <2>8. m \in Enough
      BY <1>1, <1>2, <1>7, <2>4, <2>6
    <2> QED
      BY <1>2, <1>6, <2>4, <2>7, <2>8
  <1>8. Cardinality(Under(s, I, s[i])) \in Nat
    BY CountsRise
  <1> QED
    BY <1>1, <1>7, <1>8

\* The times in ascending order are all of them, and in order.
LEMMA AscendingHolds ==
    ASSUME NEW I, IsFiniteSet(I), NEW s, \A i \in I : s[i] \in Int
    PROVE  LET t == Ascending(s, I)
               n == Cardinality(I)
           IN  /\ t = [k \in 1..n |-> t[k]]
               /\ \A k \in 1..n : t[k] \in {s[i] : i \in I}
               /\ \A k, l \in 1..n : k < l => t[k] <= t[l]
  <1> DEFINE t == Ascending(s, I)
             n == Cardinality(I)
             These == {s[i] : i \in I}
             Ranked(u, k) == /\ Cardinality(Under(s, I, u)) < k
                             /\ k <= Cardinality(UpTo(s, I, u))
  <1>0. n \in Nat
    BY FS_CardinalityType
  <1>1. t = [k \in 1..n |-> CHOOSE u \in These : Ranked(u, k)]
    BY DEF Ascending, Under, UpTo
  <1>2. \A k \in 1..n : t[k] \in These /\ Ranked(t[k], k)
    <2> SUFFICES ASSUME NEW k \in 1..n PROVE t[k] \in These /\ Ranked(t[k], k)
      OBVIOUS
    <2>1. \E u \in These : Ranked(u, k)
      BY RankedExists
    <2>2. t[k] = CHOOSE u \in These : Ranked(u, k)
      <3> HIDE DEF t, Ranked, These
      <3> QED
        BY <1>1
    <2> HIDE DEF t, Ranked, These
    <2> QED
      BY <2>1, <2>2
  <1>3. ASSUME NEW k \in 1..n, NEW l \in 1..n, k < l, t[l] < t[k] PROVE FALSE
    <2>1. PICK j \in I : t[k] = s[j]
      BY <1>2
    <2>2. t[l] \in Int
      BY <1>2
    <2>3. l <= Cardinality(UpTo(s, I, t[l])) /\ Cardinality(Under(s, I, s[j])) < k
      BY <1>2, <2>1
    <2> HIDE DEF t
    <2>4. /\ Cardinality(UpTo(s, I, t[l])) <= Cardinality(Under(s, I, s[j]))
          /\ Cardinality(UpTo(s, I, t[l])) \in 0..n
      BY <1>3, <2>1, <2>2, CountsRise
    <2>5. Cardinality(Under(s, I, s[j])) \in Nat
      BY CountsRise
    <2> HIDE DEF n
    <2> QED
      BY <1>0, <1>3, <2>3, <2>4, <2>5
  <1>4. \A k \in 1..n : t[k] \in Int
    BY <1>2
  <1> HIDE DEF t, n, These
  <1>5. \A k, l \in 1..n : k < l => t[k] <= t[l]
    BY <1>3, <1>4
  <1>6. t = [k \in 1..n |-> t[k]]
    <2> DEFINE f(k) == CHOOSE u \in These : Ranked(u, k)
    <2>1. t = [k \in 1..n |-> f(k)]
      BY <1>1
    <2> HIDE DEF f
    <2> QED
      BY <2>1
  <1> QED
    BY <1>2, <1>5, <1>6 DEF t, n, These

LEMMA ConcatHolds ==
    ASSUME NEW n \in Nat, NEW s, s = [i \in 1..n |-> s[i]],
           NEW r \in Nat, NEW t, t = [i \in 1..r |-> t[i]],
           NEW S, \A i \in 1..n : s[i] \in S, \A i \in 1..r : t[i] \in S
    PROVE  /\ Len(s \o t) = n + r /\ DOMAIN (s \o t) = 1..(n + r)
           /\ \A i \in 1..(n + r) : (s \o t)[i] \in S
  <1>1. s \in Seq(S) /\ Len(s) = n
    OBVIOUS
  <1>2. t \in Seq(S) /\ Len(t) = r
    OBVIOUS
  <1>3. s \o t \in Seq(S) /\ Len(s \o t) = n + r
    BY <1>1, <1>2
  <1> QED
    BY <1>3

\* The times of the window lie in it, if they are more than half a tick apart.
LEMMA EvenInside ==
    ASSUME NEW first \in Int, NEW end \in Int, first < end, NEW count \in Nat,
           NEW i \in 1..count
    PROVE  LET t == EvenSlots(first, end, count)[i]
           IN  t \in Int /\ first <= t /\ (count < 2 * (end - first) => t < end)
  <1> DEFINE n == end - first
             R == Round((i - 1) * n, count)
  <1>1. n \in Nat /\ count \in Nat \ {0} /\ i - 1 \in 0..(count - 1)
    OBVIOUS
  <1>2. EvenSlots(first, end, count)[i] = first + R
    BY DEF EvenSlots
  <1>3. (i - 1) * n \in Nat
    BY <1>1
  <1>4. R \in Nat
    <2> HIDE DEF n
    <2> QED
      BY <1>1, <1>3, RoundNear
  <1>5. count < 2 * n => R \in 0..(n - 1)
    <2> DEFINE j == i - 1
    <2>1. j \in 0..(count - 1) /\ j * n \in Nat /\ R = Round(j * n, count)
      BY <1>1, <1>3
    <2> HIDE DEF n, j, R
    <2>2. SUFFICES ASSUME count < 2 * n PROVE R \in 0..(n - 1)
      OBVIOUS
    <2>3. 2 * (j * n) + count < 2 * (count * n)
      BY <1>1, <2>1, <2>2, StepBelow
    <2> QED
      BY <1>1, <2>1, <2>3, RoundBelow
  <1> HIDE DEF R
  <1> QED
    BY <1>1, <1>2, <1>4, <1>5

\* The times outside the window lie between the midnights, if they are more than
\* half a tick apart.
LEMMA OffInside ==
    ASSUME NEW now \in Nat, NEW count \in Nat, NEW i \in 1..count, OffTime(now) > 0
    PROVE  LET t == OffSlots(now, count)[i]
           IN  /\ t \in Int /\ DayStart(now) <= t
               /\ count < 2 * OffTime(now) => t < DayStart(now) + DayLength
  <1> DEFINE n == OffTime(now)
             j == i - 1
             M == ActiveStart * count
             Morning == j * n <= M /\ ActiveStart > 0
             t == OffSlots(now, count)[i]
  <1>1. /\ n \in Nat /\ count \in Nat \ {0} /\ j \in 0..(count - 1) /\ j \in Nat
        /\ n = DayLength - WindowEnd + ActiveStart /\ DayLength \in Nat
        /\ ActiveStart \in Nat /\ WindowEnd \in Nat
        /\ ActiveStart < WindowEnd /\ WindowEnd <= DayLength
        /\ DayStart(now) \in Nat /\ ActiveEndOn(now) = DayStart(now) + WindowEnd
    BY DayShape
  <1>2. t = IF Morning THEN DayStart(now) + Round(j * n, count)
            ELSE ActiveEndOn(now) + Round(j * n - M, count)
    BY DEF OffSlots
  <1>3. j * n \in Nat /\ M \in Nat /\ M = count * ActiveStart
    BY <1>1
  <1> HIDE DEF n, j, M, t
  <1>4. CASE Morning
    <2>1. Round(j * n, count) \in 0..ActiveStart
      BY <1>1, <1>3, <1>4, RoundBound
    <2>2. t = DayStart(now) + Round(j * n, count)
      BY <1>2, <1>4
    <2> QED
      BY <1>1, <2>1, <2>2 DEF t, n
  <1>5. CASE ~Morning
    <2> DEFINE p == j * n - M
               e == DayLength - WindowEnd
    <2>1. p \in Nat
      <3>1. CASE ActiveStart = 0
        BY <1>3, <3>1 DEF M
      <3>2. CASE ActiveStart > 0
        BY <1>3, <1>5, <3>2
      <3> QED
        BY <1>1, <3>1, <3>2
    <2>2. t = DayStart(now) + WindowEnd + Round(p, count)
      BY <1>1, <1>2, <1>5
    <2>3. Round(p, count) \in Nat
      <3> HIDE DEF p
      <3> QED
        BY <1>1, <2>1, RoundNear
    <2>4. ASSUME count < 2 * n PROVE Round(p, count) \in 0..(e - 1)
      <3>1. count * n \in Nat /\ 2 * (j * n) + count < 2 * (count * n)
        BY <1>1, <2>4, StepBelow
      <3>2. e \in Nat /\ n = e + ActiveStart
        BY <1>1
      <3>3. count * n = count * e + M
        <4>1. count * (e + ActiveStart) = count * e + count * ActiveStart
          BY <1>1, <3>2
        <4> QED
          BY <1>3, <3>2, <4>1
      <3>4. count * e \in Nat
        BY <1>1, <3>2
      <3>5. 2 * p + count < 2 * (count * e)
        BY <1>1, <1>3, <3>1, <3>3, <3>4
      <3> HIDE DEF p, e
      <3> QED
        BY <1>1, <2>1, <3>2, <3>5, RoundBelow
    <2>5. e \in Int /\ WindowEnd + e = DayLength
      BY <1>1
    <2> HIDE DEF p, e
    <2> QED
      BY <1>1, <2>2, <2>3, <2>4, <2>5 DEF t, n
  <1> QED
    BY <1>4, <1>5

\* The planner is offered no more times than the places that are left, all of them
\* ahead and in order, and on this day as long as it has room for them.
LEMMA SlotsHold ==
    ASSUME NEW now \in Nat, NEW n \in Nat
    PROVE  LET s == TodaySlots(now, n)
           IN  /\ Len(s) \in 0..n /\ s = [k \in 1..Len(s) |-> s[k]]
               /\ \A k \in 1..Len(s) : s[k] \in Int /\ s[k] > now
               /\ \A k, l \in 1..Len(s) : k < l => s[k] <= s[l]
               /\ Roomy(n) => \A k \in 1..Len(s) : s[k] < DayStart(now) + DayLength
  <1> DEFINE active == ActiveQuota(n)
             even == EvenSlots(ActiveStartOn(now), ActiveEndOn(now), active)
             off == OffSlots(now, n - active)
             k == IF OffTime(now) > 0 THEN n - active ELSE 0
             all == even \o off
             midnight == DayStart(now) + DayLength
             Good == {t \in Int : Roomy(n) => t < midnight}
             I == {i \in DOMAIN all : all[i] > now}
             m == Cardinality(I)
             s == Ascending(all, I)
  <1>0. s = TodaySlots(now, n)
    BY DEF TodaySlots
  <1>1. active \in 0..n
    <2>1. ShareIn \in Nat \ {0} /\ ShareOf \in 0..ShareIn
      BY SlotsAssumption
    <2>2. n * ShareOf \in Nat /\ n * ShareOf <= ShareIn * n
      BY <2>1
    <2> QED
      BY <2>1, <2>2, RoundBound DEF ActiveQuota
  <1>2. k \in Nat /\ active + k <= n
    BY <1>1
  <1>3. /\ DayLength \in Nat \ {0} /\ DayStart(now) \in Nat
        /\ ActiveStart \in Nat /\ WindowEnd \in Nat
        /\ ActiveStart < WindowEnd /\ WindowEnd <= DayLength
        /\ ActiveStartOn(now) = DayStart(now) + ActiveStart
        /\ ActiveEndOn(now) = DayStart(now) + WindowEnd
        /\ OffTime(now) \in Nat /\ OffTime(0) = OffTime(now)
        /\ ActiveEndOn(0) - ActiveStart = WindowEnd - ActiveStart
    BY DayShape
  <1>4. Roomy(n) => /\ active < 2 * (ActiveEndOn(now) - ActiveStartOn(now))
                    /\ n - active < 2 * OffTime(now) \/ OffTime(now) = 0
    BY <1>3 DEF Roomy
  <1>5. even = [i \in 1..active |-> even[i]] /\ off = [i \in 1..k |-> off[i]]
    BY DEF EvenSlots, OffSlots
  <1> HIDE DEF active
  <1>6. \A i \in 1..active : even[i] \in Good
    <2> SUFFICES ASSUME NEW i \in 1..active PROVE even[i] \in Good
      OBVIOUS
    <2>1. /\ ActiveStartOn(now) \in Int /\ ActiveEndOn(now) \in Int /\ active \in Nat
          /\ ActiveStartOn(now) < ActiveEndOn(now) /\ ActiveEndOn(now) <= midnight
          /\ midnight \in Int
      BY <1>1, <1>3
    <2>2. /\ even[i] \in Int
          /\ active < 2 * (ActiveEndOn(now) - ActiveStartOn(now)) => even[i] < ActiveEndOn(now)
      BY <2>1, EvenInside
    <2> HIDE DEF even, midnight
    <2> QED
      BY <1>4, <2>1, <2>2
  <1>7. \A i \in 1..k : off[i] \in Good
    <2> SUFFICES ASSUME NEW i \in 1..k PROVE off[i] \in Good
      OBVIOUS
    <2>1. OffTime(now) > 0 /\ k = n - active /\ n - active \in Nat
      BY <1>1, <1>3
    <2>2. /\ off[i] \in Int
          /\ n - active < 2 * OffTime(now) => off[i] < midnight
      <3> DEFINE c == n - active
      <3>1. c \in Nat /\ i \in 1..c /\ off = OffSlots(now, c)
        BY <2>1
      <3> HIDE DEF c, off
      <3> QED
        BY <2>1, <3>1, OffInside DEF c
    <2> HIDE DEF off, k, midnight
    <2> QED
      BY <1>3, <1>4, <2>1, <2>2
  <1> HIDE DEF even, off, k, Good, midnight
  <1>8. /\ Len(all) = active + k /\ DOMAIN all = 1..(active + k)
        /\ \A i \in 1..(active + k) : all[i] \in Good
    BY <1>1, <1>2, <1>5, <1>6, <1>7, ConcatHolds
  <1> HIDE DEF all
  <1>9. /\ IsFiniteSet(I) /\ m \in 0..n
        /\ \A i \in I : all[i] \in Int /\ all[i] > now /\ all[i] \in Good
    <2>1. I \in SUBSET (1..(active + k)) /\ active + k \in Nat
      BY <1>1, <1>2, <1>8
    <2>2. IsFiniteSet(1..(active + k)) /\ Cardinality(1..(active + k)) = active + k
      BY <2>1, FS_Interval
    <2>3. \A i \in I : all[i] \in Good /\ all[i] \in Int /\ all[i] > now
      BY <1>8 DEF Good
    <2> HIDE DEF I
    <2>4. IsFiniteSet(I) /\ Cardinality(I) <= active + k /\ Cardinality(I) \in Nat
      BY <2>1, <2>2, FS_Subset, FS_CardinalityType
    <2> QED
      BY <1>1, <1>2, <2>3, <2>4
  <1> HIDE DEF I
  <1>10. /\ s = [j \in 1..m |-> s[j]]
         /\ \A j \in 1..m : s[j] \in {all[i] : i \in I}
         /\ \A j, l \in 1..m : j < l => s[j] <= s[l]
    BY <1>9, AscendingHolds
  <1> HIDE DEF s, m
  <1>11. Len(s) = m
    BY <1>9, <1>10
  <1>12. \A j \in 1..m : s[j] \in Int /\ s[j] > now /\ (Roomy(n) => s[j] < midnight)
    BY <1>9, <1>10 DEF Good
  <1> QED
    BY <1>0, <1>9, <1>10, <1>11, <1>12 DEF midnight

\* On any day and with any window, share and number of places the day has room for,
\* the times offered to the planner lie ahead, on this day and in order
\* (_plan_today_schedule, _generate_even_slots).
THEOREM SlotsLieAhead == SlotsAreToday
  <1> SUFFICES ASSUME NEW now \in 0..(2 * DayLength - 1), NEW n \in 0..(DayLength - 1), Roomy(n)
               PROVE  LET s == TodaySlots(now, n)
                      IN  /\ Len(s) <= n
                          /\ \A i \in DOMAIN s : s[i] > now /\ DayOf(s[i]) = DayOf(now)
                          /\ \A i, j \in DOMAIN s : i < j => s[i] <= s[j]
    BY DEF SlotsAreToday
  <1> DEFINE s == TodaySlots(now, n)
  <1>1. now \in Nat /\ n \in Nat /\ DayLength \in Nat \ {0}
    BY SlotsAssumption
  <1>2. /\ Len(s) \in 0..n /\ s = [k \in 1..Len(s) |-> s[k]]
        /\ \A k \in 1..Len(s) : s[k] \in Int /\ s[k] > now /\ s[k] < DayStart(now) + DayLength
        /\ \A k, l \in 1..Len(s) : k < l => s[k] <= s[l]
    BY <1>1, SlotsHold
  <1>3. DayStart(now) \in Int /\ DayStart(now) <= now
    <2>1. DayStart(now) = DayLength * (now \div DayLength)
      BY <1>1, Division DEF DayStart, DayOf
    <2> QED
      BY <1>1, <2>1, Division
  <1> HIDE DEF s
  <1>4. DOMAIN s = 1..Len(s)
    BY <1>2
  <1>5. \A k \in 1..Len(s) : DayOf(s[k]) = DayOf(now)
    <2> SUFFICES ASSUME NEW k \in 1..Len(s) PROVE DayOf(s[k]) = DayOf(now)
      OBVIOUS
    <2>1. s[k] \in Int /\ DayStart(now) <= s[k] /\ s[k] < DayStart(now) + DayLength
      BY <1>1, <1>2, <1>3
    <2> QED
      BY <1>1, <2>1, SameDay
  <1> QED
    BY <1>2, <1>4, <1>5 DEF s

LEMMA SlotsBound ==
    ASSUME NEW now \in Nat, NEW n \in Nat
    PROVE  Len(TodaySlots(now, n)) \in 0..n
  BY SlotsHold
=============================================================================
