---------------------------- MODULE AnalyticsProofs ----------------------------
(***************************************************************************)
(* For any number of recorders, days, periods and failures: the parts of a *)
(* dashboard fit together although they are read one by one, and a key is  *)
(* left without a TTL only where a command failed.                         *)
(***************************************************************************)
EXTENDS Analytics, FiniteSetTheorems, WellFoundedInduction, TLAPS

-----------------------------------------------------------------------------
(* The inductive invariant.                                                *)

\* Types of what the keys and the recorders rest on.
AnalyticsTyped ==
    /\ today \in Days
    /\ uploads \in [Days -> Nat] /\ seconds \in [Days -> Nat] /\ samples \in [Days -> Nat]
    /\ lasting \subseteq {"count", "sum", "samples"} \X Days
    /\ leaked \subseteq lasting
    /\ pc \in [Recorders -> {"idle", "incr", "expire", "incrbyfloat", "incrSamples",
                         "expireSum", "expireSamples"}]
    /\ day \in [Recorders -> Days]
    /\ took \in [Recorders -> Nat]
    /\ read \in {"idle", "todayCount", "todaySum", "todaySamples", "today", "windowCount",
                "windowSum", "windowSamples", "window", "trend"}

\* A key that has no TTL waits for a recorder that is to give it one.
Awaited(name, labels) ==
    \A d \in Days : <<name, d>> \in lasting \ leaked =>
        \E r \in Recorders : day[r] = d /\ pc[r] \in labels

\* Every kind of key is awaited by the recorders between its two commands.
AnalyticsInv ==
    /\ AnalyticsTyped
    /\ Awaited("count", {"expire"})
    /\ Awaited("sum", {"incrSamples", "expireSum"})
    /\ Awaited("samples", {"expireSum", "expireSamples"})

\* Types of what is read, and of the histories.
ReportTyped ==
    /\ happened \in Nat /\ lost \in Nat
    /\ report \in [today : [uploads : Nat, seconds : Nat, samples : Nat],
                   window : [uploads : Nat, seconds : Nat, samples : Nat],
                   from : Days, to : Days, underWay : Nat, points : Seq(Nat), before : Nat]

\* The recorders that have added their latency to a day, and not counted it yet.
HalfRecorded(days) == {r \in Recording("incrSamples") : day[r] \in days}

\* An upload is counted when it was made; a latency that was added is counted,
\* about to be, or lost, whichever days one looks at.
CountsInv ==
    /\ SumOf(uploads, Days) + Cardinality(Recording("incr")) <= happened
    /\ \A days \in SUBSET Days :
           SumOf(seconds, days) <=
               MaxSeconds * (SumOf(samples, days) + lost + Cardinality(HalfRecorded(days)))
    /\ \A r \in Recorders : pc[r] = "incrbyfloat" => took[r] <= MaxSeconds

\* The days that are read lie in the calendar; today's are those of the day on
\* which they were asked for.
RangeInv ==
    /\ read # "idle" => report.to \in {today - 1, today}
    /\ read \in {"todayCount", "todaySum", "todaySamples", "today"} => report.from = report.to
    /\ read \in {"idle", "todayCount"} => report.today = Usage

\* What was read of today is still there, and is in the window.
TodayInv ==
    LET NowAtLeast(n, key) == n <= Sum(key, report.from, report.to) IN
    /\ read \in {"todaySum", "todaySamples", "today"} => NowAtLeast(report.today.uploads, uploads)
    /\ read \in {"todaySamples", "today"} => NowAtLeast(report.today.seconds, seconds)
    /\ read = "todaySum" => report.today.seconds = 0
    /\ WindowDays >= 2 =>
         /\ read = "windowCount" => NowAtLeast(report.today.uploads, uploads)
         /\ read \in {"windowSum", "windowSamples", "window"} =>
                report.today.uploads <= report.window.uploads
         /\ read \in {"windowCount", "windowSum"} => NowAtLeast(report.today.seconds, seconds)
         /\ read \in {"windowSamples", "window"} => report.today.seconds <= report.window.seconds

\* What was read of the window is still there.
WindowInv ==
    /\ report.window.uploads <= happened
    /\ read = "windowSamples" => report.window.seconds <= Sum(seconds, report.from, report.to)
    /\ read = "window" => report.window.seconds <= MaxSeconds *
           (report.window.samples + lost + report.underWay)

\* The days of the periods that a trend has read, and of those it has not.
DaysRead(n) ==
    {d \in Days : /\ report.to - Periods * PeriodDays < d
                  /\ d <= report.to - (Periods - n) * PeriodDays}
DaysAhead(n) == {d \in Days : report.to - (Periods - n) * PeriodDays < d /\ d <= report.to}

\* The points of a trend count no more than their days, and with the days
\* ahead no less than there was.
TrendInv ==
    LET n == Len(report.points)
        sum == SumOf(report.points, 1..n)
    IN  /\ n <= Periods
        /\ read # "trend" => n = 0
        /\ read = "trend" => /\ sum <= SumOf(uploads, DaysRead(n))
                             /\ report.before <= sum + SumOf(uploads, DaysAhead(n))

DashboardInv == AnalyticsInv /\ ReportTyped /\ CountsInv /\ RangeInv /\ TodayInv /\ WindowInv /\ TrendInv

-----------------------------------------------------------------------------
(* Sums over days.                                                         *)

\* The day that MapThenSumSet takes first, and the running sums it makes: a
\* function from the subsets of a set.
AnyOf(s) == CHOOSE x \in s : TRUE

Add(key, g, s) == IF s = {} THEN 0 ELSE key[AnyOf(s)] + g[s \ {AnyOf(s)}]

Running(key, g, S) == g = [s \in S |-> Add(key, g, s)]

\* Every set of naturals has a least element.
LEMMA Least ==
    ASSUME NEW T \in SUBSET Nat, T # {}
    PROVE  \E n \in T : \A m \in T : n <= m
  <1> DEFINE R == {ss \in Nat \X Nat : ss[1] < ss[2]}
  <1>1. IsWellFoundedOn(R, Nat)
    BY NatLessThanWellFounded DEF OpToRel
  <1>2. PICK x \in T : \A y \in T : ~ (<<y, x>> \in R)
    <2> HIDE DEF R
    <2> QED BY <1>1, WFMin
  <1>3. ASSUME NEW y \in T PROVE x <= y
    <2>1. <<y, x>> \in Nat \X Nat  OBVIOUS
    <2>2. ~(y < x)                 BY <1>2, <2>1
    <2> QED BY <2>2
  <1> QED BY <1>3

\* Of any sets of days one is smallest: what holds of a set whenever it holds of
\* all smaller ones holds of every finite set.
LEMMA SmallestSet ==
    ASSUME NEW S, IsFiniteSet(S), NEW B \in SUBSET (SUBSET S), B # {}
    PROVE  \E T \in B : \A U \in B : Cardinality(T) <= Cardinality(U)
  <1> DEFINE N == {Cardinality(T) : T \in B}
  <1>1. N \in SUBSET Nat  BY FS_Subset, FS_CardinalityType
  <1>2. PICK n \in N : \A m \in N : n <= m
    <2>1. N # {}  OBVIOUS
    <2> HIDE DEF N
    <2> QED BY <1>1, <2>1, Least
  <1> QED BY <1>2

\* A sum is the last of its running sums.
LEMMA SumUnfold ==
    ASSUME NEW key, NEW S
    PROVE  SumOf(key, S) = (CHOOSE g : Running(key, g, SUBSET S))[S]
  BY DEF SumOf, MapThenSumSet, MapThenFoldSet, Running, Add, AnyOf

\* The rest of a set is smaller than the set.
LEMMA RestSmaller ==
    ASSUME NEW s, IsFiniteSet(s), s # {}
    PROVE  /\ AnyOf(s) \in s
           /\ IsFiniteSet(s \ {AnyOf(s)})
           /\ Cardinality(s \ {AnyOf(s)}) = Cardinality(s) - 1
           /\ ~(Cardinality(s) <= Cardinality(s \ {AnyOf(s)}))
  <1>1. AnyOf(s) \in s  BY DEF AnyOf
  <1>2. Cardinality(s) \in Nat  BY FS_CardinalityType
  <1>3. IsFiniteSet(s \ {AnyOf(s)}) /\ Cardinality(s \ {AnyOf(s)}) = Cardinality(s) - 1
    BY <1>1, FS_RemoveElement
  <1> QED BY <1>1, <1>2, <1>3

\* The running sums over the subsets of a finite set exist.
LEMMA RunningExists ==
    ASSUME NEW key, NEW S, IsFiniteSet(S)
    PROVE  \E g : Running(key, g, SUBSET S)
  <1> DEFINE Upto(n) == {s \in SUBSET S : Cardinality(s) <= n}
             Bad == {n \in Nat : ~\E g : Running(key, g, Upto(n))}
  <1>f. \A s \in SUBSET S : IsFiniteSet(s) /\ Cardinality(s) \in Nat /\ Cardinality(s) <= Cardinality(S)
    BY FS_Subset, FS_CardinalityType
  <1>1. Bad = {}
    <2> SUFFICES ASSUME Bad # {} PROVE FALSE  OBVIOUS
    <2>1. PICK m \in Bad : \A n \in Bad : m <= n
      <3> HIDE DEF Bad
      <3>1. Bad \in SUBSET Nat  BY DEF Bad
      <3> QED BY <3>1, Least
    <2>2. m # 0
      <3> SUFFICES ASSUME m = 0 PROVE FALSE  OBVIOUS
      <3> DEFINE g == [s \in Upto(0) |-> 0]
      <3>1. \A s \in Upto(0) : s = {}
        BY <1>f, FS_EmptySet
      <3>2. Running(key, g, Upto(0))
        <4>1. \A s \in Upto(0) : Add(key, g, s) = 0  BY <3>1 DEF Add
        <4> QED BY <4>1 DEF Running
      <3> QED BY <3>2
    <2>3. m - 1 \in Nat /\ m - 1 \notin Bad
      <3>1. m - 1 \in Nat  BY <2>1, <2>2
      <3>2. ~(m <= m - 1)  BY <2>1
      <3> QED BY <2>1, <3>1, <3>2
    <2>4. PICK g : Running(key, g, Upto(m - 1))  BY <2>3
    <2> DEFINE h == [s \in Upto(m) |-> Add(key, g, s)]
    <2>5. ASSUME NEW s \in Upto(m) PROVE Add(key, h, s) = Add(key, g, s)
      <3>1. CASE s = {}  BY <3>1 DEF Add
      <3>2. CASE s # {}
        <4> DEFINE t == s \ {AnyOf(s)}
        <4>1. t \in Upto(m - 1) /\ t \in Upto(m)
          <5>1. IsFiniteSet(s) /\ Cardinality(s) \in Nat  BY <1>f
          <5>2. Cardinality(t) = Cardinality(s) - 1  BY <3>2, <5>1, RestSmaller
          <5> QED BY <5>1, <5>2, <2>1
        <4>2. g[t] = Add(key, g, t)  BY <2>4, <4>1 DEF Running
        <4>3. h[t] = g[t]  BY <4>1, <4>2
        <4> QED BY <3>2, <4>3 DEF Add
      <3> QED BY <3>1, <3>2
    <2>6. Running(key, h, Upto(m))
      BY <2>5 DEF Running
    <2> QED BY <2>1, <2>6
  <1>2. Cardinality(S) \in Nat  BY FS_CardinalityType
  <1>3. Upto(Cardinality(S)) = SUBSET S  BY <1>f
  <1>4. \E g : Running(key, g, Upto(Cardinality(S)))
    BY <1>1, <1>2
  <1> QED BY <1>3, <1>4

\* The running sum at a subset is the sum over it.
LEMMA RunningSums ==
    ASSUME NEW key, NEW S, IsFiniteSet(S), NEW g, Running(key, g, SUBSET S), NEW T \in SUBSET S
    PROVE  g[T] = SumOf(key, T)
  <1> DEFINE h == CHOOSE g2 : Running(key, g2, SUBSET T)
  <1>1. IsFiniteSet(T)  BY FS_Subset
  <1>2. Running(key, h, SUBSET T)  BY <1>1, RunningExists
  <1> HIDE DEF h
  <1> DEFINE Bad == {U \in SUBSET T : g[U] # h[U]}
  <1>3. Bad = {}
    <2> SUFFICES ASSUME Bad # {} PROVE FALSE  OBVIOUS
    <2>1. PICK U \in Bad : \A V \in Bad : Cardinality(U) <= Cardinality(V)
      <3> HIDE DEF Bad
      <3>1. Bad \in SUBSET (SUBSET T)  BY DEF Bad
      <3> QED BY <1>1, <3>1, SmallestSet
    <2>2. IsFiniteSet(U)  BY <1>1, FS_Subset
    <2>3. g[U] = Add(key, g, U) /\ h[U] = Add(key, h, U)  BY <1>2 DEF Running
    <2>4. U # {}  BY <2>1, <2>3 DEF Add
    <2>5. U \ {AnyOf(U)} \notin Bad
      <3>1. ~(Cardinality(U) <= Cardinality(U \ {AnyOf(U)}))  BY <2>2, <2>4, RestSmaller
      <3> QED BY <2>1, <3>1
    <2> QED BY <2>1, <2>3, <2>5 DEF Add
  <1>5. g[T] = h[T]  BY <1>3
  <1> QED BY <1>5, SumUnfold DEF h

\* A sum is the first day's count and the sum over the rest.
LEMMA SumStep ==
    ASSUME NEW key, NEW S, IsFiniteSet(S)
    PROVE  SumOf(key, S) = IF S = {} THEN 0 ELSE key[AnyOf(S)] + SumOf(key, S \ {AnyOf(S)})
  <1>1. PICK g : Running(key, g, SUBSET S)  BY RunningExists
  <1>2. g[S] = SumOf(key, S)  BY <1>1, RunningSums, ZenonT(40)
  <1>3. g[S \ {AnyOf(S)}] = SumOf(key, S \ {AnyOf(S)})
    <2>1. S \ {AnyOf(S)} \in SUBSET S  OBVIOUS
    <2> QED BY <1>1, <2>1, RunningSums
  <1>4. g[S] = Add(key, g, S)  BY <1>1 DEF Running
  <1> QED BY <1>2, <1>3, <1>4 DEF Add

\* The sum over no days.
LEMMA SumOfNone ==
    ASSUME NEW key
    PROVE  SumOf(key, {}) = 0
  BY SumStep, FS_EmptySet

\* A sum of naturals is a natural.
LEMMA SumType ==
    ASSUME NEW S, IsFiniteSet(S), NEW key, \A d \in S : key[d] \in Nat
    PROVE  SumOf(key, S) \in Nat
  <1> DEFINE Bad == {T \in SUBSET S : SumOf(key, T) \notin Nat}
  <1> SUFFICES ASSUME Bad # {} PROVE FALSE  OBVIOUS
  <1>1. PICK T \in Bad : \A U \in Bad : Cardinality(T) <= Cardinality(U)
    <2>1. Bad \in SUBSET (SUBSET S)  OBVIOUS
    <2> HIDE DEF Bad
    <2> QED BY <2>1, SmallestSet
  <1>2. IsFiniteSet(T)  BY FS_Subset
  <1>3. T # {}  BY <1>1, SumOfNone
  <1>4. T \ {AnyOf(T)} \notin Bad  BY <1>1, <1>2, <1>3, RestSmaller
  <1>5. SumOf(key, T) = key[AnyOf(T)] + SumOf(key, T \ {AnyOf(T)})  BY <1>2, <1>3, SumStep
  <1> QED BY <1>1, <1>2, <1>3, <1>4, <1>5, RestSmaller

\* Any day can be taken out first.
LEMMA SumRemove ==
    ASSUME NEW S, IsFiniteSet(S), NEW key, \A d \in S : key[d] \in Nat, NEW x \in S
    PROVE  SumOf(key, S) = key[x] + SumOf(key, S \ {x})
  <1> DEFINE Bad == {T \in SUBSET S : \E y \in T : SumOf(key, T) # key[y] + SumOf(key, T \ {y})}
  <1> SUFFICES ASSUME Bad # {} PROVE FALSE  OBVIOUS
  <1>1. PICK T \in Bad : \A U \in Bad : Cardinality(T) <= Cardinality(U)
    <2>1. Bad \in SUBSET (SUBSET S)  OBVIOUS
    <2> HIDE DEF Bad
    <2> QED BY <2>1, SmallestSet
  <1>2. PICK y \in T : SumOf(key, T) # key[y] + SumOf(key, T \ {y})  BY <1>1
  <1>3. IsFiniteSet(T) /\ T # {}  BY FS_Subset
  <1> DEFINE one == AnyOf(T)
  <1>4. SumOf(key, T) = key[one] + SumOf(key, T \ {one})  BY <1>3, SumStep
  <1>5. one \in T /\ one # y  BY <1>2, <1>3, <1>4, RestSmaller
  <1> HIDE DEF one
  <1>6. /\ Cardinality(T \ {one}) = Cardinality(T) - 1
        /\ Cardinality(T \ {y}) = Cardinality(T) - 1
        /\ Cardinality(T) \in Nat
    BY <1>3, <1>5, FS_RemoveElement, FS_CardinalityType
  <1>7. T \ {one} \notin Bad /\ T \ {y} \notin Bad  BY <1>1, <1>6, SMTT(30)
  <1>8. SumOf(key, T \ {one}) = key[y] + SumOf(key, (T \ {one}) \ {y})  BY <1>5, <1>7
  <1>9. SumOf(key, T \ {y}) = key[one] + SumOf(key, (T \ {y}) \ {one})  BY <1>5, <1>7
  <1>10. (T \ {one}) \ {y} = (T \ {y}) \ {one}  OBVIOUS
  <1>11. SumOf(key, (T \ {one}) \ {y}) \in Nat
    <2>1. IsFiniteSet((T \ {one}) \ {y})  BY <1>3, FS_Subset
    <2> QED BY <2>1, SumType
  <1>12. key[one] \in Nat /\ key[y] \in Nat  BY <1>5
  <1> DEFINE rest == SumOf(key, (T \ {one}) \ {y})
  <1>13. SumOf(key, T) = key[one] + (key[y] + rest) /\ SumOf(key, T \ {y}) = key[one] + rest
    BY <1>4, <1>8, <1>9, <1>10
  <1> HIDE DEF rest, Bad
  <1>14. rest \in Nat  BY <1>11 DEF rest
  <1>15. key[one] + (key[y] + rest) = key[y] + (key[one] + rest)  BY <1>12, <1>14
  <1> QED BY <1>2, <1>13, <1>15

\* Keys that count no less sum up to no less.
LEMMA SumMonotonic ==
    ASSUME NEW S, IsFiniteSet(S), NEW key, NEW more,
           \A d \in S : key[d] \in Nat /\ more[d] \in Nat /\ key[d] <= more[d]
    PROVE  SumOf(key, S) <= SumOf(more, S)
  <1> DEFINE Bad == {T \in SUBSET S : ~(SumOf(key, T) <= SumOf(more, T))}
  <1> SUFFICES ASSUME Bad # {} PROVE FALSE  OBVIOUS
  <1>1. PICK T \in Bad : \A U \in Bad : Cardinality(T) <= Cardinality(U)
    <2>1. Bad \in SUBSET (SUBSET S)  OBVIOUS
    <2> HIDE DEF Bad
    <2> QED BY <2>1, SmallestSet
  <1>2. IsFiniteSet(T)  BY FS_Subset
  <1>3. T # {}  BY <1>1, SumOfNone
  <1> DEFINE x == AnyOf(T)
             U == T \ {x}
  <1>4. U \notin Bad
    <2>1. ~(Cardinality(T) <= Cardinality(U))  BY <1>2, <1>3, RestSmaller
    <2> QED BY <1>1, <2>1
  <1>5. x \in T /\ IsFiniteSet(U)  BY <1>2, <1>3, RestSmaller
  <1>6. SumOf(key, T) = key[x] + SumOf(key, U) /\ SumOf(more, T) = more[x] + SumOf(more, U)
    BY <1>2, <1>3, SumStep
  <1>7. SumOf(key, U) \in Nat /\ SumOf(more, U) \in Nat
    <2>1. \A d \in U : key[d] \in Nat /\ more[d] \in Nat  OBVIOUS
    <2> HIDE DEF U
    <2> QED BY <1>5, <2>1, SumType
  <1>8. SumOf(key, U) <= SumOf(more, U)  BY <1>4
  <1>9. key[x] \in Nat /\ more[x] \in Nat /\ key[x] <= more[x]  BY <1>5
  <1> HIDE DEF x, U
  <1> QED BY <1>1, <1>6, <1>7, <1>8, <1>9

\* Keys that count the same sum up to the same.
LEMMA SumSame ==
    ASSUME NEW S, IsFiniteSet(S), NEW key, NEW other,
           \A d \in S : key[d] \in Nat /\ other[d] = key[d]
    PROVE  SumOf(key, S) = SumOf(other, S)
  <1>1. \A d \in S : other[d] \in Nat /\ key[d] <= other[d] /\ other[d] <= key[d]  OBVIOUS
  <1>2. SumOf(key, S) <= SumOf(other, S) /\ SumOf(other, S) <= SumOf(key, S)
    BY <1>1, SumMonotonic
  <1>3. SumOf(key, S) \in Nat /\ SumOf(other, S) \in Nat
    BY <1>1, SumType
  <1> QED BY <1>2, <1>3

\* Days apart from each other are summed apart.
LEMMA SumUnion ==
    ASSUME NEW S, IsFiniteSet(S), NEW T, IsFiniteSet(T), S \cap T = {},
           NEW key, \A d \in S \cup T : key[d] \in Nat
    PROVE  SumOf(key, S \cup T) = SumOf(key, S) + SumOf(key, T)
  <1> DEFINE Bad == {U \in SUBSET S : SumOf(key, U \cup T) # SumOf(key, U) + SumOf(key, T)}
  <1> SUFFICES ASSUME Bad # {} PROVE FALSE  OBVIOUS
  <1>1. PICK U \in Bad : \A V \in Bad : Cardinality(U) <= Cardinality(V)
    <2>1. Bad \in SUBSET (SUBSET S)  OBVIOUS
    <2> HIDE DEF Bad
    <2> QED BY <2>1, SmallestSet
  <1>2. IsFiniteSet(U)  BY FS_Subset
  <1>3. SumOf(key, T) \in Nat  BY SumType
  <1>4. U # {}
    <2>1. {} \cup T = T  OBVIOUS
    <2> QED BY <1>1, <1>3, <2>1, SumOfNone
  <1> DEFINE x == AnyOf(U)
             V == U \ {x}
  <1>5. V \notin Bad
    <2>1. ~(Cardinality(U) <= Cardinality(V))  BY <1>2, <1>4, RestSmaller
    <2> QED BY <1>1, <2>1
  <1>6. x \in U /\ IsFiniteSet(V)  BY <1>2, <1>4, RestSmaller
  <1> HIDE DEF x
  <1>7. SumOf(key, U) = key[x] + SumOf(key, V)  BY <1>2, <1>6, SumRemove
  <1>8. SumOf(key, U \cup T) = key[x] + SumOf(key, V \cup T)
    <2>1. IsFiniteSet(U \cup T)  BY <1>2, FS_Union
    <2>2. x \in U \cup T /\ (U \cup T) \ {x} = V \cup T  BY <1>6
    <2>3. \A d \in U \cup T : key[d] \in Nat  OBVIOUS
    <2> HIDE DEF V
    <2> QED BY <2>1, <2>2, <2>3, SumRemove
  <1>9. SumOf(key, V \cup T) = SumOf(key, V) + SumOf(key, T)  BY <1>5
  <1>10. SumOf(key, V) \in Nat
    <2>1. \A d \in V : key[d] \in Nat  OBVIOUS
    <2> HIDE DEF V
    <2> QED BY <1>6, <2>1, SumType
  <1>11. key[x] \in Nat  BY <1>6
  <1> HIDE DEF V
  <1> QED BY <1>1, <1>3, <1>7, <1>8, <1>9, <1>10, <1>11

\* Fewer days sum up to no more.
LEMMA SumSubset ==
    ASSUME NEW S, IsFiniteSet(S), NEW T \in SUBSET S, NEW key, \A d \in S : key[d] \in Nat
    PROVE  SumOf(key, T) <= SumOf(key, S)
  <1>1. IsFiniteSet(T) /\ IsFiniteSet(S \ T)  BY FS_Subset
  <1>2. T \cup (S \ T) = S /\ T \cap (S \ T) = {}  OBVIOUS
  <1>3. SumOf(key, S) = SumOf(key, T) + SumOf(key, S \ T)
    BY <1>1, <1>2, SumUnion
  <1>4. SumOf(key, T) \in Nat /\ SumOf(key, S \ T) \in Nat  BY <1>1, SumType
  <1> QED BY <1>3, <1>4

\* One day counts n more: so does the sum, if it is over that day.
LEMMA SumGrows ==
    ASSUME NEW S, IsFiniteSet(S), NEW D, S \subseteq D,
           NEW key \in [D -> Nat], NEW more \in [D -> Nat], NEW x \in D, NEW n \in Nat,
           more[x] = key[x] + n, \A d \in D \ {x} : more[d] = key[d]
    PROVE  SumOf(more, S) = SumOf(key, S) + (IF x \in S THEN n ELSE 0)
  <1>1. \A d \in D : more[d] \in Nat /\ key[d] \in Nat  OBVIOUS
  <1>2. CASE x \notin S
    <2>1. SumOf(key, S) = SumOf(more, S)  BY <1>1, <1>2, SumSame
    <2>2. SumOf(key, S) \in Nat  BY <1>1, SumType
    <2> QED BY <1>2, <2>1, <2>2
  <1>3. CASE x \in S
    <2>1. SumOf(key, S) = key[x] + SumOf(key, S \ {x})  BY <1>1, <1>3, SumRemove
    <2>2. SumOf(more, S) = more[x] + SumOf(more, S \ {x})  BY <1>1, <1>3, SumRemove
    <2>3. IsFiniteSet(S \ {x})  BY FS_Subset
    <2>4. SumOf(key, S \ {x}) = SumOf(more, S \ {x})  BY <1>1, <2>3, SumSame
    <2>5. SumOf(key, S \ {x}) \in Nat  BY <1>1, <2>3, SumType
    <2> QED BY <1>3, <2>1, <2>2, <2>4, <2>5
  <1> QED BY <1>2, <1>3

-----------------------------------------------------------------------------
(* The keys that have no TTL.                                              *)

\* Steps of others, and those of r that make no key, leave the keys awaited.
LEMMA StillAwaited ==
    ASSUME AnalyticsTyped, NEW name, NEW labels, Awaited(name, labels),
           NEW r \in Recorders,
           \A q \in Recorders \ {r} : day'[q] = day[q] /\ pc'[q] = pc[q],
           \A d \in Days : <<name, d>> \in lasting' \ leaked' =>
               \/ <<name, d>> \in lasting \ leaked /\ (day[r] = d => pc[r] \notin labels)
               \/ day'[r] = d /\ pc'[r] \in labels
    PROVE  Awaited(name, labels)'
  BY DEF Awaited

\* The calendar begins with day 0.
LEMMA Calendar == ASSUME ConstantsOK PROVE LastDay \in Nat /\ 0 \in Days
  <1>1. LastDay \in Nat
    BY DEF ConstantsOK
  <1> QED BY <1>1 DEF Days

\* The names of the keys.
LEMMA KeyNames ==
    /\ NameOf("expire") = "count" /\ NameOf("expireSum") = "sum"
    /\ NameOf("expireSamples") = "samples"
  BY DEF NameOf

\* Every step of a recorder keeps the keys awaited.
LEMMA RecorderKeeps ==
    ASSUME ConstantsOK, AnalyticsInv, NEW r \in Recorders,
           \/ RecordEvent(r)
           \/ \E s \in {1, MaxSeconds} : RecordLatency(r, s)
           \/ Incr(r)
           \/ IncrByFloat(r)
           \/ IncrSamples(r)
           \/ Expire(r)
           \/ RecordFails(r)
    PROVE  AnalyticsInv'
  <1> USE DEF ConstantsOK
  <1>0. /\ AnalyticsTyped /\ day[r] \in Days /\ today \in Days
        /\ Awaited("count", {"expire"}) /\ Awaited("sum", {"incrSamples", "expireSum"})
        /\ Awaited("samples", {"expireSum", "expireSamples"})
    BY DEF AnalyticsInv, AnalyticsTyped
  <1>1. CASE RecordEvent(r)
    <2>1. AnalyticsTyped'
      BY <1>0, <1>1 DEF RecordEvent, AnalyticsTyped, GoTo,
         keyVars, readVars
    <2>2. /\ pc[r] = "idle" /\ UNCHANGED <<lasting, leaked>>
          /\ \A q \in Recorders \ {r} : day'[q] = day[q] /\ pc'[q] = pc[q]
      BY <1>1 DEF RecordEvent, AnalyticsTyped, GoTo,
         keyVars, AnalyticsInv
    <2> QED BY <1>0, <2>1, <2>2, StillAwaited DEF AnalyticsInv
  <1>2. CASE \E s \in {1, MaxSeconds} : RecordLatency(r, s)
    <2>1. AnalyticsTyped'
      BY <1>0, <1>2 DEF RecordLatency, AnalyticsTyped, GoTo,
         keyVars, readVars
    <2>2. /\ pc[r] = "idle" /\ UNCHANGED <<lasting, leaked>>
          /\ \A q \in Recorders \ {r} : day'[q] = day[q] /\ pc'[q] = pc[q]
      BY <1>2 DEF RecordLatency, AnalyticsTyped, GoTo,
         keyVars, AnalyticsInv
    <2> QED BY <1>0, <2>1, <2>2, StillAwaited DEF AnalyticsInv
  <1>3. CASE Incr(r)
    <2>1. AnalyticsTyped'
      BY <1>0, <1>3 DEF Incr, Kept, AnalyticsTyped, GoTo,
         readVars
    <2>2. /\ pc[r] = "incr" /\ pc'[r] = "expire" /\ UNCHANGED <<day, leaked>>
          /\ lasting' \subseteq lasting \cup {<<"count", day[r]>>}
          /\ \A q \in Recorders \ {r} : day'[q] = day[q] /\ pc'[q] = pc[q]
      BY <1>3 DEF Incr, Kept, AnalyticsTyped, GoTo,
         AnalyticsInv
    <2> QED BY <1>0, <2>1, <2>2, StillAwaited DEF AnalyticsInv
  <1>4. CASE IncrByFloat(r)
    <2>1. AnalyticsTyped'
      BY <1>0, <1>4 DEF IncrByFloat, Kept, AnalyticsTyped,
         GoTo, readVars
    <2>2. /\ pc[r] = "incrbyfloat" /\ pc'[r] = "incrSamples" /\ UNCHANGED <<day, leaked>>
          /\ lasting' \subseteq lasting \cup {<<"sum", day[r]>>}
          /\ \A q \in Recorders \ {r} : day'[q] = day[q] /\ pc'[q] = pc[q]
      BY <1>4 DEF IncrByFloat, Kept, AnalyticsTyped, GoTo,
         AnalyticsInv
    <2> QED BY <1>0, <2>1, <2>2, StillAwaited DEF AnalyticsInv
  <1>5. CASE IncrSamples(r)
    <2>1. AnalyticsTyped'
      BY <1>0, <1>5 DEF IncrSamples, Kept, AnalyticsTyped,
         GoTo, readVars
    <2>2. /\ pc[r] = "incrSamples" /\ pc'[r] = "expireSum" /\ UNCHANGED <<day, leaked>>
          /\ lasting' \subseteq lasting \cup {<<"samples", day[r]>>}
          /\ \A q \in Recorders \ {r} : day'[q] = day[q] /\ pc'[q] = pc[q]
      BY <1>5 DEF IncrSamples, Kept, AnalyticsTyped, GoTo,
         AnalyticsInv
    <2> QED BY <1>0, <2>1, <2>2, StillAwaited DEF AnalyticsInv
  <1>6. CASE Expire(r)
    <2>1. AnalyticsTyped'
      <3>1. UNCHANGED <<today, uploads, seconds, samples, read>>
        BY <1>6 DEF Expire, readVars
      <3>2. /\ pc' \in [Recorders -> {"idle", "incr", "expire", "incrbyfloat", "incrSamples",
                                       "expireSum", "expireSamples"}]
            /\ day' \in [Recorders -> Days] /\ took' \in [Recorders -> Nat]
        BY <1>0, <1>6, Calendar DEF Expire, Rest, AnalyticsTyped,
           GoTo
      <3>3. lasting' \subseteq lasting /\ leaked' \subseteq lasting'
        BY <1>0, <1>6 DEF Expire, AnalyticsTyped
      <3> QED BY <1>0, <3>1, <3>2, <3>3 DEF AnalyticsTyped
    <2>2. \A q \in Recorders \ {r} : day'[q] = day[q] /\ pc'[q] = pc[q]
      BY <1>6 DEF Expire, Rest, AnalyticsTyped, GoTo,
         AnalyticsInv
    <2>3. CASE pc[r] = "expireSum"
      <3>1. /\ pc'[r] = "expireSamples" /\ day'[r] = day[r]
            /\ lasting' = lasting \ {<<"sum", day[r]>>} /\ leaked' = leaked \ {<<"sum", day[r]>>}
        BY <1>6, <2>3, KeyNames DEF Expire, AnalyticsTyped, GoTo,
           AnalyticsInv
      <3> QED BY <1>0, <2>1, <2>2, <2>3, <3>1, StillAwaited DEF AnalyticsInv
    <2>4. CASE pc[r] = "expire"
      <3>1. lasting' = lasting \ {<<"count", day[r]>>} /\ leaked' = leaked \ {<<"count", day[r]>>}
        BY <1>6, <2>4, KeyNames DEF Expire
      <3> QED BY <1>0, <2>1, <2>2, <2>4, <3>1, StillAwaited DEF AnalyticsInv
    <2>5. CASE pc[r] = "expireSamples"
      <3>1. /\ lasting' = lasting \ {<<"samples", day[r]>>}
            /\ leaked' = leaked \ {<<"samples", day[r]>>}
        BY <1>6, <2>5, KeyNames DEF Expire
      <3> QED BY <1>0, <2>1, <2>2, <2>5, <3>1, StillAwaited DEF AnalyticsInv
    <2> QED BY <1>6, <2>3, <2>4, <2>5 DEF Expire
  <1>7. CASE RecordFails(r)
    <2>1. AnalyticsTyped'
      <3>1. UNCHANGED <<today, uploads, seconds, samples, lasting, read>>
        BY <1>7 DEF RecordFails, keyVars, readVars
      <3>2. /\ pc' \in [Recorders -> {"idle", "incr", "expire", "incrbyfloat", "incrSamples",
                                       "expireSum", "expireSamples"}]
            /\ day' \in [Recorders -> Days] /\ took' \in [Recorders -> Nat]
        BY <1>0, <1>7, Calendar DEF RecordFails, Rest,
           AnalyticsTyped, GoTo
      <3>3. leaked' \subseteq lasting
        BY <1>0, <1>7 DEF RecordFails, AnalyticsTyped
      <3> QED BY <1>0, <3>1, <3>2, <3>3 DEF AnalyticsTyped
    <2>2. /\ lasting' = lasting /\ leaked' = leaked \cup {key \in lasting : key[2] = day[r]}
          /\ \A q \in Recorders \ {r} : day'[q] = day[q] /\ pc'[q] = pc[q]
      BY <1>7 DEF RecordFails, Rest, AnalyticsTyped, GoTo,
         keyVars, AnalyticsInv
    <2>3. \A name, d : <<name, d>> \in lasting' \ leaked' => <<name, d>> \in lasting \ leaked /\ d # day[r]
      BY <2>2
    <2> QED BY <1>0, <2>1, <2>2, <2>3, StillAwaited DEF AnalyticsInv
  <1> QED BY <1>1, <1>2, <1>3, <1>4, <1>5, <1>6, <1>7

\* The invariant holds in every reachable state.
THEOREM AnalyticsInvariant ==
    ASSUME ConstantsOK
    PROVE  Spec => []AnalyticsInv
  <1>1. Init => AnalyticsInv
    BY DEF ConstantsOK, Init, AnalyticsInv, AnalyticsTyped,
       Awaited, Days
  <1>2. AnalyticsInv /\ [Next]_vars => AnalyticsInv'
    <2> SUFFICES ASSUME AnalyticsInv, [Next]_vars
                 PROVE AnalyticsInv'
      OBVIOUS
    <2>1. CASE \/ AskToday \/ AskWindow \/ AskReport
               \/ AskTrend \/ ReadPeriod
      BY <2>1 DEF AskToday, AskWindow, AskReport, AskTrend,
         ReadPeriod, Begin, AnalyticsInv,
                  AnalyticsTyped, Awaited, keyVars
    <2>2. CASE ReadCount \/ ReadSum \/ ReadSamples \/ Respond
      BY <2>2 DEF ReadCount, ReadSum, ReadSamples, Respond,
         ReadOn, AnalyticsInv, AnalyticsTyped,
                  Awaited, keyVars
    <2>3. CASE NextDay
      <3>1. /\ today < LastDay /\ today' = today + 1
            /\ UNCHANGED <<uploads, seconds, samples, lasting, leaked, pc, day, took, read>>
        BY <2>3 DEF NextDay, keyVars, readVars
      <3>2. today' \in Days
        BY <3>1, Calendar DEF AnalyticsInv, AnalyticsTyped, Days
      <3> QED BY <3>1, <3>2 DEF AnalyticsInv, AnalyticsTyped, Awaited
    <2>4. CASE UNCHANGED vars
      BY <2>4 DEF vars, AnalyticsInv, AnalyticsTyped,
         Awaited, keyVars, readVars
    <2> QED BY <2>1, <2>2, <2>3, <2>4, RecorderKeeps DEF Next
  <1> QED BY <1>1, <1>2, PTL DEF Spec

\* A counter is left without a TTL only where a command failed, however many
\* recorders interleave (AnalyticsRepository).
THEOREM OnlyFailuresLeave ==
    ASSUME ConstantsOK
    PROVE  Spec => [](TypeOK /\ OnlyFailuresLeak)
  <1>1. AnalyticsInv => TypeOK
    BY DEF AnalyticsInv, AnalyticsTyped, TypeOK
  <1>2. AnalyticsInv => OnlyFailuresLeak
    <2> SUFFICES ASSUME AnalyticsInv, NEW key \in lasting \ leaked
                 PROVE  \E r \in Recorders :
                          /\ day[r] = key[2]
                          /\ pc[r] \in (CASE key[1] = "count" -> {"expire"}
                            [] key[1] = "sum" -> {"incrSamples", "expireSum"}
                            [] key[1] = "samples" -> {"expireSum", "expireSamples"})
      BY DEF OnlyFailuresLeak
    <2>1. /\ key = <<key[1], key[2]>> /\ key[2] \in Days
          /\ key[1] \in {"count", "sum", "samples"}
      BY DEF AnalyticsInv, AnalyticsTyped
    <2>2. CASE key[1] = "count"
      BY <2>1, <2>2 DEF AnalyticsInv, Awaited
    <2>3. CASE key[1] = "sum"
      BY <2>1, <2>3 DEF AnalyticsInv, Awaited
    <2>4. CASE key[1] = "samples"
      BY <2>1, <2>4 DEF AnalyticsInv, Awaited
    <2> QED BY <2>1, <2>2, <2>3, <2>4
  <1> QED BY <1>1, <1>2, AnalyticsInvariant, PTL

-----------------------------------------------------------------------------
(* The counts.                                                             *)

\* Sets of days are finite, and what is summed over them is a natural.
LEMMA DaySums ==
    ASSUME ConstantsOK, AnalyticsTyped, NEW days \in SUBSET Days
    PROVE  /\ IsFiniteSet(days)
           /\ SumOf(uploads, days) \in Nat
           /\ SumOf(seconds, days) \in Nat
           /\ SumOf(samples, days) \in Nat
  <1>1. IsFiniteSet(Days)
    BY Calendar, FS_Interval DEF Days
  <1>2. IsFiniteSet(days)
    BY <1>1, FS_Subset
  <1>3. \A d \in days : uploads[d] \in Nat /\ seconds[d] \in Nat /\ samples[d] \in Nat
    BY DEF AnalyticsTyped
  <1> QED BY <1>2, <1>3, SumType

\* The recorders at a command are finitely many.
LEMMA RecordersCounted ==
    ASSUME ConstantsOK, NEW S \in SUBSET Recorders
    PROVE  IsFiniteSet(S) /\ Cardinality(S) \in Nat
  BY FS_Subset, FS_CardinalityType DEF ConstantsOK

\* A factor keeps the order.
LEMMA TimesMonotonic ==
    ASSUME NEW m \in Nat, NEW a \in Nat, NEW b \in Nat, a <= b
    PROVE  m * a <= m * b
  <1>1. b - a \in Nat  OBVIOUS
  <1>2. m * (b - a) \in Nat  BY <1>1
  <1>3. m * b = m * a + m * (b - a)  OBVIOUS
  <1> QED BY <1>2, <1>3

\* A latency that is recorded is no longer than the longest.
LEMMA LongestLatency ==
    ASSUME ConstantsOK
    PROVE  MaxSeconds \in Nat /\ MaxSeconds >= 1
  BY DEF ConstantsOK

\* A step of a recorder that counts nothing keeps the counts.
LEMMA CountsStay ==
    ASSUME ConstantsOK, AnalyticsTyped, ReportTyped, CountsInv, NEW r \in Recorders,
           UNCHANGED <<uploads, seconds, samples, lost>>,
           \/ happened' = happened /\ Recording("incr")' = Recording("incr")
           \/ happened' = happened + 1 /\ Recording("incr")' = Recording("incr") \cup {r},
           \A days \in SUBSET Days : HalfRecorded(days)' = HalfRecorded(days),
           \A q \in Recorders : pc'[q] = "incrbyfloat" => took'[q] <= MaxSeconds
    PROVE  CountsInv'
  <1>1. Days' = Days
    BY DEF Days
  <1>2. SumOf(uploads, Days)' + Cardinality(Recording("incr"))' <= happened'
    <2>1. SumOf(uploads, Days)' = SumOf(uploads, Days)
      BY <1>1
    <2>2. SumOf(uploads, Days) \in Nat
      BY DaySums
    <2>3. IsFiniteSet(Recording("incr")) /\ Cardinality(Recording("incr")) \in Nat
      BY RecordersCounted DEF Recording
    <2>4. Cardinality(Recording("incr") \cup {r}) <= Cardinality(Recording("incr")) + 1
      BY <2>3, FS_AddElement
    <2>5. Cardinality(Recording("incr") \cup {r}) \in Nat
      BY <2>3, FS_AddElement, FS_CardinalityType
    <2>6. SumOf(uploads, Days) + Cardinality(Recording("incr")) <= happened /\ happened \in Nat
      BY DEF CountsInv, ReportTyped
    <2>7. CASE happened' = happened /\ Recording("incr")' = Recording("incr")
      BY <2>1, <2>6, <2>7
    <2>8. CASE happened' = happened + 1 /\ Recording("incr")' = Recording("incr") \cup {r}
      <3>1. Cardinality(Recording("incr"))' = Cardinality(Recording("incr") \cup {r})
        BY <2>8
      <3> QED BY <2>1, <2>2, <2>3, <2>4, <2>5, <2>6, <2>8, <3>1
    <2> QED BY <2>7, <2>8
  <1>3. ASSUME NEW days \in SUBSET Days
        PROVE  SumOf(seconds, days)' <=
                   MaxSeconds * (SumOf(samples, days)' + lost' + Cardinality(HalfRecorded(days))')
    <2>1. /\ SumOf(seconds, days)' = SumOf(seconds, days) /\ SumOf(samples, days)' = SumOf(samples, days)
          /\ lost' = lost /\ Cardinality(HalfRecorded(days))' = Cardinality(HalfRecorded(days))
      OBVIOUS
    <2> QED BY <2>1 DEF CountsInv
  <1> QED BY <1>1, <1>2, <1>3 DEF CountsInv

\* An upload is counted: one recorder fewer has it to count.
LEMMA IncrCounts ==
    ASSUME ConstantsOK, AnalyticsTyped, ReportTyped, CountsInv, NEW r \in Recorders, Incr(r)
    PROVE  CountsInv'
  <1>1. /\ pc[r] = "incr" /\ pc' = [pc EXCEPT ![r] = "expire"]
        /\ uploads' = [uploads EXCEPT ![day[r]] = @ + 1]
        /\ UNCHANGED <<seconds, samples, day, took, happened, lost>>
    BY DEF Incr, GoTo
  <1>2. SumOf(uploads, Days)' + Cardinality(Recording("incr"))' <= happened'
    <2>1. /\ uploads \in [Days -> Nat] /\ uploads' \in [Days -> Nat] /\ day[r] \in Days
          /\ uploads'[day[r]] = uploads[day[r]] + 1
          /\ \A d \in Days \ {day[r]} : uploads'[d] = uploads[d]
      BY <1>1 DEF AnalyticsTyped
    <2>2. SumOf(uploads, Days)' = SumOf(uploads, Days) + 1
      <3>1. SumOf(uploads', Days) = SumOf(uploads, Days) + (IF day[r] \in Days THEN 1 ELSE 0)
        BY <2>1, DaySums, SumGrows
      <3>2. Days' = Days
        BY DEF Days
      <3> QED BY <2>1, <3>1, <3>2
    <2>3. Recording("incr")' = Recording("incr") \ {r} /\ r \in Recording("incr")
      BY <1>1 DEF Recording, AnalyticsTyped
    <2>4. IsFiniteSet(Recording("incr")) /\ Cardinality(Recording("incr")) \in Nat
      BY RecordersCounted DEF Recording
    <2>5. Cardinality(Recording("incr") \ {r}) = Cardinality(Recording("incr")) - 1
      BY <2>3, <2>4, FS_RemoveElement
    <2>6. Cardinality(Recording("incr"))' = Cardinality(Recording("incr")) - 1
      BY <2>3, <2>5
    <2>7. SumOf(uploads, Days) + Cardinality(Recording("incr")) <= happened
      BY DEF CountsInv
    <2> QED BY <1>1, <2>2, <2>4, <2>6, <2>7, DaySums
  <1>3. ASSUME NEW days \in SUBSET Days
        PROVE  SumOf(seconds, days)' <=
                   MaxSeconds * (SumOf(samples, days)' + lost' + Cardinality(HalfRecorded(days))')
    <2>1. HalfRecorded(days)' = HalfRecorded(days)
      BY <1>1 DEF HalfRecorded, Recording, AnalyticsTyped
    <2>2. /\ SumOf(seconds, days)' = SumOf(seconds, days) /\ SumOf(samples, days)' = SumOf(samples, days)
          /\ lost' = lost /\ Cardinality(HalfRecorded(days))' = Cardinality(HalfRecorded(days))
      BY <1>1, <2>1
    <2> QED BY <2>2 DEF CountsInv
  <1>4. \A q \in Recorders : pc'[q] = "incrbyfloat" => took'[q] <= MaxSeconds
    BY <1>1 DEF CountsInv, AnalyticsTyped
  <1> QED BY <1>2, <1>3, <1>4 DEF CountsInv, Days

\* A latency is added to its day: its sample is about to be counted.
LEMMA IncrByFloatCounts ==
    ASSUME ConstantsOK, AnalyticsTyped, ReportTyped, CountsInv, NEW r \in Recorders, IncrByFloat(r)
    PROVE  CountsInv'
  <1>1. /\ pc[r] = "incrbyfloat" /\ pc' = [pc EXCEPT ![r] = "incrSamples"]
        /\ seconds' = [seconds EXCEPT ![day[r]] = @ + took[r]]
        /\ UNCHANGED <<uploads, samples, day, took, happened, lost>>
    BY DEF IncrByFloat, GoTo
  <1>2. SumOf(uploads, Days)' + Cardinality(Recording("incr"))' <= happened'
    <2>1. Recording("incr")' = Recording("incr") /\ SumOf(uploads, Days)' = SumOf(uploads, Days)
      BY <1>1 DEF Recording, AnalyticsTyped, Days
    <2> QED BY <1>1, <2>1 DEF CountsInv
  <1>3. ASSUME NEW days \in SUBSET Days
        PROVE  SumOf(seconds, days)' <=
                   MaxSeconds * (SumOf(samples, days)' + lost' + Cardinality(HalfRecorded(days))')
    <2> DEFINE half == Cardinality(HalfRecorded(days))
               counted == SumOf(samples, days) + lost + half
    <2>1. SumOf(seconds, days)' = SumOf(seconds, days) + (IF day[r] \in days THEN took[r] ELSE 0)
      <3>1. /\ seconds \in [Days -> Nat] /\ seconds' \in [Days -> Nat] /\ day[r] \in Days
            /\ took[r] \in Nat /\ seconds'[day[r]] = seconds[day[r]] + took[r]
            /\ \A d \in Days \ {day[r]} : seconds'[d] = seconds[d]
        BY <1>1 DEF AnalyticsTyped
      <3> QED BY <3>1, DaySums, SumGrows
    <2>2. IsFiniteSet(HalfRecorded(days)) /\ half \in Nat
      BY RecordersCounted DEF HalfRecorded, Recording
    <2>3. HalfRecorded(days)' = IF day[r] \in days THEN HalfRecorded(days) \cup {r} ELSE HalfRecorded(days)
      BY <1>1 DEF HalfRecorded, Recording, AnalyticsTyped
    <2>4. r \notin HalfRecorded(days)
      BY <1>1 DEF HalfRecorded, Recording
    <2>5. Cardinality(HalfRecorded(days))' = half + (IF day[r] \in days THEN 1 ELSE 0)
      BY <2>2, <2>3, <2>4, FS_AddElement, SMTT(30)
    <2>6. SumOf(seconds, days) <= MaxSeconds * counted
      BY DEF CountsInv
    <2>7. took[r] <= MaxSeconds /\ took[r] \in Nat
      BY <1>1 DEF CountsInv, AnalyticsTyped
    <2>8. counted \in Nat
      BY <2>2, DaySums, SMTT(30) DEF ReportTyped
    <2>9. MaxSeconds * (counted + 1) = MaxSeconds * counted + MaxSeconds
      BY <2>8, LongestLatency
    <2>10. MaxSeconds * counted \in Nat
      BY <2>8, LongestLatency
    <2>11. SumOf(samples, days)' + lost' + Cardinality(HalfRecorded(days))'
           = counted + (IF day[r] \in days THEN 1 ELSE 0)
      <3>1. /\ SumOf(samples, days)' = SumOf(samples, days) /\ SumOf(samples, days) \in Nat
            /\ lost' = lost /\ lost \in Nat
        BY <1>1, DaySums DEF ReportTyped
      <3> HIDE DEF half
      <3> QED BY <2>2, <2>5, <3>1
    <2>12. SumOf(seconds, days) \in Nat
      BY DaySums
    <2> HIDE DEF counted
    <2>13. CASE day[r] \in days
      BY <2>1, <2>6, <2>7, <2>9, <2>10, <2>11, <2>12, <2>13, LongestLatency
    <2>14. CASE day[r] \notin days
      BY <2>1, <2>6, <2>8, <2>11, <2>12, <2>14
    <2> QED BY <2>13, <2>14
  <1>4. \A q \in Recorders : pc'[q] = "incrbyfloat" => took'[q] <= MaxSeconds
    BY <1>1 DEF CountsInv, AnalyticsTyped
  <1> QED BY <1>2, <1>3, <1>4 DEF CountsInv, Days

\* The sample of a latency is counted.
LEMMA IncrSamplesCounts ==
    ASSUME ConstantsOK, AnalyticsTyped, ReportTyped, CountsInv, NEW r \in Recorders, IncrSamples(r)
    PROVE  CountsInv'
  <1>1. /\ pc[r] = "incrSamples" /\ pc' = [pc EXCEPT ![r] = "expireSum"]
        /\ samples' = [samples EXCEPT ![day[r]] = @ + 1]
        /\ UNCHANGED <<uploads, seconds, day, took, happened, lost>>
    BY DEF IncrSamples, GoTo
  <1>2. SumOf(uploads, Days)' + Cardinality(Recording("incr"))' <= happened'
    <2>1. Recording("incr")' = Recording("incr") /\ SumOf(uploads, Days)' = SumOf(uploads, Days)
      BY <1>1 DEF Recording, AnalyticsTyped, Days
    <2> QED BY <1>1, <2>1 DEF CountsInv
  <1>3. ASSUME NEW days \in SUBSET Days
        PROVE  SumOf(seconds, days)' <=
                   MaxSeconds * (SumOf(samples, days)' + lost' + Cardinality(HalfRecorded(days))')
    <2> DEFINE half == Cardinality(HalfRecorded(days))
    <2>1. SumOf(samples, days)' = SumOf(samples, days) + (IF day[r] \in days THEN 1 ELSE 0)
      <3>1. /\ samples \in [Days -> Nat] /\ samples' \in [Days -> Nat] /\ day[r] \in Days
            /\ samples'[day[r]] = samples[day[r]] + 1
            /\ \A d \in Days \ {day[r]} : samples'[d] = samples[d]
        BY <1>1 DEF AnalyticsTyped
      <3> QED BY <3>1, DaySums, SumGrows
    <2>2. IsFiniteSet(HalfRecorded(days)) /\ half \in Nat
      BY RecordersCounted DEF HalfRecorded, Recording
    <2>3. HalfRecorded(days)' = HalfRecorded(days) \ {r}
      BY <1>1 DEF HalfRecorded, Recording, AnalyticsTyped
    <2>4. r \in HalfRecorded(days) <=> day[r] \in days
      BY <1>1 DEF HalfRecorded, Recording
    <2>5. Cardinality(HalfRecorded(days))' = half - (IF day[r] \in days THEN 1 ELSE 0)
      <3>1. Cardinality(HalfRecorded(days) \ {r}) = IF r \in HalfRecorded(days) THEN half - 1 ELSE half
        BY <2>2, FS_RemoveElement
      <3> QED BY <2>2, <2>3, <2>4, <3>1
    <2>6. SumOf(samples, days)' + lost' + Cardinality(HalfRecorded(days))'
          = SumOf(samples, days) + lost + half
      <3>1. /\ SumOf(samples, days) \in Nat /\ lost' = lost /\ lost \in Nat
        BY <1>1, DaySums DEF ReportTyped
      <3> HIDE DEF half
      <3> QED BY <2>1, <2>2, <2>5, <3>1
    <2>7. SumOf(seconds, days)' = SumOf(seconds, days)
      BY <1>1
    <2> QED BY <2>6, <2>7 DEF CountsInv
  <1>4. \A q \in Recorders : pc'[q] = "incrbyfloat" => took'[q] <= MaxSeconds
    BY <1>1 DEF CountsInv, AnalyticsTyped
  <1> QED BY <1>2, <1>3, <1>4 DEF CountsInv, Days

\* A command fails: an upload may stay uncounted, a sample is lost.
LEMMA FailureCounts ==
    ASSUME ConstantsOK, AnalyticsTyped, ReportTyped, CountsInv, NEW r \in Recorders, RecordFails(r)
    PROVE  CountsInv'
  <1>1. /\ pc[r] # "idle" /\ pc' = [pc EXCEPT ![r] = "idle"] /\ day' = [day EXCEPT ![r] = 0]
        /\ took' = [took EXCEPT ![r] = 1]
        /\ lost' = IF pc[r] = "incrSamples" THEN lost + 1 ELSE lost
        /\ UNCHANGED <<uploads, seconds, samples, happened>>
    BY DEF RecordFails, Rest, GoTo, keyVars
  <1>2. SumOf(uploads, Days)' + Cardinality(Recording("incr"))' <= happened'
    <2>1. Recording("incr")' = Recording("incr") \ {r} /\ SumOf(uploads, Days)' = SumOf(uploads, Days)
      BY <1>1 DEF Recording, AnalyticsTyped, Days
    <2>2. IsFiniteSet(Recording("incr")) /\ Cardinality(Recording("incr")) \in Nat
      BY RecordersCounted DEF Recording
    <2>3. Cardinality(Recording("incr") \ {r}) <= Cardinality(Recording("incr"))
      BY <2>2, FS_RemoveElement
    <2>4. Cardinality(Recording("incr") \ {r}) \in Nat
      BY <2>2, FS_RemoveElement, FS_CardinalityType
    <2>5. Cardinality(Recording("incr"))' = Cardinality(Recording("incr") \ {r})
      BY <2>1
    <2>6. SumOf(uploads, Days) + Cardinality(Recording("incr")) <= happened /\ happened \in Nat
      BY DEF CountsInv, ReportTyped
    <2> QED BY <1>1, <2>1, <2>2, <2>3, <2>4, <2>5, <2>6, DaySums
  <1>3. ASSUME NEW days \in SUBSET Days
        PROVE  SumOf(seconds, days)' <=
                   MaxSeconds * (SumOf(samples, days)' + lost' + Cardinality(HalfRecorded(days))')
    <2> DEFINE half == Cardinality(HalfRecorded(days))
               left == Cardinality(HalfRecorded(days) \ {r})
    <2>1. IsFiniteSet(HalfRecorded(days)) /\ half \in Nat
      BY RecordersCounted DEF HalfRecorded, Recording
    <2>2. HalfRecorded(days)' = HalfRecorded(days) \ {r}
      BY <1>1 DEF HalfRecorded, Recording, AnalyticsTyped
    <2>3. r \in HalfRecorded(days) => pc[r] = "incrSamples"
      BY DEF HalfRecorded, Recording
    <2>4. left = (IF r \in HalfRecorded(days) THEN half - 1 ELSE half) /\ left \in Nat
      BY <2>1, FS_RemoveElement, FS_CardinalityType
    <2>5. Cardinality(HalfRecorded(days))' = left
      BY <2>2
    <2> HIDE DEF half, left
    <2>6. lost \in Nat /\ lost' \in Nat /\ SumOf(samples, days) \in Nat
      BY <1>1, DaySums DEF ReportTyped
    <2>7. SumOf(samples, days) + lost + half <= SumOf(samples, days) + lost' + left
      BY <1>1, <2>1, <2>3, <2>4, <2>6
    <2>8. MaxSeconds * (SumOf(samples, days) + lost + half)
          <= MaxSeconds * (SumOf(samples, days) + lost' + left)
      <3> DEFINE before == SumOf(samples, days) + lost + half
                 after == SumOf(samples, days) + lost' + left
      <3>1. before \in Nat /\ after \in Nat /\ before <= after
        BY <2>1, <2>4, <2>6, <2>7
      <3> HIDE DEF before, after
      <3>2. MaxSeconds * before <= MaxSeconds * after
        BY <3>1, LongestLatency, TimesMonotonic
      <3> QED BY <3>2 DEF before, after
    <2>9. SumOf(seconds, days) <= MaxSeconds * (SumOf(samples, days) + lost + half)
      BY DEF CountsInv, half
    <2>10. SumOf(seconds, days)' = SumOf(seconds, days) /\ SumOf(samples, days)' = SumOf(samples, days)
      BY <1>1
    <2>11. SumOf(seconds, days) \in Nat
      BY DaySums
    <2>12. /\ MaxSeconds * (SumOf(samples, days) + lost + half) \in Nat
           /\ MaxSeconds * (SumOf(samples, days) + lost' + left) \in Nat
      BY <2>1, <2>4, <2>6, LongestLatency
    <2>13. SumOf(seconds, days) <= MaxSeconds * (SumOf(samples, days) + lost' + left)
      BY <2>8, <2>9, <2>11, <2>12
    <2> QED BY <2>5, <2>10, <2>13
  <1>4. \A q \in Recorders : pc'[q] = "incrbyfloat" => took'[q] <= MaxSeconds
    BY <1>1 DEF CountsInv, AnalyticsTyped
  <1> QED BY <1>2, <1>3, <1>4 DEF CountsInv, Days

\* The steps of a recorder that count nothing keep the counts.
LEMMA QuietCounts ==
    ASSUME ConstantsOK, AnalyticsTyped, ReportTyped, CountsInv, NEW r \in Recorders,
           \/ RecordEvent(r)
           \/ \E s \in {1, MaxSeconds} : RecordLatency(r, s)
           \/ Expire(r)
    PROVE  CountsInv'
  <1>1. \A q \in Recorders : pc[q] = "incrbyfloat" => took[q] <= MaxSeconds
    BY DEF CountsInv
  <1>2. CASE RecordEvent(r)
    <2>1. /\ pc[r] = "idle" /\ pc' = [pc EXCEPT ![r] = "incr"] /\ day' = [day EXCEPT ![r] = today]
          /\ UNCHANGED <<uploads, seconds, samples, lost, took>> /\ happened' = happened + 1
      BY <1>2 DEF RecordEvent, GoTo, keyVars
    <2>2. Recording("incr")' = Recording("incr") \cup {r}
      BY <2>1 DEF Recording, AnalyticsTyped
    <2>3. \A days \in SUBSET Days : HalfRecorded(days)' = HalfRecorded(days)
      BY <2>1 DEF HalfRecorded, Recording, AnalyticsTyped
    <2>4. \A q \in Recorders : pc'[q] = "incrbyfloat" => took'[q] <= MaxSeconds
      BY <1>1, <2>1 DEF AnalyticsTyped
    <2> QED BY <2>1, <2>2, <2>3, <2>4, CountsStay
  <1>3. CASE \E s \in {1, MaxSeconds} : RecordLatency(r, s)
    <2>0. PICK s \in {1, MaxSeconds} : RecordLatency(r, s)
      BY <1>3
    <2>1. /\ pc[r] = "idle" /\ pc' = [pc EXCEPT ![r] = "incrbyfloat"]
          /\ day' = [day EXCEPT ![r] = today] /\ took' = [took EXCEPT ![r] = s]
          /\ UNCHANGED <<uploads, seconds, samples, lost, happened>>
      BY <2>0 DEF RecordLatency, GoTo, keyVars
    <2>2. Recording("incr")' = Recording("incr")
      BY <2>1 DEF Recording, AnalyticsTyped
    <2>3. \A days \in SUBSET Days : HalfRecorded(days)' = HalfRecorded(days)
      BY <2>1 DEF HalfRecorded, Recording, AnalyticsTyped
    <2>4. \A q \in Recorders : pc'[q] = "incrbyfloat" => took'[q] <= MaxSeconds
      BY <1>1, <2>1, LongestLatency DEF AnalyticsTyped
    <2> QED BY <2>1, <2>2, <2>3, <2>4, CountsStay
  <1>4. CASE Expire(r)
    <2>1. /\ pc[r] \in {"expire", "expireSum", "expireSamples"}
          /\ \A q \in Recorders \ {r} : pc'[q] = pc[q] /\ day'[q] = day[q] /\ took'[q] = took[q]
          /\ pc'[r] \in {"expireSamples", "idle"}
          /\ UNCHANGED <<uploads, seconds, samples, lost, happened>>
      BY <1>4 DEF Expire, Rest, GoTo, AnalyticsTyped
    <2>2. Recording("incr")' = Recording("incr")
      BY <2>1 DEF Recording
    <2>3. \A days \in SUBSET Days : HalfRecorded(days)' = HalfRecorded(days)
      BY <2>1 DEF HalfRecorded, Recording
    <2>4. \A q \in Recorders : pc'[q] = "incrbyfloat" => took'[q] <= MaxSeconds
      BY <1>1, <2>1
    <2> QED BY <2>1, <2>2, <2>3, <2>4, CountsStay
  <1> QED BY <1>2, <1>3, <1>4

\* Every step of a recorder keeps the counts, and takes nothing back.
LEMMA RecorderCounts ==
    ASSUME ConstantsOK, AnalyticsTyped, ReportTyped, CountsInv, NEW r \in Recorders,
           \/ RecordEvent(r)
           \/ \E s \in {1, MaxSeconds} : RecordLatency(r, s)
           \/ Incr(r)
           \/ IncrByFloat(r)
           \/ IncrSamples(r)
           \/ Expire(r)
           \/ RecordFails(r)
    PROVE  /\ CountsInv' /\ ReportTyped'
           /\ UNCHANGED <<today, read, report>>
           /\ happened <= happened' /\ lost <= lost'
           /\ \A d \in Days : uploads[d] <= uploads'[d] /\ seconds[d] <= seconds'[d]
  <1>1. CountsInv'
    BY QuietCounts, IncrCounts, IncrByFloatCounts, IncrSamplesCounts, FailureCounts
  <1>2. UNCHANGED <<today, read, report>>
    BY DEF RecordEvent, RecordLatency, Incr, IncrByFloat, IncrSamples, Expire, RecordFails, readVars
  <1>3. /\ happened' \in {happened, happened + 1} /\ lost' \in {lost, lost + 1}
    BY DEF RecordEvent, RecordLatency, Incr, IncrByFloat, IncrSamples, Expire, RecordFails
  <1>4. happened \in Nat /\ lost \in Nat
    BY DEF ReportTyped
  <1>5. \A d \in Days : uploads[d] \in Nat /\ seconds[d] \in Nat
    BY DEF AnalyticsTyped
  <1>6. \A d \in Days : uploads'[d] \in {uploads[d], uploads[d] + 1}
    BY DEF AnalyticsTyped, RecordEvent, RecordLatency, Incr, IncrByFloat, IncrSamples, Expire,
       RecordFails, keyVars
  <1>7. \A d \in Days : seconds'[d] \in {seconds[d], seconds[d] + took[r]}
    BY DEF AnalyticsTyped, RecordEvent, RecordLatency, Incr, IncrByFloat, IncrSamples, Expire,
       RecordFails, keyVars
  <1>8. took[r] \in Nat
    BY DEF AnalyticsTyped
  <1>9. ReportTyped'
    BY <1>2, <1>3, <1>4, SMTT(30) DEF ReportTyped, Days
  <1>10. \A d \in Days : uploads[d] <= uploads'[d] /\ seconds[d] <= seconds'[d]
    BY <1>5, <1>6, <1>7, <1>8
  <1> QED BY <1>1, <1>2, <1>3, <1>4, <1>9, <1>10

-----------------------------------------------------------------------------
(* What has been read.                                                     *)

\* Keys that take nothing back leave what was read of them true, also over
\* midnight.
LEMMA ReadsKept ==
    ASSUME ConstantsOK, AnalyticsTyped, AnalyticsTyped', ReportTyped, ReportTyped',
           RangeInv, TodayInv, WindowInv, TrendInv,
           UNCHANGED <<read, report>>,
           \/ today' = today
           \/ today' = today + 1 /\ (read # "idle" => report.to = today),
           happened <= happened', lost <= lost',
           \A d \in Days : uploads[d] <= uploads'[d] /\ seconds[d] <= seconds'[d]
    PROVE  RangeInv' /\ TodayInv' /\ WindowInv' /\ TrendInv'
  <1>1. today \in Nat /\ report.to \in Nat /\ report.from \in Nat
    BY Calendar DEF AnalyticsTyped, ReportTyped, Days
  <1>2. RangeInv'
    BY <1>1 DEF RangeInv
  <1>3. ASSUME NEW days \in SUBSET Days
        PROVE  /\ SumOf(uploads, days) \in Nat /\ SumOf(uploads', days) \in Nat
               /\ SumOf(seconds, days) \in Nat /\ SumOf(seconds', days) \in Nat
               /\ SumOf(uploads, days) <= SumOf(uploads', days)
               /\ SumOf(seconds, days) <= SumOf(seconds', days)
    <2>1. /\ IsFiniteSet(days)
          /\ \A d \in days : /\ uploads[d] \in Nat /\ uploads'[d] \in Nat /\ uploads[d] <= uploads'[d]
                             /\ seconds[d] \in Nat /\ seconds'[d] \in Nat /\ seconds[d] <= seconds'[d]
      BY DaySums DEF AnalyticsTyped, Days
    <2> QED BY <2>1, SumType, SumMonotonic
  <1>4. report.from..report.to \in SUBSET Days
    BY <1>1, Calendar, SMTT(30) DEF ReportTyped, Days
  <1>5. /\ report.today.uploads \in Nat /\ report.today.seconds \in Nat
        /\ report.window.uploads \in Nat /\ report.window.seconds \in Nat
        /\ report.window.samples \in Nat /\ report.underWay \in Nat /\ report.before \in Nat
        /\ happened \in Nat /\ happened' \in Nat /\ lost \in Nat /\ lost' \in Nat
    BY DEF ReportTyped
  <1>6. \A n \in Nat :
            /\ n <= Sum(uploads, report.from, report.to) => n <= Sum(uploads, report.from, report.to)'
            /\ n <= Sum(seconds, report.from, report.to) => n <= Sum(seconds, report.from, report.to)'
    <2> DEFINE days == report.from..report.to
    <2>1. /\ Sum(uploads, report.from, report.to) = SumOf(uploads, days)
          /\ Sum(seconds, report.from, report.to) = SumOf(seconds, days)
          /\ Sum(uploads, report.from, report.to)' = SumOf(uploads', days)
          /\ Sum(seconds, report.from, report.to)' = SumOf(seconds', days)
      BY DEF Sum
    <2>2. days \in SUBSET Days
      BY <1>4
    <2> HIDE DEF days
    <2> QED BY <1>3, <2>1, <2>2
  <1>7. TodayInv'
    BY <1>5, <1>6 DEF TodayInv
  <1>8. WindowInv'
    <2>1. report.window.uploads <= happened'
      BY <1>5 DEF WindowInv
    <2>2. read = "windowSamples" => report.window.seconds <= Sum(seconds, report.from, report.to)'
      BY <1>5, <1>6 DEF WindowInv
    <2>3. ASSUME read = "window"
          PROVE  report.window.seconds <= MaxSeconds * (report.window.samples + lost' + report.underWay)
      <3> DEFINE before == report.window.samples + lost + report.underWay
                 after == report.window.samples + lost' + report.underWay
      <3>1. before \in Nat /\ after \in Nat /\ before <= after
        BY <1>5
      <3>2. report.window.seconds <= MaxSeconds * before
        BY <2>3 DEF WindowInv
      <3> HIDE DEF before, after
      <3>3. MaxSeconds * before <= MaxSeconds * after
        BY <3>1, LongestLatency, TimesMonotonic
      <3>4. MaxSeconds * before \in Nat /\ MaxSeconds * after \in Nat
        BY <3>1, LongestLatency
      <3>5. report.window.seconds <= MaxSeconds * after
        BY <1>5, <3>2, <3>3, <3>4
      <3> QED BY <3>5 DEF after
    <2> QED BY <2>1, <2>2, <2>3 DEF WindowInv
  <1>9. TrendInv'
    <2> DEFINE n == Len(report.points)
               sum == SumOf(report.points, 1..n)
               done == DaysRead(n)
               ahead == DaysAhead(n)
    <2>1. done \in SUBSET Days /\ ahead \in SUBSET Days /\ done' = done /\ ahead' = ahead
      BY DEF DaysRead, DaysAhead, Days
    <2>2. sum \in Nat
      <3>1. n \in Nat /\ \A i \in 1..n : report.points[i] \in Nat
        BY SMTT(30) DEF ReportTyped
      <3> HIDE DEF n
      <3>2. IsFiniteSet(1..n)
        <4>1. 1 \in Int /\ n \in Int
          BY <3>1
        <4> QED BY <4>1, FS_Interval
      <3> QED BY <3>1, <3>2, SumType DEF n
    <2>3. n' = n /\ sum' = sum /\ report'.before = report.before
      OBVIOUS
    <2>4. n <= Periods /\ (read # "trend" => n = 0)
      BY DEF TrendInv
    <2>5. ASSUME read = "trend"
          PROVE  sum <= SumOf(uploads', done) /\ report.before <= sum + SumOf(uploads', ahead)
      <3>1. sum <= SumOf(uploads, done) /\ report.before <= sum + SumOf(uploads, ahead)
        BY <2>5 DEF TrendInv
      <3> HIDE DEF sum, done, ahead, n
      <3> QED BY <1>3, <1>5, <2>1, <2>2, <3>1
    <2>6. SumOf(uploads, done)' = SumOf(uploads', done) /\ SumOf(uploads, ahead)' = SumOf(uploads', ahead)
      BY <2>1
    <2> QED BY <2>1, <2>3, <2>4, <2>5, <2>6 DEF TrendInv
  <1> QED BY <1>2, <1>7, <1>8, <1>9

-----------------------------------------------------------------------------
(* The steps of the dashboard.                                             *)

\* What is read is a number.
LEMMA ReportNumbers ==
    ASSUME ConstantsOK, AnalyticsTyped, ReportTyped
    PROVE  /\ today \in Nat /\ report.from \in Nat /\ report.to \in Nat
           /\ report.today.uploads \in Nat /\ report.today.seconds \in Nat
           /\ report.window.uploads \in Nat /\ report.window.seconds \in Nat
           /\ report.window.samples \in Nat /\ report.underWay \in Nat /\ report.before \in Nat
           /\ happened \in Nat /\ lost \in Nat
           /\ report.from..report.to \in SUBSET Days
           /\ WindowDays \in Nat \ {0} /\ PeriodDays \in Nat \ {0} /\ Periods \in Nat \ {0}
  <1>1. /\ today \in Nat /\ report.from \in Days /\ report.to \in Days
    BY Calendar DEF AnalyticsTyped, ReportTyped, Days
  <1>2. report.from..report.to \in SUBSET Days /\ report.from \in Nat /\ report.to \in Nat
    BY <1>1, Calendar DEF Days
  <1>3. WindowDays \in Nat \ {0} /\ PeriodDays \in Nat \ {0} /\ Periods \in Nat \ {0}
    BY DEF ConstantsOK
  <1> QED BY <1>1, <1>2, <1>3 DEF ReportTyped

\* Steps of the reader leave the counts alone.
LEMMA ReaderCounts ==
    ASSUME CountsInv, UNCHANGED <<uploads, seconds, samples, pc, day, took, happened, lost>>
    PROVE  CountsInv'
  <1>1. SumOf(uploads, Days)' + Cardinality(Recording("incr"))' <= happened'
    BY DEF CountsInv, Recording, Days
  <1>2. ASSUME NEW days \in SUBSET Days
        PROVE  SumOf(seconds, days)' <=
                   MaxSeconds * (SumOf(samples, days)' + lost' + Cardinality(HalfRecorded(days))')
    <2>1. /\ SumOf(seconds, days)' = SumOf(seconds, days) /\ SumOf(samples, days)' = SumOf(samples, days)
          /\ lost' = lost /\ Cardinality(HalfRecorded(days))' = Cardinality(HalfRecorded(days))
      BY DEF HalfRecorded, Recording
    <2> QED BY <2>1 DEF CountsInv
  <1>3. \A q \in Recorders : pc'[q] = "incrbyfloat" => took'[q] <= MaxSeconds
    BY DEF CountsInv
  <1> QED BY <1>1, <1>2, <1>3 DEF CountsInv, Days

\* Today's usage is asked for.
LEMMA TodayAsked ==
    ASSUME ConstantsOK, DashboardInv, AskToday
    PROVE  ReportTyped' /\ RangeInv' /\ TodayInv' /\ WindowInv' /\ TrendInv'
  <1> USE DEF DashboardInv, AnalyticsInv
  <1>1. /\ read = "idle" /\ read' = "todayCount"
        /\ report' = [report EXCEPT !.from = IF today < 1 THEN 0 ELSE today - 1 + 1, !.to = today]
        /\ UNCHANGED <<today, happened, lost>>
    BY DEF AskToday, Begin
  <1>2. report' = [report EXCEPT !.from = today, !.to = today]
    <2>1. today \in Nat
      BY ReportNumbers
    <2>2. (IF today < 1 THEN 0 ELSE today - 1 + 1) = today
      BY <2>1
    <2> QED BY <1>1, <2>2
  <1>3. ReportTyped'
    BY <1>1, <1>2 DEF ReportTyped, AnalyticsTyped, Days
  <1>4. /\ report'.from = today /\ report'.to = today /\ report'.today = report.today
        /\ report'.window = report.window /\ report'.points = report.points
    BY <1>2 DEF ReportTyped
  <1>5. RangeInv'
    BY <1>1, <1>4 DEF RangeInv
  <1>6. TodayInv'
    BY <1>1 DEF TodayInv
  <1>7. WindowInv'
    BY <1>1, <1>4 DEF WindowInv
  <1>8. TrendInv'
    <2>1. Len(report.points) = 0 /\ Len(report'.points) = 0
      BY <1>1, <1>4 DEF TrendInv
    <2> QED BY <1>1, <2>1, ReportNumbers DEF TrendInv
  <1> QED BY <1>3, <1>5, <1>6, <1>7, <1>8

\* The window's usage is asked for, after today's or on its own: its days
\* include those of today's.
LEMMA WindowAsked ==
    ASSUME ConstantsOK, DashboardInv, AskWindow \/ AskReport
    PROVE  ReportTyped' /\ RangeInv' /\ TodayInv' /\ WindowInv' /\ TrendInv'
  <1> USE DEF DashboardInv, AnalyticsInv
  <1> DEFINE from == IF today < WindowDays THEN 0 ELSE today - WindowDays + 1
  <1>1. /\ read \in {"today", "idle"} /\ read' = "windowCount"
        /\ report' = [report EXCEPT !.from = from, !.to = today]
        /\ UNCHANGED <<today, uploads, seconds, happened, lost>>
    BY DEF AskWindow, AskReport, Begin, keyVars
  <1>0. /\ today \in Nat /\ WindowDays \in Nat \ {0} /\ LastDay \in Nat
        /\ report.today.uploads \in Nat /\ report.today.seconds \in Nat
    BY ReportNumbers, Calendar
  <1>2. from \in Days /\ from <= today /\ (WindowDays >= 2 => from <= today - 1 \/ from = 0)
    <2>1. today \in 0..LastDay
      BY DEF AnalyticsTyped, Days
    <2>2. CASE today < WindowDays
      BY <1>0, <2>1, <2>2 DEF Days
    <2>3. CASE ~(today < WindowDays)
      BY <1>0, <2>1, <2>3 DEF Days
    <2> QED BY <2>2, <2>3
  <1> HIDE DEF from
  <1>3. ReportTyped'
    BY <1>1, <1>2 DEF ReportTyped, AnalyticsTyped, Days
  <1>4. /\ report'.from = from /\ report'.to = today /\ report'.today = report.today
        /\ report'.window = report.window /\ report'.points = report.points
    BY <1>1 DEF ReportTyped
  <1>5. RangeInv'
    BY <1>1, <1>4 DEF RangeInv
  <1>6. ASSUME WindowDays >= 2
        PROVE  /\ report.today.uploads <= SumOf(uploads, from..today)
               /\ report.today.seconds <= SumOf(seconds, from..today)
    <2>1. from..today \in SUBSET Days
      BY <1>2, Calendar, ReportNumbers DEF AnalyticsTyped, Days
    <2>2. SumOf(uploads, from..today) \in Nat /\ SumOf(seconds, from..today) \in Nat
      BY <2>1, DaySums
    <2>3. CASE read = "idle"
      BY <2>2, <2>3 DEF RangeInv, Usage
    <2>4. CASE read = "today"
      <3> DEFINE days == report.from..report.to
      <3>1. days \in SUBSET (from..today)
        BY <1>2, <1>6, <2>4, ReportNumbers, Calendar DEF RangeInv, Days
      <3>2. report.today.uploads <= SumOf(uploads, days) /\ report.today.seconds <= SumOf(seconds, days)
        BY <2>4 DEF TodayInv, Sum
      <3>3. days \in SUBSET Days
        BY <2>1, <3>1
      <3>4. \A d \in from..today : uploads[d] \in Nat /\ seconds[d] \in Nat
        BY <2>1 DEF AnalyticsTyped
      <3> HIDE DEF days
      <3>5. SumOf(uploads, days) \in Nat /\ SumOf(seconds, days) \in Nat /\ IsFiniteSet(from..today)
        BY <2>1, <3>3, DaySums
      <3>6. /\ SumOf(uploads, days) <= SumOf(uploads, from..today)
            /\ SumOf(seconds, days) <= SumOf(seconds, from..today)
        BY <3>1, <3>4, <3>5, SumSubset
      <3> QED BY <1>0, <2>2, <3>2, <3>5, <3>6
    <2> QED BY <1>1, <2>3, <2>4
  <1>7. TodayInv'
    <2>1. /\ Sum(uploads, report.from, report.to)' = SumOf(uploads, from..today)
          /\ Sum(seconds, report.from, report.to)' = SumOf(seconds, from..today)
      BY <1>1, <1>4 DEF Sum
    <2> QED BY <1>1, <1>4, <1>6, <2>1 DEF TodayInv
  <1>8. WindowInv'
    BY <1>1, <1>4 DEF WindowInv
  <1>9. TrendInv'
    <2>1. Len(report.points) = 0 /\ Len(report'.points) = 0
      BY <1>1, <1>4 DEF TrendInv
    <2> QED BY <1>1, <2>1, ReportNumbers DEF TrendInv
  <1> QED BY <1>3, <1>5, <1>7, <1>8, <1>9

\* The sum over some days is no more than what happened.
LEMMA NoMoreThanHappened ==
    ASSUME ConstantsOK, AnalyticsTyped, ReportTyped, CountsInv, NEW days \in SUBSET Days
    PROVE  SumOf(uploads, days) <= happened
  <1>1. IsFiniteSet(Days) /\ SumOf(uploads, Days) \in Nat /\ SumOf(uploads, days) \in Nat
    BY DaySums
  <1>2. SumOf(uploads, days) <= SumOf(uploads, Days)
    <2>1. \A d \in Days : uploads[d] \in Nat
      BY DEF AnalyticsTyped
    <2> QED BY <1>1, <2>1, SumSubset
  <1>3. Cardinality(Recording("incr")) \in Nat
    BY RecordersCounted DEF Recording
  <1>4. SumOf(uploads, Days) + Cardinality(Recording("incr")) <= happened /\ happened \in Nat
    BY DEF CountsInv, ReportTyped
  <1> QED BY <1>1, <1>2, <1>3, <1>4

\* Of today one number after the other is read.
LEMMA TodayRead ==
    ASSUME ConstantsOK, DashboardInv,
           \/ read = "todayCount" /\ ReadOn("today", "uploads", uploads, "todaySum")
           \/ read = "todaySum" /\ ReadOn("today", "seconds", seconds, "todaySamples")
           \/ read = "todaySamples" /\ ReadOn("today", "samples", samples, "today")
    PROVE  ReportTyped' /\ RangeInv' /\ TodayInv' /\ WindowInv' /\ TrendInv'
  <1> USE DEF DashboardInv, AnalyticsInv
  <1> DEFINE days == report.from..report.to
  <1>1. /\ today' = today /\ UNCHANGED <<uploads, seconds, samples, happened, lost>>
        /\ read \in {"todayCount", "todaySum", "todaySamples"}
        /\ read' \in {"todaySum", "todaySamples", "today"}
    BY DEF ReadOn, keyVars
  <1>2. /\ SumOf(uploads, days) \in Nat /\ SumOf(seconds, days) \in Nat /\ SumOf(samples, days) \in Nat
    <2>1. days \in SUBSET Days
      BY ReportNumbers
    <2> HIDE DEF days
    <2> QED BY <2>1, DaySums
  <1>3. /\ ReportTyped'
        /\ report'.from = report.from /\ report'.to = report.to /\ report'.points = report.points
        /\ report'.window = report.window
        /\ \/ /\ read = "todayCount" /\ read' = "todaySum"
              /\ report'.today.uploads = SumOf(uploads, days)
              /\ report'.today.seconds = report.today.seconds
           \/ /\ read = "todaySum" /\ read' = "todaySamples"
              /\ report'.today.seconds = SumOf(seconds, days)
              /\ report'.today.uploads = report.today.uploads
           \/ /\ read = "todaySamples" /\ read' = "today"
              /\ report'.today.seconds = report.today.seconds
              /\ report'.today.uploads = report.today.uploads
    <2>1. CASE read = "todayCount" /\ ReadOn("today", "uploads", uploads, "todaySum")
      <3>1. /\ report' = [report EXCEPT !["today"]["uploads"] = SumOf(uploads, days)]
            /\ read' = "todaySum"
        BY <2>1 DEF ReadOn, Sum
      <3> HIDE DEF days
      <3> QED BY <1>1, <1>2, <2>1, <3>1 DEF ReportTyped, Days
    <2>2. CASE read = "todaySum" /\ ReadOn("today", "seconds", seconds, "todaySamples")
      <3>1. /\ report' = [report EXCEPT !["today"]["seconds"] = SumOf(seconds, days)]
            /\ read' = "todaySamples"
        BY <2>2 DEF ReadOn, Sum
      <3> HIDE DEF days
      <3> QED BY <1>1, <1>2, <2>2, <3>1 DEF ReportTyped, Days
    <2>3. CASE read = "todaySamples" /\ ReadOn("today", "samples", samples, "today")
      <3>1. /\ report' = [report EXCEPT !["today"]["samples"] = SumOf(samples, days)]
            /\ read' = "today"
        BY <2>3 DEF ReadOn, Sum
      <3> HIDE DEF days
      <3> QED BY <1>1, <1>2, <2>3, <3>1 DEF ReportTyped, Days
    <2> QED BY <2>1, <2>2, <2>3
  <1>4. RangeInv'
    BY <1>1, <1>3 DEF RangeInv
  <1>5. TodayInv'
    <2>1. /\ Sum(uploads, report.from, report.to)' = SumOf(uploads, days)
          /\ Sum(seconds, report.from, report.to)' = SumOf(seconds, days)
          /\ Sum(uploads, report.from, report.to) = SumOf(uploads, days)
          /\ Sum(seconds, report.from, report.to) = SumOf(seconds, days)
      BY <1>1, <1>3 DEF Sum
    <2>2. read \in {"idle", "todayCount"} => report.today.seconds = 0
      BY DEF RangeInv, Usage
    <2> HIDE DEF days
    <2> QED BY <1>1, <1>2, <1>3, <2>1, <2>2 DEF TodayInv
  <1>6. WindowInv'
    BY <1>1, <1>3 DEF WindowInv
  <1>7. TrendInv'
    <2>1. Len(report.points) = 0 /\ Len(report'.points) = 0 /\ read' # "trend"
      BY <1>1, <1>3 DEF TrendInv
    <2> QED BY <2>1, ReportNumbers DEF TrendInv
  <1> QED BY <1>3, <1>4, <1>5, <1>6, <1>7

\* So it is of the window: what is counted now is no less than what was read
\* of today, and no more than happened.
LEMMA WindowRead ==
    ASSUME ConstantsOK, DashboardInv,
           \/ read = "windowCount" /\ ReadOn("window", "uploads", uploads, "windowSum")
           \/ read = "windowSum" /\ ReadOn("window", "seconds", seconds, "windowSamples")
    PROVE  ReportTyped' /\ RangeInv' /\ TodayInv' /\ WindowInv' /\ TrendInv'
  <1> USE DEF DashboardInv, AnalyticsInv
  <1> DEFINE days == report.from..report.to
  <1>1. /\ today' = today /\ UNCHANGED <<uploads, seconds, samples, happened, lost>>
        /\ read \in {"windowCount", "windowSum"}
        /\ read' \in {"windowSum", "windowSamples"}
    BY DEF ReadOn, keyVars
  <1>2. /\ SumOf(uploads, days) \in Nat /\ SumOf(seconds, days) \in Nat
        /\ SumOf(uploads, days) <= happened
    <2>1. days \in SUBSET Days
      BY ReportNumbers
    <2> HIDE DEF days
    <2> QED BY <2>1, DaySums, NoMoreThanHappened
  <1>3. /\ ReportTyped'
        /\ report'.from = report.from /\ report'.to = report.to /\ report'.points = report.points
        /\ report'.today = report.today
        /\ \/ /\ read = "windowCount" /\ read' = "windowSum"
              /\ report'.window.uploads = SumOf(uploads, days)
           \/ /\ read = "windowSum" /\ read' = "windowSamples"
              /\ report'.window.seconds = SumOf(seconds, days)
              /\ report'.window.uploads = report.window.uploads
    <2>1. CASE read = "windowCount" /\ ReadOn("window", "uploads", uploads, "windowSum")
      <3>1. /\ report' = [report EXCEPT !["window"]["uploads"] = SumOf(uploads, days)]
            /\ read' = "windowSum"
        BY <2>1 DEF ReadOn, Sum
      <3> HIDE DEF days
      <3> QED BY <1>1, <1>2, <2>1, <3>1 DEF ReportTyped, Days
    <2>2. CASE read = "windowSum" /\ ReadOn("window", "seconds", seconds, "windowSamples")
      <3>1. /\ report' = [report EXCEPT !["window"]["seconds"] = SumOf(seconds, days)]
            /\ read' = "windowSamples"
        BY <2>2 DEF ReadOn, Sum
      <3> HIDE DEF days
      <3> QED BY <1>1, <1>2, <2>2, <3>1 DEF ReportTyped, Days
    <2> QED BY <2>1, <2>2
  <1>4. RangeInv'
    BY <1>1, <1>3 DEF RangeInv
  <1>5. /\ Sum(uploads, report.from, report.to)' = SumOf(uploads, days)
        /\ Sum(seconds, report.from, report.to)' = SumOf(seconds, days)
        /\ Sum(uploads, report.from, report.to) = SumOf(uploads, days)
        /\ Sum(seconds, report.from, report.to) = SumOf(seconds, days)
    BY <1>1, <1>3 DEF Sum
  <1> HIDE DEF days
  <1>6. TodayInv'
    BY <1>1, <1>2, <1>3, <1>5 DEF TodayInv
  <1>7. WindowInv'
    BY <1>1, <1>2, <1>3, <1>5 DEF WindowInv
  <1>8. TrendInv'
    <2>1. Len(report.points) = 0 /\ Len(report'.points) = 0 /\ read' # "trend"
      BY <1>1, <1>3 DEF TrendInv
    <2> QED BY <2>1, ReportNumbers DEF TrendInv
  <1> QED BY <1>3, <1>4, <1>6, <1>7, <1>8

\* The samples of the window are read last: with those that are under way or
\* lost they account for the latencies read before.
LEMMA SamplesRead ==
    ASSUME ConstantsOK, DashboardInv, read = "windowSamples", ReadSamples
    PROVE  ReportTyped' /\ RangeInv' /\ TodayInv' /\ WindowInv' /\ TrendInv'
  <1> USE DEF DashboardInv, AnalyticsInv
  <1> DEFINE days == report.from..report.to
             half == Cardinality(Recording("incrSamples"))
             some == Cardinality(HalfRecorded(days))
  <1>1. /\ report' = [report EXCEPT !.window.samples = SumOf(samples, days), !.underWay = half]
        /\ read' = "window"
        /\ today' = today /\ UNCHANGED <<uploads, seconds, samples, happened, lost>>
    BY DEF ReadSamples, Sum, keyVars
  <1>2. days \in SUBSET Days
    BY ReportNumbers
  <1>3. half \in Nat /\ some \in Nat /\ some <= half
    <2>1. /\ Recording("incrSamples") \in SUBSET Recorders
          /\ HalfRecorded(days) \in SUBSET Recording("incrSamples")
      BY DEF Recording, HalfRecorded
    <2> HIDE DEF days
    <2>2. IsFiniteSet(Recording("incrSamples")) /\ half \in Nat
      BY <2>1, RecordersCounted
    <2> QED BY <2>1, <2>2, FS_Subset, FS_CardinalityType
  <1> HIDE DEF half, some
  <1>4. SumOf(samples, days) \in Nat /\ SumOf(seconds, days) \in Nat
    <2> HIDE DEF days
    <2> QED BY <1>2, DaySums
  <1>5. SumOf(seconds, days) <= MaxSeconds * (SumOf(samples, days) + lost + some)
    <2> HIDE DEF days
    <2> QED BY <1>2 DEF CountsInv, some
  <1>6. report.window.seconds <= SumOf(seconds, days)
    BY DEF WindowInv, Sum
  <1> HIDE DEF days
  <1>7. /\ ReportTyped'
        /\ report'.from = report.from /\ report'.to = report.to /\ report'.points = report.points
        /\ report'.today = report.today /\ report'.window.uploads = report.window.uploads
        /\ report'.window.seconds = report.window.seconds
        /\ report'.window.samples = SumOf(samples, days) /\ report'.underWay = half
    BY <1>1, <1>3, <1>4 DEF ReportTyped, Days
  <1>8. RangeInv'
    BY <1>1, <1>7 DEF RangeInv
  <1>9. TodayInv'
    BY <1>1, <1>7 DEF TodayInv
  <1>10. WindowInv'
    <2> DEFINE before == SumOf(samples, days) + lost + some
               after == SumOf(samples, days) + lost + half
    <2>1. before \in Nat /\ after \in Nat /\ before <= after
      BY <1>3, <1>4, SMTT(30) DEF ReportTyped
    <2>2. SumOf(seconds, days) <= MaxSeconds * before
      BY <1>5
    <2> HIDE DEF before, after
    <2>3. MaxSeconds * before <= MaxSeconds * after
      BY <2>1, LongestLatency, TimesMonotonic
    <2>4. MaxSeconds * before \in Nat /\ MaxSeconds * after \in Nat /\ report.window.seconds \in Nat
      BY <2>1, LongestLatency, ReportNumbers
    <2>5. report.window.seconds <= MaxSeconds * after
      BY <1>4, <1>6, <2>2, <2>3, <2>4
    <2>6. after = report'.window.samples + lost' + report'.underWay
      BY <1>1, <1>7 DEF after
    <2> QED BY <1>1, <1>7, <2>5, <2>6 DEF WindowInv
  <1>11. TrendInv'
    <2>1. Len(report.points) = 0 /\ Len(report'.points) = 0 /\ read' # "trend"
      BY <1>1, <1>7 DEF TrendInv
    <2> QED BY <2>1, ReportNumbers DEF TrendInv
  <1> QED BY <1>7, <1>8, <1>9, <1>10, <1>11

-----------------------------------------------------------------------------
(* The steps of a trend.                                                   *)

\* A trend is asked for: all of its days are ahead.
LEMMA TrendAsked ==
    ASSUME ConstantsOK, DashboardInv, AskTrend
    PROVE  ReportTyped' /\ RangeInv' /\ TodayInv' /\ WindowInv' /\ TrendInv'
  <1> USE DEF DashboardInv, AnalyticsInv
  <1> DEFINE days == {d \in Days : today - Periods * PeriodDays < d /\ d <= today}
             there == SumOf(uploads, days)
  <1>1. /\ read = "idle" /\ read' = "trend"
        /\ report' = [report EXCEPT !.to = today, !.before = there]
        /\ UNCHANGED <<today, uploads, happened, lost>>
    BY DEF AskTrend, keyVars
  <1>2. there \in Nat
    <2>1. days \in SUBSET Days
      OBVIOUS
    <2> HIDE DEF days
    <2> QED BY <2>1, DaySums
  <1> HIDE DEF there
  <1>3. /\ ReportTyped'
        /\ report'.to = today /\ report'.before = there /\ report'.points = report.points
        /\ report'.window = report.window
    BY <1>1, <1>2 DEF ReportTyped, AnalyticsTyped, Days
  <1>4. RangeInv'
    BY <1>1, <1>3 DEF RangeInv
  <1>5. TodayInv'
    BY <1>1 DEF TodayInv
  <1>6. WindowInv'
    BY <1>1, <1>3 DEF WindowInv
  <1>7. TrendInv'
    <2>1. Len(report'.points) = 0
      BY <1>1, <1>3 DEF TrendInv
    <2>2. SumOf(report'.points, 1..Len(report'.points)) = 0
      <3>1. 1..0 = {}
        OBVIOUS
      <3> QED BY <2>1, <3>1, SumOfNone
    <2>3. (DaysAhead(Len(report.points)))' = days
      <3>1. Periods - 0 = Periods
        BY ReportNumbers
      <3>2. (DaysAhead(Len(report.points)))'
            = {d \in Days : report'.to - (Periods - 0) * PeriodDays < d /\ d <= report'.to}
        BY <2>1 DEF DaysAhead, Days
      <3>3. (DaysAhead(Len(report.points)))' = {d \in Days : today - Periods * PeriodDays < d /\ d <= today}
        BY <1>3, <3>1, <3>2
      <3> QED BY <3>3
    <2>4. SumOf(uploads, DaysAhead(Len(report.points)))' = there
      BY <1>1, <2>3 DEF there
    <2>5. SumOf(uploads, DaysRead(Len(report.points)))' \in Nat
      <3>1. (DaysRead(Len(report.points)))' \in SUBSET Days
        BY DEF DaysRead, Days
      <3>2. SumOf(uploads, (DaysRead(Len(report.points)))') \in Nat
        BY <3>1, DaySums
      <3> QED BY <1>1, <3>2
    <2> HIDE DEF days
    <2> QED BY <1>1, <1>2, <1>3, <2>1, <2>2, <2>4, <2>5, ReportNumbers, SMTT(30) DEF TrendInv
  <1> QED BY <1>3, <1>4, <1>5, <1>6, <1>7

\* A period is a number of days later than the one before.
LEMMA PeriodDates ==
    ASSUME ConstantsOK, NEW n \in Nat, n < Periods
    PROVE  /\ (Periods - n) * PeriodDays = (Periods - (n + 1)) * PeriodDays + PeriodDays
           /\ (Periods - (n + 1)) * PeriodDays \in Nat
           /\ (Periods - n) * PeriodDays \in Nat
           /\ (Periods - n) * PeriodDays <= Periods * PeriodDays
           /\ Periods * PeriodDays \in Nat
  <1>1. Periods \in Nat /\ PeriodDays \in Nat
    BY DEF ConstantsOK
  <1> DEFINE k == Periods - (n + 1)
  <1>2. k \in Nat /\ Periods - n = k + 1
    BY <1>1
  <1>3. (k + 1) * PeriodDays = k * PeriodDays + PeriodDays /\ k * PeriodDays \in Nat
    BY <1>1, <1>2
  <1>4. PeriodDays * (k + 1) <= PeriodDays * Periods
    BY <1>1, <1>2, TimesMonotonic
  <1>5. PeriodDays * (k + 1) = (k + 1) * PeriodDays /\ PeriodDays * Periods = Periods * PeriodDays
    BY <1>1, <1>2
  <1>6. Periods * PeriodDays \in Nat /\ (k + 1) * PeriodDays \in Nat
    BY <1>1, <1>2
  <1> HIDE DEF k
  <1>7. (Periods - n) * PeriodDays = (k + 1) * PeriodDays
    BY <1>2
  <1>8. (Periods - (n + 1)) * PeriodDays = k * PeriodDays
    BY DEF k
  <1> QED BY <1>3, <1>4, <1>5, <1>6, <1>7, <1>8

\* The days of the next period are the first of those ahead, and are then read.
LEMMA PeriodMoves ==
    ASSUME ConstantsOK, AnalyticsTyped, ReportTyped, NEW n \in Nat, n < Periods
    PROVE  /\ DaysRead(n + 1) = DaysRead(n) \cup PeriodOf(n + 1)
           /\ DaysAhead(n) = PeriodOf(n + 1) \cup DaysAhead(n + 1)
           /\ DaysRead(n) \cap PeriodOf(n + 1) = {}
           /\ PeriodOf(n + 1) \cap DaysAhead(n + 1) = {}
           /\ DaysRead(n) \in SUBSET Days /\ DaysAhead(n + 1) \in SUBSET Days
           /\ PeriodOf(n + 1) \in SUBSET Days
  <1> DEFINE to == report.to
             all == Periods * PeriodDays
             next == (Periods - (n + 1)) * PeriodDays
             start == to - next - PeriodDays
  <1>1. /\ to \in Nat /\ all \in Nat /\ next \in Nat /\ PeriodDays \in Nat
        /\ (Periods - n) * PeriodDays = next + PeriodDays /\ next + PeriodDays <= all
    BY ReportNumbers, PeriodDates
  <1>2. to - (Periods - n) * PeriodDays = start
    <2> HIDE DEF next, to
    <2> QED BY <1>1
  <1>3. DaysRead(n) = {d \in Days : to - all < d /\ d <= start}
    BY <1>2 DEF DaysRead
  <1>4. DaysRead(n + 1) = {d \in Days : to - all < d /\ d <= to - next}
    BY DEF DaysRead
  <1>5. DaysAhead(n) = {d \in Days : start < d /\ d <= to}
    BY <1>2 DEF DaysAhead
  <1>6. DaysAhead(n + 1) = {d \in Days : to - next < d /\ d <= to}
    BY DEF DaysAhead
  <1>7. PeriodOf(n + 1) = {d \in Days : start < d /\ d <= to - next}
    BY DEF PeriodOf
  <1>8. \A d \in Days : d \in Int
    BY Calendar DEF Days
  <1>9. /\ start \in Int /\ to - next \in Int /\ to - all \in Int
        /\ start <= to - next /\ to - next <= to /\ to - all <= start
    <2> HIDE DEF to, all, next
    <2> QED BY <1>1
  <1> HIDE DEF to, all, next, start
  <1>10. \A d \in Days : /\ (to - all < d /\ d <= to - next) <=>
                               \/ to - all < d /\ d <= start
                               \/ start < d /\ d <= to - next
                         /\ (start < d /\ d <= to) <=>
                               \/ start < d /\ d <= to - next
                               \/ to - next < d /\ d <= to
    BY <1>1, <1>8, <1>9
  <1>11. \A d \in Days : ~(d <= start /\ start < d) /\ ~(d <= to - next /\ to - next < d)
    BY <1>8, <1>9
  <1> QED BY <1>3, <1>4, <1>5, <1>6, <1>7, <1>10, <1>11

\* A period is read: its days are no longer ahead.
LEMMA PeriodRead ==
    ASSUME ConstantsOK, DashboardInv, ReadPeriod
    PROVE  ReportTyped' /\ RangeInv' /\ TodayInv' /\ WindowInv' /\ TrendInv'
  <1> USE DEF DashboardInv, AnalyticsInv
  <1> DEFINE n == Len(report.points)
             more == SumOf(uploads, PeriodOf(n + 1))
             sum == SumOf(report.points, 1..n)
  <1>1. /\ read = "trend" /\ n < Periods /\ read' = "trend"
        /\ report' = [report EXCEPT !.points = Append(report.points, more)]
        /\ UNCHANGED <<today, uploads, happened, lost>>
    BY DEF ReadPeriod, keyVars
  <1>2. n \in Nat /\ report.points \in Seq(Nat)
    BY DEF ReportTyped
  <1> HIDE DEF more
  <1>3. report' = [report EXCEPT !.points = Append(report.points, more)]
    BY <1>1
  <1>4. more \in Nat
    BY <1>1, <1>2, PeriodMoves, DaySums DEF more
  <1>5. /\ ReportTyped'
        /\ report'.to = report.to /\ report'.before = report.before
        /\ report'.points = Append(report.points, more)
        /\ report'.window = report.window
    <2> DEFINE points == Append(report.points, more)
    <2>1. points \in Seq(Nat)
      BY <1>2, <1>4
    <2>2. report' = [report EXCEPT !.points = points]
      BY <1>3
    <2> HIDE DEF points, n
    <2>3. /\ ReportTyped'
          /\ report'.to = report.to /\ report'.before = report.before
          /\ report'.points = points /\ report'.window = report.window
      BY <1>1, <2>1, <2>2 DEF ReportTyped, Days
    <2> QED BY <2>3 DEF points
  <1>6. RangeInv'
    BY <1>1, <1>5 DEF RangeInv
  <1>7. TodayInv'
    BY <1>1 DEF TodayInv
  <1>8. WindowInv'
    BY <1>1, <1>5 DEF WindowInv
  <1>9. TrendInv'
    <2>1. Len(report'.points) = n + 1
      BY <1>2, <1>4, <1>5
    <2>2. SumOf(report'.points, 1..(n + 1)) = more + sum
      <3>1. /\ \A i \in 1..(n + 1) : report'.points[i] \in Nat
            /\ report'.points[n + 1] = more
            /\ \A i \in 1..n : report.points[i] \in Nat /\ report'.points[i] = report.points[i]
        BY <1>2, <1>4, <1>5
      <3> HIDE DEF n
      <3>2. n + 1 \in 1..(n + 1) /\ (1..(n + 1)) \ {n + 1} = 1..n
        BY <1>2
      <3>3. IsFiniteSet(1..(n + 1)) /\ IsFiniteSet(1..n)
        BY <1>2, FS_Interval
      <3>4. SumOf(report'.points, 1..(n + 1)) = more + SumOf(report'.points, 1..n)
        <4>1. SumOf(report'.points, 1..(n + 1))
              = report'.points[n + 1] + SumOf(report'.points, (1..(n + 1)) \ {n + 1})
          BY <3>1, <3>2, <3>3, SumRemove
        <4> QED BY <3>1, <3>2, <4>1
      <3>5. SumOf(report.points, 1..n) = SumOf(report'.points, 1..n)
        BY <3>1, <3>3, SumSame
      <3> QED BY <3>4, <3>5
    <2>3. sum \in Nat
      <3>1. \A i \in 1..n : report.points[i] \in Nat
        BY <1>2
      <3> HIDE DEF n
      <3>2. IsFiniteSet(1..n)
        BY <1>2, FS_Interval
      <3> QED BY <3>1, <3>2, SumType
    <2>4. sum <= SumOf(uploads, DaysRead(n)) /\ report.before <= sum + SumOf(uploads, DaysAhead(n))
      BY <1>1 DEF TrendInv
    <2> HIDE DEF n, sum
    <2>5. /\ SumOf(uploads, DaysRead(n + 1)) = SumOf(uploads, DaysRead(n)) + more
          /\ SumOf(uploads, DaysAhead(n)) = more + SumOf(uploads, DaysAhead(n + 1))
      <3>1. \A d \in Days : uploads[d] \in Nat
        BY DEF AnalyticsTyped
      <3>2. /\ IsFiniteSet(DaysRead(n)) /\ IsFiniteSet(DaysAhead(n + 1)) /\ IsFiniteSet(PeriodOf(n + 1))
            /\ \A d \in DaysRead(n) \cup PeriodOf(n + 1) : uploads[d] \in Nat
            /\ \A d \in PeriodOf(n + 1) \cup DaysAhead(n + 1) : uploads[d] \in Nat
        BY <1>1, <1>2, <3>1, PeriodMoves, DaySums
      <3>3. SumOf(uploads, DaysRead(n) \cup PeriodOf(n + 1)) = SumOf(uploads, DaysRead(n)) + more
        BY <1>1, <1>2, <3>2, PeriodMoves, SumUnion DEF more
      <3>4. SumOf(uploads, PeriodOf(n + 1) \cup DaysAhead(n + 1)) = more + SumOf(uploads, DaysAhead(n + 1))
        BY <1>1, <1>2, <3>2, PeriodMoves, SumUnion, SMTT(30) DEF more
      <3> QED BY <1>1, <1>2, <3>3, <3>4, PeriodMoves
    <2>6. /\ SumOf(uploads, DaysRead(n)) \in Nat /\ SumOf(uploads, DaysAhead(n + 1)) \in Nat
      BY <1>1, <1>2, PeriodMoves, DaySums
    <2>7. /\ SumOf(uploads, DaysRead(Len(report.points)))' = SumOf(uploads, DaysRead(n + 1))
          /\ SumOf(uploads, DaysAhead(Len(report.points)))' = SumOf(uploads, DaysAhead(n + 1))
      BY <1>1, <1>5, <2>1 DEF DaysRead, DaysAhead, Days
    <2>8. SumOf(report.points, 1..Len(report.points))' = more + sum
      BY <2>1, <2>2
    <2>9. /\ more + sum <= SumOf(uploads, DaysRead(n + 1))
          /\ report.before <= more + sum + SumOf(uploads, DaysAhead(n + 1))
      BY <1>4, <2>3, <2>4, <2>5, <2>6, ReportNumbers
    <2>10. n + 1 <= Periods
      BY <1>1, <1>2, ReportNumbers
    <2> QED BY <1>1, <1>5, <2>1, <2>7, <2>8, <2>9, <2>10 DEF TrendInv
  <1> QED BY <1>5, <1>6, <1>7, <1>8, <1>9

-----------------------------------------------------------------------------
(* The dashboard and the trends.                                           *)

\* An answer forgets what was read.
LEMMA Responded ==
    ASSUME ConstantsOK, DashboardInv, Respond
    PROVE  ReportTyped' /\ RangeInv' /\ TodayInv' /\ WindowInv' /\ TrendInv'
  <1> USE DEF DashboardInv, AnalyticsInv
  <1>1. /\ read' = "idle" /\ UNCHANGED <<today, uploads, happened, lost>>
        /\ report' = [today |-> Usage, window |-> Usage, from |-> 0, to |-> 0, underWay |-> 0,
                      points |-> <<>>, before |-> 0]
    BY DEF Respond, keyVars
  <1>2. ReportTyped'
    BY <1>1, Calendar DEF ReportTyped, Usage, Days
  <1>3. RangeInv'
    BY <1>1 DEF RangeInv
  <1>4. TodayInv'
    BY <1>1 DEF TodayInv
  <1>5. WindowInv'
    BY <1>1, ReportNumbers DEF WindowInv, Usage
  <1>6. TrendInv'
    <2>1. Len(report'.points) = 0 /\ read' # "trend"
      BY <1>1
    <2> QED BY <2>1, ReportNumbers DEF TrendInv
  <1> QED BY <1>2, <1>3, <1>4, <1>5, <1>6

\* The invariant holds to begin with.
LEMMA DashboardInit ==
    ASSUME ConstantsOK, Init
    PROVE  DashboardInv
  <1>1. AnalyticsInv
    BY Calendar DEF ConstantsOK, Init, AnalyticsInv, AnalyticsTyped, Awaited
  <1>2. ReportTyped
    BY Calendar DEF Init, ReportTyped, Usage
  <1>3. ASSUME NEW days \in SUBSET Days
        PROVE  SumOf(uploads, days) = 0 /\ SumOf(seconds, days) = 0 /\ SumOf(samples, days) = 0
    <2> DEFINE Full == {T \in SUBSET days : SumOf(uploads, T) # 0}
    <2>1. /\ uploads = [d \in Days |-> 0] /\ seconds = uploads /\ samples = uploads
      BY DEF Init
    <2>2. IsFiniteSet(days)
      BY <1>1, DaySums DEF AnalyticsInv
    <2>3. Full = {}
      <3> SUFFICES ASSUME Full # {} PROVE FALSE  OBVIOUS
      <3>1. PICK T \in Full : \A U \in Full : Cardinality(T) <= Cardinality(U)
        <4>1. Full \in SUBSET (SUBSET days)  OBVIOUS
        <4> HIDE DEF Full
        <4> QED BY <2>2, <4>1, SmallestSet
      <3>2. IsFiniteSet(T) /\ T # {}
        BY <2>2, <3>1, FS_Subset, SumOfNone
      <3>3. SumOf(uploads, T \ {AnyOf(T)}) = 0
        BY <3>1, <3>2, RestSmaller
      <3>4. uploads[AnyOf(T)] = 0
        BY <2>1, <3>1, <3>2, RestSmaller
      <3> QED BY <3>1, <3>2, <3>3, <3>4, SumStep
    <2>4. SumOf(uploads, days) = 0
      BY <2>3
    <2> QED BY <2>1, <2>4
  <1>4. CountsInv
    <2>1. Recording("incr") = {}
      BY DEF Init, Recording
    <2>2. Cardinality({}) = 0
      BY FS_EmptySet
    <2>3. SumOf(uploads, Days) + Cardinality(Recording("incr")) <= happened
      <3>1. happened = 0
        BY DEF Init
      <3>2. SumOf(uploads, Days) = 0
        BY <1>3
      <3> QED BY <2>1, <2>2, <3>1, <3>2
    <2>4. ASSUME NEW days \in SUBSET Days
          PROVE  SumOf(seconds, days) <=
                     MaxSeconds * (SumOf(samples, days) + lost + Cardinality(HalfRecorded(days)))
      <3>1. HalfRecorded(days) = {}
        BY DEF Init, HalfRecorded, Recording
      <3>2. SumOf(samples, days) + lost + Cardinality(HalfRecorded(days)) = 0
        BY <1>3, <2>2, <3>1 DEF Init
      <3> QED BY <1>3, <3>2, LongestLatency
    <2>5. \A r \in Recorders : pc[r] = "incrbyfloat" => took[r] <= MaxSeconds
      BY DEF Init
    <2> QED BY <2>3, <2>4, <2>5 DEF CountsInv
  <1>5. RangeInv
    BY DEF Init, RangeInv
  <1>6. TodayInv
    BY DEF Init, TodayInv
  <1>7. WindowInv
    BY DEF Init, WindowInv, Usage
  <1>8. TrendInv
    <2>1. Len(report.points) = 0 /\ read # "trend"
      BY DEF Init
    <2> QED BY <1>1, <1>2, <2>1, ReportNumbers DEF TrendInv, AnalyticsInv
  <1> QED BY <1>1, <1>2, <1>4, <1>5, <1>6, <1>7, <1>8 DEF DashboardInv

\* What is read of the keys stays true of them, while recorders count on and
\* the day may change.
THEOREM DashboardInvariant ==
    ASSUME ConstantsOK
    PROVE  Spec => []DashboardInv
  <1>1. Init => DashboardInv
    BY DashboardInit
  <1>2. DashboardInv /\ AnalyticsInv' /\ [Next]_vars => DashboardInv'
    <2> SUFFICES ASSUME DashboardInv, AnalyticsInv', [Next]_vars
                 PROVE  DashboardInv'
      OBVIOUS
    <2>0. /\ AnalyticsInv /\ AnalyticsTyped /\ AnalyticsTyped' /\ ReportTyped
          /\ CountsInv /\ RangeInv /\ TodayInv /\ WindowInv /\ TrendInv
      BY DEF DashboardInv, AnalyticsInv
    <2> DEFINE ReadInv == ReportTyped /\ RangeInv /\ TodayInv /\ WindowInv /\ TrendInv
    <2>1. ASSUME NEW r \in Recorders,
                 \/ RecordEvent(r)
                 \/ \E s \in {1, MaxSeconds} : RecordLatency(r, s)
                 \/ Incr(r)
                 \/ IncrByFloat(r)
                 \/ IncrSamples(r)
                 \/ Expire(r)
                 \/ RecordFails(r)
          PROVE  CountsInv' /\ ReadInv'
      <3>1. /\ CountsInv' /\ ReportTyped'
            /\ UNCHANGED <<today, read, report>>
            /\ happened <= happened' /\ lost <= lost'
            /\ \A d \in Days : uploads[d] <= uploads'[d] /\ seconds[d] <= seconds'[d]
        BY <2>0, <2>1, RecorderCounts
      <3>2. RangeInv' /\ TodayInv' /\ WindowInv' /\ TrendInv'
        BY <2>0, <3>1, ReadsKept
      <3> QED BY <3>1, <3>2
    <2>2. UNCHANGED <<uploads, seconds, samples, pc, day, took, happened, lost>> => CountsInv'
      BY <2>0, ReaderCounts
    <2> SUFFICES CountsInv' /\ ReadInv'
      BY DEF DashboardInv
    <2> HIDE DEF ReadInv
    <2>3. CASE AskToday
      <3>1. UNCHANGED <<uploads, seconds, samples, pc, day, took, happened, lost>>
        BY <2>3 DEF AskToday, Begin, keyVars
      <3> QED BY <2>2, <2>3, <3>1, TodayAsked DEF ReadInv
    <2>4. CASE AskWindow \/ AskReport
      <3>1. UNCHANGED <<uploads, seconds, samples, pc, day, took, happened, lost>>
        BY <2>4 DEF AskWindow, AskReport, Begin, keyVars
      <3> QED BY <2>2, <2>4, <3>1, WindowAsked DEF ReadInv
    <2>5. CASE AskTrend
      <3>1. UNCHANGED <<uploads, seconds, samples, pc, day, took, happened, lost>>
        BY <2>5 DEF AskTrend, keyVars
      <3> QED BY <2>2, <2>5, <3>1, TrendAsked DEF ReadInv
    <2>6. CASE ReadPeriod
      <3>1. UNCHANGED <<uploads, seconds, samples, pc, day, took, happened, lost>>
        BY <2>6 DEF ReadPeriod, keyVars
      <3> QED BY <2>2, <2>6, <3>1, PeriodRead DEF ReadInv
    <2>7. CASE ReadCount \/ ReadSum \/ ReadSamples
      <3>1. UNCHANGED <<uploads, seconds, samples, pc, day, took, happened, lost>>
        BY <2>7 DEF ReadCount, ReadSum, ReadSamples, ReadOn, keyVars
      <3>2. ReadInv'
        <4>1. CASE read = "windowSamples" /\ ReadSamples
          BY <4>1, SamplesRead DEF ReadInv
        <4>2. CASE ~(read = "windowSamples" /\ ReadSamples)
          <5>1. \/ read = "todayCount" /\ ReadOn("today", "uploads", uploads, "todaySum")
                \/ read = "todaySum" /\ ReadOn("today", "seconds", seconds, "todaySamples")
                \/ read = "todaySamples" /\ ReadOn("today", "samples", samples, "today")
                \/ read = "windowCount" /\ ReadOn("window", "uploads", uploads, "windowSum")
                \/ read = "windowSum" /\ ReadOn("window", "seconds", seconds, "windowSamples")
            BY <2>7, <4>2 DEF ReadCount, ReadSum, ReadSamples
          <5> QED BY <5>1, TodayRead, WindowRead DEF ReadInv
        <4> QED BY <4>1, <4>2
      <3> QED BY <2>2, <3>1, <3>2
    <2>8. CASE Respond
      <3>1. UNCHANGED <<uploads, seconds, samples, pc, day, took, happened, lost>>
        BY <2>8 DEF Respond, keyVars
      <3> QED BY <2>2, <2>8, <3>1, Responded DEF ReadInv
    <2>9. CASE NextDay
      <3>1. /\ UNCHANGED <<uploads, seconds, samples, pc, day, took, happened, lost, read, report>>
            /\ today' = today + 1 /\ (read # "idle" => report.to = today)
        BY <2>9 DEF NextDay, keyVars, readVars
      <3>2. ReportTyped'
        BY <2>0, <3>1 DEF ReportTyped, Days
      <3>3. /\ happened <= happened' /\ lost <= lost'
            /\ \A d \in Days : uploads[d] <= uploads'[d] /\ seconds[d] <= seconds'[d]
        <4>1. happened \in Nat /\ lost \in Nat
          BY <2>0 DEF ReportTyped
        <4>2. \A d \in Days : uploads[d] \in Nat /\ seconds[d] \in Nat
          BY <2>0 DEF AnalyticsTyped
        <4> QED BY <3>1, <4>1, <4>2
      <3>4. ReadInv'
        BY <2>0, <3>1, <3>2, <3>3, ReadsKept DEF ReadInv
      <3> QED BY <2>2, <3>1, <3>4
    <2>10. CASE UNCHANGED vars
      <3>1. /\ UNCHANGED <<uploads, seconds, samples, pc, day, took, happened, lost, read, report>>
            /\ today' = today
        BY <2>10 DEF vars, keyVars, readVars
      <3>2. ReportTyped'
        BY <2>0, <3>1 DEF ReportTyped, Days
      <3>3. /\ happened <= happened' /\ lost <= lost'
            /\ \A d \in Days : uploads[d] <= uploads'[d] /\ seconds[d] <= seconds'[d]
        <4>1. happened \in Nat /\ lost \in Nat
          BY <2>0 DEF ReportTyped
        <4>2. \A d \in Days : uploads[d] \in Nat /\ seconds[d] \in Nat
          BY <2>0 DEF AnalyticsTyped
        <4> QED BY <3>1, <4>1, <4>2
      <3>4. ReadInv'
        BY <2>0, <3>1, <3>2, <3>3, ReadsKept DEF ReadInv
      <3> QED BY <2>2, <3>1, <3>4
    <2> QED BY <2>1, <2>3, <2>4, <2>5, <2>6, <2>7, <2>8, <2>9, <2>10 DEF Next
  <1> QED BY <1>1, <1>2, AnalyticsInvariant, PTL DEF Spec

\* The numbers of a dashboard fit together, and a trend counts each upload of
\* its days once, although each number is read on its own while uploads and
\* latencies are recorded (AnalyticsEngine.dashboard, .trends).
THEOREM DashboardFits ==
    ASSUME ConstantsOK
    PROVE  Spec => []DashboardCoherent
  <1>1. DashboardInv => DashboardCoherent
    <2> SUFFICES ASSUME DashboardInv PROVE DashboardCoherent
      OBVIOUS
    <2>0. AnalyticsTyped /\ ReportTyped /\ CountsInv /\ TodayInv /\ WindowInv /\ TrendInv
      BY DEF DashboardInv, AnalyticsInv
    <2>1. ASSUME Trended
          PROVE  /\ report.before <= SumOf(report.points, 1..Periods)
                 /\ SumOf(report.points, 1..Periods) <= happened
      <3> DEFINE all == SumOf(report.points, 1..Periods)
      <3>1. read = "trend" /\ Len(report.points) = Periods
        BY <2>1 DEF Trended
      <3>2. /\ all <= SumOf(uploads, DaysRead(Periods))
            /\ report.before <= all + SumOf(uploads, DaysAhead(Periods))
        BY <2>0, <3>1 DEF TrendInv
      <3>3. DaysAhead(Periods) = {}
        <4>1. Periods \in Nat /\ PeriodDays \in Nat /\ report.to \in Nat
          BY <2>0, ReportNumbers
        <4>2. report.to - (Periods - Periods) * PeriodDays = report.to
          BY <4>1
        <4>3. \A d \in Days : ~(report.to < d /\ d <= report.to)
          BY <4>1, Calendar DEF Days
        <4> QED BY <4>2, <4>3 DEF DaysAhead
      <3>4. SumOf(uploads, DaysRead(Periods)) \in Nat /\ SumOf(uploads, DaysRead(Periods)) <= happened
        <4>1. DaysRead(Periods) \in SUBSET Days
          BY DEF DaysRead
        <4> QED BY <2>0, <4>1, DaySums, NoMoreThanHappened
      <3>5. all \in Nat
        <4>1. Periods \in Nat /\ \A i \in 1..Periods : report.points[i] \in Nat
          <5>1. Periods \in Nat
            BY <2>0, ReportNumbers
          <5>2. report.points \in Seq(Nat)
            BY <2>0 DEF ReportTyped
          <5> QED BY <3>1, <5>1, <5>2
        <4>2. IsFiniteSet(1..Periods)
          BY <4>1, FS_Interval
        <4> QED BY <4>1, <4>2, SumType
      <3>6. report.before \in Nat /\ happened \in Nat
        BY <2>0, ReportNumbers
      <3> HIDE DEF all
      <3>7. report.before <= all /\ all <= happened
        BY <3>2, <3>3, <3>4, <3>5, <3>6, SumOfNone
      <3> QED BY <3>7 DEF all
    <2> QED BY <2>0, <2>1 DEF DashboardCoherent, TodayInv, WindowInv
  <1> QED BY <1>1, DashboardInvariant, PTL

=============================================================================
