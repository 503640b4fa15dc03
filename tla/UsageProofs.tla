---------------------------- MODULE UsageProofs ----------------------------
(***************************************************************************)
(* What holds of Usage for any calendar, terms, number of messages,        *)
(* contacts and faults.  The starts of the months and the walk from period *)
(* to period are recursive functions: the first half shows that they are   *)
(* what their equations say, the second proves the invariants.             *)
(***************************************************************************)
EXTENDS Usage, WellFoundedInduction, TLAPS

(* Induction, over sets of numbers *)

\* A set of numbers that has any has a least one.
LEMMA Least ==
  ASSUME NEW S, S \subseteq Nat, S # {}
  PROVE  \E n \in S : \A m \in S : n <= m
<1> DEFINE R == {ss \in Nat \X Nat : ss[1] < ss[2]}
<1>1. IsWellFoundedOn(R, Nat)
  BY NatLessThanWellFounded DEF OpToRel
<1>2. \E n \in S : \A m \in S : ~ (<<m, n>> \in R)
  <2> HIDE DEF R
  <2> QED BY <1>1, WFMin
<1>3. PICK n \in S : \A m \in S : ~ (<<m, n>> \in R)
  BY <1>2
<1>4. ASSUME NEW m \in S PROVE n <= m
  <2>1. n \in Nat /\ m \in Nat
    OBVIOUS
  <2>2. <<m, n>> \in Nat \X Nat /\ <<m, n>>[1] = m /\ <<m, n>>[2] = n
    BY <2>1
  <2>3. ~ (m < n)
    BY <1>3, <2>2
  <2> QED BY <2>1, <2>3
<1> QED BY <1>4

\* A set with 0 that has with a number the next one has them all.
LEMMA Onwards ==
  ASSUME NEW S, 0 \in S, \A n \in Nat : n \in S => n + 1 \in S
  PROVE  \A n \in Nat : n \in S
<1> SUFFICES ASSUME Nat \ S # {} PROVE FALSE
  OBVIOUS
<1>1. PICK n \in Nat \ S : \A m \in Nat \ S : n <= m
  BY Least
<1>2. n # 0 /\ n - 1 \in Nat /\ (n - 1) + 1 = n
  OBVIOUS
<1>3. n - 1 \in S
  BY <1>1, <1>2
<1> QED BY <1>2, <1>3

-----------------------------------------------------------------------------
(* The calendar *)

LEMMA LengthPositive == \A n \in Nat : Length(n) \in Nat \ {0}
<1> SUFFICES ASSUME NEW n \in Nat PROVE Length(n) \in Nat \ {0}
  OBVIOUS
<1>1. Len(Lengths) \in Nat \ {0} /\ \A i \in 1..Len(Lengths) : Lengths[i] \in Nat \ {0}
  BY UsageAssumption
<1>2. n % Len(Lengths) \in 0..(Len(Lengths) - 1)
  BY <1>1
<1>3. (n % Len(Lengths)) + 1 \in 1..Len(Lengths)
  BY <1>1, <1>2
<1> QED BY <1>1, <1>3 DEF Length

\* The starts of the months up to the n-th.
Starts(f, n) ==
    /\ f \in [0..n -> Nat] /\ f[0] = 0
    /\ \A k \in 0..n : k # 0 => f[k] = f[k - 1] + Length(k - 1)

LEMMA StartsExist == \A n \in Nat : \E f : Starts(f, n)
<1> DEFINE S == {n \in Nat : \E f : Starts(f, n)}
<1>1. 0 \in S
  <2>1. Starts([k \in 0..0 |-> 0], 0)
    BY DEF Starts
  <2> QED BY <2>1
<1>2. ASSUME NEW n \in Nat, n \in S PROVE n + 1 \in S
  <2>1. PICK f : Starts(f, n)
    BY <1>2
  <2> DEFINE g == [k \in 0..(n + 1) |-> IF k = n + 1 THEN f[n] + Length(n) ELSE f[k]]
  <2>2. Length(n) \in Nat
    BY LengthPositive
  <2>3. g \in [0..(n + 1) -> Nat] /\ g[0] = 0
    BY <2>1, <2>2 DEF Starts
  <2>4. ASSUME NEW k \in 0..(n + 1), k # 0 PROVE g[k] = g[k - 1] + Length(k - 1)
    <3>1. CASE k = n + 1
      BY <3>1
    <3>2. CASE k # n + 1
      BY <2>1, <2>4, <3>2 DEF Starts
    <3> QED BY <3>1, <3>2
  <2>5. Starts(g, n + 1)
    BY <2>3, <2>4 DEF Starts
  <2> QED BY <2>5
<1>3. \A n \in Nat : n \in S
  <2> HIDE DEF S
  <2> QED BY <1>1, <1>2, Onwards
<1> QED BY <1>3

LEMMA StartsAgree ==
  ASSUME NEW m \in Nat, NEW n \in Nat, NEW f, NEW g, Starts(f, m), Starts(g, n)
  PROVE  \A k \in Nat : k <= m /\ k <= n => f[k] = g[k]
<1> DEFINE S == {k \in Nat : k <= m /\ k <= n => f[k] = g[k]}
<1>1. 0 \in S
  BY DEF Starts
<1>2. ASSUME NEW k \in Nat, k \in S PROVE k + 1 \in S
  <2>1. CASE k + 1 <= m /\ k + 1 <= n
    <3>1. f[k] = g[k]
      BY <1>2, <2>1
    <3>2. /\ k + 1 \in 0..m /\ k + 1 \in 0..n /\ k + 1 # 0 /\ (k + 1) - 1 = k
      BY <2>1
    <3>3. f[k + 1] = f[k] + Length(k) /\ g[k + 1] = g[k] + Length(k)
      BY <3>2 DEF Starts
    <3> QED BY <3>1, <3>3
  <2> QED BY <2>1
<1>3. \A k \in Nat : k \in S
  <2> HIDE DEF S
  <2> QED BY <1>1, <1>2, Onwards
<1> QED BY <1>3

\* Each month starts where the one before it ends.
LEMMA MonthStarts ==
  /\ MonthStart[0] = 0
  /\ \A n \in Nat : MonthStart[n] \in Nat /\ MonthStart[n + 1] = MonthStart[n] + Length(n)
<1> DEFINE Next0(f) == [n \in Nat |-> IF n = 0 THEN 0 ELSE f[n - 1] + Length(n - 1)]
           upto(n) == CHOOSE f : Starts(f, n)
           all == [n \in Nat |-> upto(n)[n]]
<1>1. \A n \in Nat : Starts(upto(n), n)
  BY StartsExist
<1>2. \A n \in Nat : all[n] = upto(n)[n]
  OBVIOUS
<1>3. all[0] = 0
  BY <1>1 DEF Starts
<1>4. ASSUME NEW n \in Nat, n # 0 PROVE all[n] = all[n - 1] + Length(n - 1)
  <2>1. n - 1 \in Nat /\ n - 1 <= n
    BY <1>4
  <2>2. upto(n)[n - 1] = upto(n - 1)[n - 1]
    <3> HIDE DEF upto
    <3> QED BY <1>1, <2>1, StartsAgree
  <2>3. upto(n)[n] = upto(n)[n - 1] + Length(n - 1)
    <3>1. n \in 0..n /\ Starts(upto(n), n)
      BY <1>1
    <3> HIDE DEF upto
    <3> QED BY <1>4, <3>1 DEF Starts
  <2> QED BY <1>2, <2>1, <2>2, <2>3
<1>5. all = Next0(all)
  <2> HIDE DEF upto
  <2> QED BY <1>3, <1>4
<1>6. MonthStart = CHOOSE f : f = Next0(f)
  BY DEF MonthStart
<1>7. MonthStart = Next0(MonthStart)
  <2> HIDE DEF Next0, all
  <2> QED BY <1>5, <1>6
<1>8. MonthStart[0] = 0 /\ \A n \in Nat : MonthStart[n + 1] = MonthStart[n] + Length(n)
  <2>1. \A n \in Nat : MonthStart[n] = IF n = 0 THEN 0 ELSE MonthStart[n - 1] + Length(n - 1)
    BY <1>7
  <2> QED BY <2>1
<1> DEFINE S == {n \in Nat : MonthStart[n] \in Nat}
<1>9. \A n \in Nat : n \in S
  <2>1. 0 \in S
    BY <1>8
  <2>2. ASSUME NEW n \in Nat, n \in S PROVE n + 1 \in S
    BY <1>8, <2>2, LengthPositive
  <2> HIDE DEF S
  <2> QED BY <2>1, <2>2, Onwards
<1> QED BY <1>8, <1>9

LEMMA MonthsGrow ==
  /\ \A n \in Nat : n <= MonthStart[n]
  /\ \A m, n \in Nat : m < n => MonthStart[m + 1] <= MonthStart[n]
<1>1. \A n \in Nat : /\ MonthStart[n] \in Nat /\ MonthStart[n + 1] \in Nat
                    /\ MonthStart[n] < MonthStart[n + 1]
  BY MonthStarts, LengthPositive
<1> DEFINE S == {n \in Nat : n <= MonthStart[n]}
<1>2. \A n \in Nat : n \in S
  <2>1. 0 \in S
    BY MonthStarts
  <2>2. ASSUME NEW n \in Nat, n \in S PROVE n + 1 \in S
    BY <1>1, <2>2
  <2> HIDE DEF S
  <2> QED BY <2>1, <2>2, Onwards
<1>3. ASSUME NEW m \in Nat, NEW n \in Nat, m < n PROVE MonthStart[m + 1] <= MonthStart[n]
  <2> DEFINE T == {k \in Nat : m < k => MonthStart[m + 1] <= MonthStart[k]}
  <2>1. 0 \in T
    OBVIOUS
  <2>2. ASSUME NEW k \in Nat, k \in T PROVE k + 1 \in T
    <3>1. CASE m < k
      BY <1>1, <2>2, <3>1
    <3>2. CASE m = k
      BY <1>1, <3>2
    <3>3. CASE m > k
      BY <3>3
    <3> QED BY <3>1, <3>2, <3>3
  <2>3. \A k \in Nat : k \in T
    <3> HIDE DEF T
    <3> QED BY <2>1, <2>2, Onwards
  <2> QED BY <1>3, <2>3
<1> QED BY <1>2, <1>3

\* A date is in one month.
InMonth(date, month) == MonthStart[month] <= date /\ date < MonthStart[month + 1]

LEMMA OneMonth ==
  ASSUME NEW date \in Nat, NEW m \in Nat, NEW n \in Nat, InMonth(date, m), InMonth(date, n)
  PROVE  m = n
<1>1. /\ MonthStart[m] \in Nat /\ MonthStart[m + 1] \in Nat
      /\ MonthStart[n] \in Nat /\ MonthStart[n + 1] \in Nat
  BY MonthStarts
<1>2. ~ (m < n) /\ ~ (n < m)
  BY <1>1, MonthsGrow DEF InMonth
<1> QED BY <1>2

LEMMA MonthOfIt ==
  ASSUME NEW date \in Nat
  PROVE  MonthOf(date) \in Nat /\ InMonth(date, MonthOf(date))
<1> DEFINE S == {n \in Nat : date < MonthStart[n + 1]}
<1>0. \A n \in Nat : MonthStart[n] \in Nat
  BY MonthStarts
<1>1. date \in S
  BY <1>0, MonthsGrow
<1>2. PICK month \in S : \A n \in S : month <= n
  <2>1. S \subseteq Nat /\ S # {}
    BY <1>1
  <2> HIDE DEF S
  <2> QED BY <2>1, Least
<1>3. month \in 0..date
  BY <1>1, <1>2
<1>4. MonthStart[month] <= date
  <2>1. CASE month = 0
    BY <2>1, MonthStarts
  <2>2. CASE month # 0
    <3>1. month - 1 \in Nat /\ (month - 1) + 1 = month /\ ~ (month <= month - 1)
      BY <2>2
    <3>2. month - 1 \notin S
      BY <1>2, <3>1
    <3> QED BY <1>0, <3>1, <3>2
  <2> QED BY <2>1, <2>2
<1>5. \E n \in 0..date : MonthStart[n] <= date /\ date < MonthStart[n + 1]
  BY <1>2, <1>3, <1>4
<1>6. MonthOf(date) \in 0..date /\ InMonth(date, MonthOf(date))
  BY <1>5 DEF MonthOf, InMonth
<1> QED BY <1>6

\* So many months on is a later date, in the month so many on.
LEMMA MonthsOn ==
  ASSUME NEW date \in Nat, NEW months \in Nat \ {0}
  PROVE  /\ AddMonths(date, months) \in Nat /\ date < AddMonths(date, months)
         /\ MonthOf(AddMonths(date, months)) = MonthOf(date) + months
<1> DEFINE old == MonthOf(date)
           new == old + months
           day == date - MonthStart[old]
           later == MonthStart[new] + DayIn(new, day)
<1>1. old \in Nat /\ InMonth(date, old)
  BY MonthOfIt
<1>2. new \in Nat /\ old < new
  BY <1>1
<1>3. later = AddMonths(date, months)
  BY DEF AddMonths
<1> HIDE DEF old, new
<1>4. /\ MonthStart[old] \in Nat /\ MonthStart[old + 1] \in Nat /\ MonthStart[new] \in Nat
      /\ MonthStart[new + 1] = MonthStart[new] + Length(new)
      /\ Length(new) \in Nat \ {0}
  BY <1>1, <1>2, MonthStarts, LengthPositive
<1>5. day \in Nat /\ DayIn(new, day) \in Nat /\ DayIn(new, day) < Length(new)
  BY <1>1, <1>4 DEF InMonth, DayIn, Earlier
<1>6. MonthStart[old + 1] <= MonthStart[new]
  BY <1>1, <1>2, MonthsGrow
<1> HIDE DEF day
<1>7. later \in Nat /\ date < later /\ InMonth(later, new)
  BY <1>1, <1>4, <1>5, <1>6 DEF InMonth
<1> HIDE DEF later
<1>8. MonthOf(later) = new
  BY <1>2, <1>7, MonthOfIt, OneMonth
<1> QED BY <1>3, <1>7, <1>8 DEF old, new

-----------------------------------------------------------------------------
(* The walk from period to period *)

Following(t, start) == Earlier(AddMonths(start, Step(t.cycle)), t.ends)
Walk(t, date, f) ==
    [start \in t.starts..t.ends |->
        IF Within(date, Following(t, start), t.ends)
        THEN Period(start, Following(t, start)) ELSE f[Following(t, start)]]
Dates(t) == t.starts \in Nat /\ t.ends \in Nat

\* A period ends after it starts, with the terms at the latest.
LEMMA Follows ==
  ASSUME NEW t, Dates(t), NEW start \in t.starts..t.ends
  PROVE  LET end == Following(t, start) IN
         /\ end \in t.starts..t.ends
         /\ start < t.ends => start < end
         /\ start = t.ends => end = t.ends
         /\ end < t.ends => MonthOf(end) = MonthOf(start) + Step(t.cycle)
<1> DEFINE next == AddMonths(start, Step(t.cycle))
<1>1. start \in Nat /\ t.starts \in Nat /\ t.ends \in Nat /\ start \in t.starts..t.ends
  BY DEF Dates
<1>2. Step(t.cycle) \in Nat \ {0}
  BY UsageAssumption DEF Step
<1>3. next \in Nat /\ start < next /\ MonthOf(next) = MonthOf(start) + Step(t.cycle)
  BY <1>1, <1>2, MonthsOn
<1>4. Following(t, start) = IF next < t.ends THEN next ELSE t.ends
  BY DEF Following, Earlier
<1> HIDE DEF next
<1> QED BY <1>1, <1>3, <1>4

LEMMA WalkExists ==
  ASSUME NEW t, Dates(t), t.starts <= t.ends, NEW date
  PROVE  \E f : f = Walk(t, date, f)
<1>0. t.starts \in Nat /\ t.ends \in Nat
  BY DEF Dates
<1> DEFINE Ends(f, k) ==
      \A start \in k..t.ends :
        f[start] = IF Within(date, Following(t, start), t.ends)
                   THEN Period(start, Following(t, start)) ELSE f[Following(t, start)]
           S == {n \in Nat : n <= t.ends - t.starts => \E f : Ends(f, t.ends - n)}
<1>1. 0 \in S
  <2> DEFINE f == [start \in {t.ends} |-> Period(t.ends, t.ends)]
  <2>1. t.ends \in t.starts..t.ends /\ Following(t, t.ends) = t.ends
    BY <1>0, Follows
  <2>2. Within(date, t.ends, t.ends)
    BY <1>0 DEF Within
  <2>3. Ends(f, t.ends)
    BY <1>0, <2>1, <2>2
  <2>4. t.ends - 0 = t.ends
    BY <1>0
  <2> QED BY <2>3, <2>4
<1>2. ASSUME NEW n \in Nat, n \in S PROVE n + 1 \in S
  <2> SUFFICES ASSUME n + 1 <= t.ends - t.starts PROVE \E f : Ends(f, t.ends - (n + 1))
    OBVIOUS
  <2> DEFINE k == t.ends - (n + 1)
  <2>1. /\ k \in t.starts..t.ends /\ k < t.ends /\ k + 1 = t.ends - n
        /\ n <= t.ends - t.starts
    BY <1>0
  <2>2. PICK f : Ends(f, k + 1)
    BY <1>2, <2>1
  <2> HIDE DEF k
  <2> DEFINE g == [start \in k..t.ends |->
                    IF start # k THEN f[start]
                    ELSE IF Within(date, Following(t, k), t.ends)
                    THEN Period(k, Following(t, k)) ELSE f[Following(t, k)]]
  <2>3. ASSUME NEW start \in k..t.ends
        PROVE  /\ start \in t.starts..t.ends
               /\ ~Within(date, Following(t, start), t.ends)
                    => Following(t, start) \in (k + 1)..t.ends
    <3>1. start \in t.starts..t.ends
      BY <1>0, <2>1
    <3>2. CASE start < t.ends
      BY <1>0, <2>1, <3>1, <3>2, Follows
    <3>3. CASE start = t.ends
      BY <1>0, <3>1, <3>3, Follows DEF Within
    <3> QED BY <1>0, <3>1, <3>2, <3>3
  <2>4. \A start \in (k + 1)..t.ends : start \in k..t.ends /\ start # k /\ g[start] = f[start]
    BY <1>0, <2>1
  <2>5. ASSUME NEW start \in k..t.ends
        PROVE  g[start] = IF Within(date, Following(t, start), t.ends)
                          THEN Period(start, Following(t, start))
                          ELSE g[Following(t, start)]
    <3>1. ~Within(date, Following(t, start), t.ends)
            => g[Following(t, start)] = f[Following(t, start)]
      <4> HIDE DEF g
      <4> QED BY <2>3, <2>4
    <3>2. CASE start = k
      <4>1. g[start] = IF Within(date, Following(t, k), t.ends)
                       THEN Period(k, Following(t, k)) ELSE f[Following(t, k)]
        BY <3>2
      <4> HIDE DEF g
      <4> QED BY <3>1, <3>2, <4>1
    <3>3. CASE start # k
      <4>1. start \in (k + 1)..t.ends
        BY <1>0, <2>1, <3>3
      <4> HIDE DEF g
      <4> QED BY <2>2, <2>4, <3>1, <4>1
    <3> QED BY <3>2, <3>3
  <2>6. Ends(g, k)
    <3> HIDE DEF g
    <3> QED BY <2>5
  <2> QED BY <2>6 DEF k
<1>3. \A n \in Nat : n \in S
  <2> HIDE DEF S
  <2> QED BY <1>1, <1>2, Onwards
<1>4. PICK f : Ends(f, t.starts)
  <2>1. t.ends - t.starts \in Nat /\ t.ends - (t.ends - t.starts) = t.starts
    BY <1>0
  <2> QED BY <1>3, <2>1
<1> DEFINE g == [start \in t.starts..t.ends |-> f[start]]
<1>5. \A start \in t.starts..t.ends : Following(t, start) \in t.starts..t.ends
  BY Follows
<1>6. g = Walk(t, date, g)
  BY <1>4, <1>5 DEF Walk
<1> QED BY <1>6

\* The period of a date is found by the walk from the start of the terms.
LEMMA PeriodWalked ==
  ASSUME NEW t, Dates(t), t.starts < t.ends, t.cycle # "trial", NEW date
  PROVE  \E f : f = Walk(t, date, f) /\ PeriodOf(t, date) = f[t.starts]
<1> DEFINE walk == CHOOSE f : f = Walk(t, date, f)
<1>1. walk = Walk(t, date, walk)
  <2>1. t.starts <= t.ends
    BY DEF Dates
  <2> QED BY <2>1, WalkExists
<1>2. PeriodOf(t, date) = walk[t.starts]
  BY DEF PeriodOf, Walk, Following, Dates
<1> QED BY <1>1, <1>2

\* From any day of the terms the walk finds a period that starts then or later,
\* has a day and is one Following gives; a date in the terms is in it.
LEMMA WalkFinds ==
  ASSUME NEW t, Dates(t), NEW date \in Nat, NEW f, f = Walk(t, date, f)
  PROVE  \A start \in t.starts..t.ends : start < t.ends =>
           /\ f[start].start \in start..t.ends /\ f[start].start < t.ends
           /\ f[start].end = Following(t, f[start].start)
           /\ start <= date /\ date < t.ends
                => f[start].start <= date /\ date < f[start].end
<1>0. t.starts \in Nat /\ t.ends \in Nat
  BY DEF Dates
<1> DEFINE Good(start) ==
      /\ f[start].start \in start..t.ends /\ f[start].start < t.ends
      /\ f[start].end = Following(t, f[start].start)
      /\ start <= date /\ date < t.ends => f[start].start <= date /\ date < f[start].end
           S == {n \in Nat : \A start \in t.starts..t.ends :
                   start < t.ends /\ t.ends - start <= n => Good(start)}
<1>1. 0 \in S
  BY <1>0
<1>2. ASSUME NEW n \in Nat, n \in S PROVE n + 1 \in S
  <2> SUFFICES ASSUME NEW start \in t.starts..t.ends,
                      start < t.ends, t.ends - start <= n + 1
               PROVE  Good(start)
    OBVIOUS
  <2> DEFINE end == Following(t, start)
  <2>1. end \in t.starts..t.ends /\ start < end
    BY Follows
  <2>2. f[start] = IF Within(date, end, t.ends) THEN Period(start, end) ELSE f[end]
    BY DEF Walk
  <2>3. CASE Within(date, end, t.ends)
    <3>1. f[start].start = start /\ f[start].end = end
      BY <2>2, <2>3 DEF Period
    <3>2. date < t.ends => date < end
      BY <1>0, <2>1, <2>3 DEF Within
    <3> HIDE DEF end
    <3> QED BY <1>0, <2>1, <3>1, <3>2 DEF end
  <2>4. CASE ~Within(date, end, t.ends)
    <3>1. end < t.ends /\ end <= date /\ t.ends - end <= n
      BY <1>0, <2>1, <2>4 DEF Within
    <3>2. Good(end)
      <4> HIDE DEF Good
      <4> QED BY <1>2, <2>1, <3>1
    <3>3. f[start] = f[end]
      BY <2>2, <2>4
    <3> HIDE DEF end
    <3> QED BY <1>0, <2>1, <3>1, <3>2, <3>3
  <2> QED BY <2>3, <2>4
<1>3. \A n \in Nat : n \in S
  <2> HIDE DEF S
  <2> QED BY <1>1, <1>2, Onwards
<1>4. ASSUME NEW start \in t.starts..t.ends, start < t.ends PROVE Good(start)
  <2>1. t.ends - start \in Nat
    BY <1>0, <1>4
  <2> HIDE DEF Good
  <2> QED BY <1>0, <1>3, <1>4, <2>1
<1> QED BY <1>4

\* Of two days the walks find one period, or one that ends before the other starts.
LEMMA WalksApart ==
  ASSUME NEW t, Dates(t), NEW d \in Nat, NEW e \in Nat,
         NEW f, f = Walk(t, d, f), NEW g, g = Walk(t, e, g)
  PROVE  \A start \in t.starts..t.ends : start < t.ends =>
           \/ f[start] = g[start]
           \/ f[start].end <= g[start].start
           \/ g[start].end <= f[start].start
<1>0. t.starts \in Nat /\ t.ends \in Nat
  BY DEF Dates
<1> DEFINE Good(start) ==
      \/ f[start] = g[start]
      \/ f[start].end <= g[start].start
      \/ g[start].end <= f[start].start
           S == {n \in Nat : \A start \in t.starts..t.ends :
                   start < t.ends /\ t.ends - start <= n => Good(start)}
<1>1. 0 \in S
  BY <1>0
<1>2. ASSUME NEW n \in Nat, n \in S PROVE n + 1 \in S
  <2> SUFFICES ASSUME NEW start \in t.starts..t.ends,
                      start < t.ends, t.ends - start <= n + 1
               PROVE  Good(start)
    OBVIOUS
  <2> DEFINE end == Following(t, start)
  <2>1. end \in t.starts..t.ends /\ start < end
    BY Follows
  <2>2. /\ f[start] = IF Within(d, end, t.ends) THEN Period(start, end) ELSE f[end]
        /\ g[start] = IF Within(e, end, t.ends) THEN Period(start, end) ELSE g[end]
    BY DEF Walk
  <2>3. Period(start, end).end = end
    BY DEF Period
  <2> HIDE DEF end
  <2>4. CASE Within(d, end, t.ends) /\ Within(e, end, t.ends)
    BY <2>2, <2>4
  <2>5. CASE ~Within(d, end, t.ends) /\ ~Within(e, end, t.ends)
    <3>1. end < t.ends /\ t.ends - end <= n
      BY <1>0, <2>1, <2>5 DEF Within
    <3>2. Good(end)
      <4> HIDE DEF Good
      <4> QED BY <1>2, <2>1, <3>1
    <3> QED BY <2>2, <2>5, <3>2
  <2>6. CASE Within(d, end, t.ends) /\ ~Within(e, end, t.ends)
    <3>1. end < t.ends
      BY <1>0, <2>1, <2>6 DEF Within
    <3>2. end <= g[end].start
      BY <1>0, <2>1, <3>1, WalkFinds
    <3> QED BY <2>2, <2>3, <2>6, <3>2
  <2>7. CASE ~Within(d, end, t.ends) /\ Within(e, end, t.ends)
    <3>1. end < t.ends
      BY <1>0, <2>1, <2>7 DEF Within
    <3>2. end <= f[end].start
      BY <1>0, <2>1, <3>1, WalkFinds
    <3> QED BY <2>2, <2>3, <2>7, <3>2
  <2> QED BY <2>4, <2>5, <2>6, <2>7
<1>3. \A n \in Nat : n \in S
  <2> HIDE DEF S
  <2> QED BY <1>1, <1>2, Onwards
<1>4. ASSUME NEW start \in t.starts..t.ends, start < t.ends PROVE Good(start)
  <2>1. t.ends - start \in Nat
    BY <1>0, <1>4
  <2> HIDE DEF Good
  <2> QED BY <1>0, <1>3, <1>4, <2>1
<1> QED BY <1>4

LEMMA MonthsApart ==
  ASSUME NEW d \in Nat, NEW e \in Nat
  PROVE  LET p == CalendarMonth(d)  q == CalendarMonth(e) IN
         p.start # q.start => p.end <= q.start \/ q.end <= p.start
<1> DEFINE m == MonthOf(d)
           n == MonthOf(e)
<1>1. m \in Nat /\ n \in Nat
  BY MonthOfIt
<1>2. /\ CalendarMonth(d) = Period(MonthStart[m], MonthStart[m + 1])
      /\ CalendarMonth(e) = Period(MonthStart[n], MonthStart[n + 1])
  BY DEF CalendarMonth
<1> HIDE DEF m, n
<1>3. m = n \/ MonthStart[m + 1] <= MonthStart[n] \/ MonthStart[n + 1] <= MonthStart[m]
  <2>1. m = n \/ m < n \/ n < m
    BY <1>1
  <2> QED BY <1>1, <2>1, MonthsGrow
<1> QED BY <1>2, <1>3 DEF Period

\* Whatever the lengths of the months and the dates of the terms, the billing
\* periods of one set of terms are the same or apart: clipping a day at the end
\* of a short month never makes two of them share a day.
THEOREM PeriodsNeverOverlap == PeriodsPartition
<1> SUFFICES ASSUME NEW t \in Offers \cup {Subscription, Unset}, NEW d \in Days, NEW e \in Days
             PROVE  LET p == PeriodOn(t, d)  q == PeriodOn(t, e) IN
                    p.start # q.start => p.end <= q.start \/ q.end <= p.start
  BY DEF PeriodsPartition
<1>1. d \in Nat /\ e \in Nat
  BY UsageAssumption DEF Days
<1>2. CASE t = Unset
  BY <1>1, <1>2, MonthsApart DEF PeriodOn
<1>3. CASE t # Unset
  <2>1. Dates(t) /\ t.starts \in Nat /\ t.ends \in Nat
    BY <1>3, UsageAssumption DEF Dates
  <2>2. PeriodOn(t, d) = PeriodOf(t, d) /\ PeriodOn(t, e) = PeriodOf(t, e)
    BY <1>3 DEF PeriodOn
  <2>3. CASE t.cycle = "trial" \/ t.starts >= t.ends
    <3>1. PeriodOf(t, d) = Period(t.starts, t.ends) /\ PeriodOf(t, e) = Period(t.starts, t.ends)
      BY <2>3 DEF PeriodOf
    <3> QED BY <2>2, <3>1
  <2>4. CASE t.cycle # "trial" /\ t.starts < t.ends
    <3>1. PICK f : f = Walk(t, d, f) /\ PeriodOf(t, d) = f[t.starts]
      BY <2>1, <2>4, PeriodWalked
    <3>2. PICK g : g = Walk(t, e, g) /\ PeriodOf(t, e) = g[t.starts]
      BY <2>1, <2>4, PeriodWalked
    <3>3. t.starts \in t.starts..t.ends
      BY <2>1, <2>4
    <3>4. \/ f[t.starts] = g[t.starts]
          \/ f[t.starts].end <= g[t.starts].start
          \/ g[t.starts].end <= f[t.starts].start
      BY <1>1, <2>1, <2>4, <3>1, <3>2, <3>3, WalksApart
    <3> QED BY <2>2, <3>1, <3>2, <3>4
  <2> QED BY <2>1, <2>3, <2>4
<1> QED BY <1>2, <1>3

\* While terms last, the period of a date has it, and monthly periods start in
\* successive months.
LEMMA PeriodHasDate ==
  ASSUME NEW t, Dates(t), NEW date \in Nat, t.starts <= date, date < t.ends
  PROVE  LET p == PeriodOf(t, date) IN
         /\ p.start <= date /\ date < p.end
         /\ (t.cycle = "monthly" /\ p.end < t.ends) => MonthOf(p.end) = MonthOf(p.start) + 1
<1>1. t.starts \in Nat /\ t.ends \in Nat /\ t.starts < t.ends /\ t.starts \in t.starts..t.ends
  BY DEF Dates
<1>2. CASE t.cycle = "trial"
  <2>1. PeriodOf(t, date) = Period(t.starts, t.ends)
    BY <1>2 DEF PeriodOf
  <2> QED BY <1>2, <2>1 DEF Period
<1>3. CASE t.cycle # "trial"
  <2>1. PICK f : f = Walk(t, date, f) /\ PeriodOf(t, date) = f[t.starts]
    BY <1>1, <1>3, PeriodWalked
  <2> DEFINE p == f[t.starts]
  <2>2. /\ p.start \in t.starts..t.ends /\ p.end = Following(t, p.start)
        /\ p.start <= date /\ date < p.end
    BY <1>1, <2>1, WalkFinds
  <2>3. t.cycle = "monthly" => Step(t.cycle) = 1
    BY DEF Step
  <2>4. (t.cycle = "monthly" /\ p.end < t.ends) => MonthOf(p.end) = MonthOf(p.start) + 1
    <3> HIDE DEF p
    <3> QED BY <2>2, <2>3, Follows
  <2> QED BY <2>1, <2>2, <2>4
<1> QED BY <1>2, <1>3

-----------------------------------------------------------------------------
(* The inductive invariant *)

Terms == Offers \cup {Subscription, Unset}

Places == {"idle", "persist", "call", "sent", "mac", "insert", "commit", "close", "over"}
JobsOver(rows) == [pc : Places, pending : SUBSET rows, due : SUBSET rows]
Shaped == \E rows : job \in [Messages -> JobsOver(rows)]

\* Some row is due, unless the channel was gone; it is committed, or the job's
\* transaction will commit it.
Dues(m) == m \notin unmetered => job[m].due # {}
Underway(m) == \A s \in job[m].due : \E r \in mac \cup job[m].pending : SameKey(r, s)
Kept(m) == m \notin unmetered => Counted(m)

\* What is known of a message at each place of its job.
At(m) ==
    /\ message[m] = "absent" <=>
         \/ job[m].pc \in {"idle", "persist", "commit"}
         \/ job[m].pc = "insert" /\ Kind[m] = "inbound"
    /\ job[m].pc \in {"insert", "commit", "close"} => Dues(m)
    /\ job[m].pc \in {"commit", "close"} => Underway(m)
    /\ job[m].pc \in {"persist", "commit"} => Kind[m] = "inbound"
    /\ job[m].pc \in {"call", "sent", "mac", "close"} => Kind[m] # "inbound"
    /\ job[m].pc \in {"call", "sent"} => message[m] = "queued"
    /\ job[m].pc \in {"mac", "close"} => message[m] = "sent"
    /\ job[m].pc = "insert" => message[m] \in {"absent", "sent"}
    /\ message[m] = "received" => job[m].pc = "over" /\ Kept(m)
    /\ Kind[m] = "ai" /\ Answered(m) => Kept(m)
    /\ \A r \in job[m].pending : r.by = m /\ job[m].pc \in {"commit", "close"}
    /\ \A r, s \in job[m].due : r = s
    /\ \A r \in job[m].due : /\ r.by = m /\ r.under \in Terms
                             /\ \E d \in Days : r.period = PeriodOn(r.under, d)

CountInv == TypeOK /\ Shaped /\ \A m \in Messages : At(m)

\* Of the committed and the uncommitted rows no two have one key.
KeysDiffer == \A r, s \in mac \cup Pending : SameKey(r, s) => r = s

\* The period of a row is one of the terms it is under.
Dated == \A r \in mac \cup Pending :
            r.under \in Terms /\ \E d \in Days : r.period = PeriodOn(r.under, d)

KeyInv == CountInv /\ KeysDiffer /\ Dated

-----------------------------------------------------------------------------
LEMMA InitCount == Init => CountInv
<1> SUFFICES ASSUME Init PROVE CountInv
  OBVIOUS
<1>1. \A m \in Messages : job[m] = NoJob /\ message[m] = "absent"
  BY DEF Init
<1>2. job \in [Messages -> JobsOver({})]
  BY DEF Init, NoJob, JobsOver, Places
<1>3. \A m \in Messages : At(m)
  <2>1. \A m \in Messages : /\ job[m].pc = "idle" /\ job[m].pending = {}
                            /\ job[m].due = {}
    <3>1. NoJob.pc = "idle" /\ NoJob.pending = {} /\ NoJob.due = {}
      BY DEF NoJob
    <3> QED BY <1>1, <3>1
  <2> QED BY <1>1, <2>1 DEF At, Answered
<1>4. TypeOK
  <2>1. archived \in BOOLEAN
    BY Zenon DEF Init
  <2>2. /\ today \in Days /\ terms \in Offers \cup {Unset} /\ changes \in 0..MaxChanges
        /\ message \in [Messages -> Status] /\ failed \subseteq Outbound
        /\ unmetered \subseteq Messages
    <3>1. today = 0 /\ changes = 0 /\ failed = {} /\ unmetered = {}
      BY Zenon DEF Init
    <3>2. terms \in Offers \cup {Unset} /\ message = [m \in Messages |-> "absent"]
      BY Zenon DEF Init
    <3>3. 0 \in Days /\ 0 \in 0..MaxChanges
      BY UsageAssumption DEF Days
    <3>4. message \in [Messages -> Status]
      BY <3>2 DEF Status
    <3>5. failed \subseteq Outbound /\ unmetered \subseteq Messages
      BY <3>1
    <3> QED BY <3>1, <3>2, <3>3, <3>4, <3>5, Zenon
  <2>3. \A m \in Messages : job[m].pc = "idle" /\ job[m].pending = {}
    <3>1. NoJob.pc = "idle" /\ NoJob.pending = {}
      BY DEF NoJob
    <3> HIDE DEF NoJob
    <3>2. \A m \in Messages : job[m] = NoJob
      BY <1>1
    <3> QED BY <3>1, <3>2
  <2> QED BY <1>1, <2>1, <2>2, <2>3 DEF TypeOK
<1> QED BY <1>2, <1>3, <1>4 DEF CountInv, Shaped

\* What a step that moves one job owes.
LEMMA Moved ==
  ASSUME CountInv, NEW m \in Messages, NEW place \in Places, NEW rows, NEW found,
         NEW status \in Status,
         job' = [job EXCEPT ![m] = [pc |-> place, pending |-> rows, due |-> found]],
         message' = [message EXCEPT ![m] = status],
         mac \subseteq mac',
         failed \subseteq failed', failed' \subseteq Outbound,
         \/ unmetered' = unmetered
         \/ unmetered' = unmetered \cup {m},
         UNCHANGED <<today, terms, archived, changes>>,
         job'[m].pc = place /\ job'[m].pending = rows /\ job'[m].due = found
           /\ message'[m] = status => At(m)'
  PROVE  CountInv'
<1>0. PICK old : job \in [Messages -> JobsOver(old)]
  BY DEF CountInv, Shaped
<1>1. /\ job' \in [Messages -> JobsOver(old \cup rows \cup found)]
      /\ \A n \in Messages \ {m} : job'[n] = job[n]
      /\ job'[m].pc = place /\ job'[m].pending = rows /\ job'[m].due = found
  BY <1>0 DEF JobsOver, Places
<1>2. /\ message' \in [Messages -> Status] /\ message'[m] = status
      /\ \A n \in Messages \ {m} : message'[n] = message[n]
  BY DEF CountInv, TypeOK
<1>3. ASSUME NEW n \in Messages PROVE At(n)'
  <2>1. CASE n = m
    BY <2>1, <1>1, <1>2
  <2>2. CASE n # m
    <3>1. /\ At(n) /\ job'[n] = job[n] /\ message'[n] = message[n]
          /\ n \in unmetered' <=> n \in unmetered
      BY <2>2, <1>1, <1>2 DEF CountInv
    <3>2. /\ Kept(n) => Kept(n)'
          /\ Underway(n) => Underway(n)'
          /\ Dues(n) => Dues(n)'
          /\ Answered(n)' => Answered(n)
      BY <3>1 DEF Kept, Counted, Underway, Dues, Answered, SameKey
    <3> HIDE DEF Kept, Counted, Underway, Dues, Answered
    <3>3. (\A r \in job[n].due : /\ r.by = n /\ r.under \in Terms
                                 /\ \E d \in Days : r.period = PeriodOn(r.under, d))'
      BY <3>1 DEF At, Terms, PeriodOn
    <3> QED BY <3>1, <3>2, <3>3 DEF At
  <2> QED BY <2>1, <2>2
<1>4. \A n \in Messages : job'[n].pc \in Places
  BY <1>1 DEF JobsOver
<1>5. TypeOK'
  <2>1. \A n \in Messages : At(n)'
    BY <1>3
  <2>2. unmetered' \subseteq Messages
    BY DEF CountInv, TypeOK
  <2> QED BY <1>2, <2>1, <2>2, <1>4 DEF CountInv, TypeOK, At, Places
<1> QED BY <1>1, <1>3, <1>5 DEF CountInv, Shaped

LEMMA Ended ==
  ASSUME CountInv, NEW m \in Messages, Over(m)
  PROVE  job' = [job EXCEPT ![m] = [pc |-> "over", pending |-> {}, due |-> job[m].due]]
<1>1. PICK old : job \in [Messages -> JobsOver(old)]
  BY DEF CountInv, Shaped
<1>2. /\ job' \in [Messages -> JobsOver(old)]
      /\ \A n \in Messages \ {m} : job'[n] = job[n]
      /\ job'[m].pc = "over" /\ job'[m].pending = {} /\ job'[m].due = job[m].due
  BY <1>1 DEF Over, JobsOver, Places
<1>3. job'[m] = [pc |-> "over", pending |-> {}, due |-> job[m].due]
  BY <1>2 DEF JobsOver
<1> QED BY <1>1, <1>2, <1>3

\* What a job has at a place that has no uncommitted row, when it moves on.
LEMMA MovedOn ==
  ASSUME CountInv, NEW m \in Messages, job[m].pc \notin {"commit", "close"},
         NEW p \in Places, job' = [job EXCEPT ![m].pc = p]
  PROVE  /\ job[m].pending = {}
         /\ job' = [job EXCEPT ![m] = [pc |-> p, pending |-> {}, due |-> job[m].due]]
<1>1. PICK old : job \in [Messages -> JobsOver(old)]
  BY DEF CountInv, Shaped
<1>2. job[m].pending = {}
  BY DEF CountInv, At
<1>3. job[m] \in JobsOver(old)
  BY <1>1
<1>4. [job[m] EXCEPT !.pc = p] = [pc |-> p, pending |-> {}, due |-> job[m].due]
  BY <1>2, <1>3 DEF JobsOver
<1> QED BY <1>1, <1>2, <1>4

\* A row read now is one of the terms it is under.
LEMMA RowIsDated ==
  ASSUME TypeOK, NEW m \in Messages
  PROVE  /\ Row(m).by = m /\ Row(m).under \in Terms
         /\ \E d \in Days : Row(m).period = PeriodOn(Row(m).under, d)
<1>1. today \in Days /\ terms \in Offers \cup {Unset}
  BY DEF TypeOK
<1>2. /\ Row(m).under = Applicable(terms, today) /\ Row(m).period = PeriodUnder(terms, today)
      /\ Row(m).by = m
  BY DEF Row
<1>3. Applicable(terms, today) \in Terms
  BY <1>1 DEF Applicable, Terms
<1>4. PeriodUnder(terms, today) = PeriodOn(Applicable(terms, today), today)
  BY DEF PeriodUnder, PeriodOn
<1> QED BY <1>1, <1>2, <1>3, <1>4

LEMMA InboundCount ==
  ASSUME CountInv, NEW m \in Messages, Receive(m) \/ Commit(m)
  PROVE  CountInv'
<1>a. At(m) /\ message \in [Messages -> Status] /\ failed \subseteq Outbound
  BY DEF CountInv, TypeOK
<1>b. UNCHANGED <<today, terms, archived, changes, failed, unmetered>>
  BY DEF Receive, Commit, world
<1>1. CASE Receive(m)
  <2>1. /\ job' = [job EXCEPT ![m] = [pc |-> "persist", pending |-> {}, due |-> job[m].due]]
        /\ message' = [message EXCEPT ![m] = message[m]]
        /\ Kind[m] = "inbound" /\ message[m] = "absent" /\ mac' = mac
    BY <1>1, <1>a, MovedOn DEF Receive, At, Places
  <2>2. ASSUME job'[m].pc = "persist", job'[m].pending = {}, job'[m].due = job[m].due,
               message'[m] = message[m]
        PROVE  At(m)'
    BY <1>a, <2>1, <2>2 DEF At, Answered, Terms, PeriodOn
  <2> QED BY <1>a, <1>b, <2>1, <2>2, Moved DEF Places
<1>2. CASE Commit(m)
  <2>1. /\ job' = [job EXCEPT ![m] = [pc |-> "over", pending |-> {}, due |-> job[m].due]]
        /\ message' = [message EXCEPT ![m] = "received"]
        /\ mac' = mac \cup job[m].pending /\ Kind[m] = "inbound"
        /\ Underway(m) /\ Dues(m)
    BY <1>2, <1>a, Ended DEF Commit, At
  <2>2. ASSUME job'[m].pc = "over", job'[m].pending = {}, job'[m].due = job[m].due,
               message'[m] = "received"
        PROVE  At(m)'
    <3>1. Kept(m)'
      BY <2>1, <2>2, <1>b DEF Kept, Counted, Underway, Dues, SameKey
    <3> QED BY <1>a, <2>1, <2>2, <3>1 DEF At, Answered, Terms, PeriodOn
  <2> QED BY <1>a, <1>b, <2>1, <2>2, Moved DEF Places, Status
<1> QED BY <1>1, <1>2

LEMMA OutboundCount ==
  ASSUME CountInv, NEW m \in Messages,
         Queue(m) \/ MetaAccepts(m) \/ MetaErrs(m) \/ AnswerLost(m) \/ RecordSent(m)
  PROVE  CountInv'
<1>a. /\ At(m) /\ message \in [Messages -> Status] /\ (m \in Outbound => Kind[m] # "inbound")
      /\ failed \subseteq Outbound
  BY DEF CountInv, TypeOK, Outbound
<1>b. UNCHANGED <<today, terms, archived, changes, mac, failed, unmetered>>
  BY DEF Queue, MetaAccepts, MetaErrs, AnswerLost, RecordSent, world
<1>c. job[m].pc \notin {"commit", "close"} /\ job[m].pending = {}
  BY <1>a DEF At, Queue, MetaAccepts, MetaErrs, AnswerLost, RecordSent
<1>d. ASSUME NEW p \in Places, job' = [job EXCEPT ![m].pc = p]
      PROVE  job' = [job EXCEPT ![m] = [pc |-> p, pending |-> {}, due |-> job[m].due]]
  BY <1>c, <1>d, MovedOn
<1>e. ASSUME NEW p \in {"call", "sent", "mac", "over"}, Kind[m] # "inbound",
             job'[m].pc = p, job'[m].pending = {}, job'[m].due = job[m].due,
             p \in {"call", "sent"} => message'[m] = "queued",
             p = "mac" => message'[m] = "sent",
             p = "over" => message'[m] \in {"queued", "failed", "sent"},
             p = "over" /\ message'[m] = "sent" => Kind[m] # "ai"
      PROVE  At(m)'
  BY <1>a, <1>e DEF At, Answered, Terms, PeriodOn
<1>f. Kind[m] # "inbound"
  BY <1>a DEF At, Queue, MetaAccepts, MetaErrs, AnswerLost, RecordSent
<1>1. CASE Queue(m)
  <2>1. /\ job' = [job EXCEPT ![m] = [pc |-> "call", pending |-> {}, due |-> job[m].due]]
        /\ message' = [message EXCEPT ![m] = "queued"]
    BY <1>1, <1>d DEF Queue, Places
  <2> QED BY <1>a, <1>b, <1>e, <1>f, <2>1, Moved DEF Places, Status
<1>2. CASE MetaAccepts(m)
  <2>1. /\ job' = [job EXCEPT ![m] = [pc |-> "sent", pending |-> {}, due |-> job[m].due]]
        /\ message' = [message EXCEPT ![m] = "queued"]
    BY <1>2, <1>a, <1>d DEF MetaAccepts, Places, At
  <2> QED BY <1>a, <1>b, <1>e, <1>f, <2>1, Moved DEF Places, Status
<1>3. CASE MetaErrs(m)
  <2>1. /\ job' = [job EXCEPT ![m] = [pc |-> "over", pending |-> {}, due |-> job[m].due]]
        /\ message' = [message EXCEPT ![m] = "failed"]
    BY <1>3, Ended DEF MetaErrs
  <2> QED BY <1>a, <1>b, <1>e, <1>f, <2>1, Moved DEF Places, Status
<1>4. CASE AnswerLost(m)
  <2>1. /\ job' = [job EXCEPT ![m] = [pc |-> "over", pending |-> {}, due |-> job[m].due]]
        /\ message' = [message EXCEPT ![m] = "queued"]
    BY <1>4, <1>a, Ended DEF AnswerLost, At
  <2> QED BY <1>a, <1>b, <1>e, <1>f, <2>1, Moved DEF Places, Status
<1>5. CASE RecordSent(m)
  <2>1. message' = [message EXCEPT ![m] = "sent"]
    BY <1>5 DEF RecordSent
  <2>2. CASE Counts(m)
    <3>1. job' = [job EXCEPT ![m] = [pc |-> "mac", pending |-> {}, due |-> job[m].due]]
      BY <1>5, <1>d, <2>2 DEF RecordSent, Places
    <3> QED BY <1>a, <1>b, <1>e, <1>f, <2>1, <3>1, Moved DEF Places, Status
  <2>3. CASE ~Counts(m)
    <3>1. /\ job' = [job EXCEPT ![m] = [pc |-> "over", pending |-> {}, due |-> job[m].due]]
          /\ Kind[m] # "ai"
      BY <1>5, Ended, <2>3 DEF RecordSent, Counts
    <3> QED BY <1>a, <1>b, <1>e, <1>f, <2>1, <3>1, Moved DEF Places, Status
  <2> QED BY <2>2, <2>3
<1> QED BY <1>1, <1>2, <1>3, <1>4, <1>5

LEMMA ReadPeriodCount ==
  ASSUME CountInv, NEW m \in Messages, ReadPeriod(m)
  PROVE  CountInv'
<1> DEFINE found == IF archived THEN {} ELSE {Row(m)}
<1>a. /\ At(m) /\ message \in [Messages -> Status] /\ failed \subseteq Outbound
      /\ message' = [message EXCEPT ![m] = message[m]] /\ message[m] \in Status
  BY DEF CountInv, TypeOK, ReadPeriod
<1>1. /\ job' = [job EXCEPT ![m] = [pc |-> "insert", pending |-> {}, due |-> found]]
      /\ unmetered' = IF archived THEN unmetered \cup {m} ELSE unmetered
      /\ UNCHANGED <<today, terms, archived, changes, message, mac, failed>>
      /\ job[m].pc \in {"persist", "mac"}
  BY DEF ReadPeriod, world
<1>2. /\ \A r \in found : /\ r.by = m /\ r.under \in Terms
                          /\ \E d \in Days : r.period = PeriodOn(r.under, d)
      /\ m \notin unmetered' => found # {}
      /\ \A r, s \in found : r = s
  BY <1>1, RowIsDated DEF CountInv
<1> HIDE DEF found
<1>3. ASSUME job'[m].pc = "insert", job'[m].pending = {}, job'[m].due = found,
             message'[m] = message[m]
      PROVE  At(m)'
  <2>1. /\ message[m] \in {"absent", "sent"}
        /\ message[m] = "absent" <=> Kind[m] = "inbound"
    BY <1>1, <1>a DEF At
  <2>2. Dues(m)'
    BY <1>2, <1>3 DEF Dues
  <2> QED BY <1>2, <1>3, <2>1, <2>2 DEF At, Answered, Terms, PeriodOn
<1> QED BY <1>a, <1>1, <1>3, Moved DEF Places

LEMMA InsertCount ==
  ASSUME CountInv, NEW m \in Messages, Insert(m)
  PROVE  CountInv'
<1>a. /\ At(m) /\ message \in [Messages -> Status] /\ failed \subseteq Outbound
      /\ message' = [message EXCEPT ![m] = message[m]] /\ message[m] \in Status
  BY DEF CountInv, TypeOK, Insert
<1> DEFINE next == IF Kind[m] = "inbound" THEN "commit" ELSE "close"
<1>1. /\ job' = [job EXCEPT ![m] = [pc |-> next, pending |-> Inserted(m), due |-> job[m].due]]
      /\ UNCHANGED <<today, terms, archived, changes, message, mac, failed, unmetered>>
      /\ job[m].pc = "insert"
  BY DEF Insert, world
<1>2. next \in {"commit", "close"} /\ (next = "commit" <=> Kind[m] = "inbound")
  OBVIOUS
<1> HIDE DEF next
<1>3. /\ Inserted(m) \subseteq job[m].due
      /\ \A s \in job[m].due : \E r \in mac \cup Inserted(m) : SameKey(r, s)
  BY DEF Inserted, SameKey
<1>4. ASSUME job'[m].pc = next, job'[m].pending = Inserted(m), job'[m].due = job[m].due,
             message'[m] = message[m]
      PROVE  At(m)'
  <2>1. message[m] = "absent" <=> Kind[m] = "inbound"
    BY <1>1, <1>a DEF At
  <2>2. message[m] = "sent" \/ Kind[m] = "inbound"
    BY <1>1, <1>a, <2>1 DEF At
  <2>3. Dues(m)' /\ Underway(m)'
    BY <1>1, <1>3, <1>4, <1>a DEF At, Dues, Underway, SameKey
  <2>4. \A r \in Inserted(m) : r.by = m
    BY <1>3, <1>a DEF At
  <2> QED BY <1>a, <1>1, <1>2, <1>4, <2>1, <2>2, <2>3, <2>4
          DEF At, Answered, Terms, PeriodOn
<1> QED BY <1>a, <1>1, <1>2, <1>4, Moved DEF Places

LEMMA CloseCount ==
  ASSUME CountInv, NEW m \in Messages, Close(m)
  PROVE  CountInv'
<1>a. /\ At(m) /\ message \in [Messages -> Status] /\ failed \subseteq Outbound
      /\ message' = [message EXCEPT ![m] = "sent"]
  BY DEF CountInv, TypeOK, Close, At
<1>1. /\ job' = [job EXCEPT ![m] = [pc |-> "over", pending |-> {}, due |-> job[m].due]]
      /\ mac' = (IF Kind[m] = "ai" THEN mac \cup job[m].pending ELSE mac)
      /\ UNCHANGED <<today, terms, archived, changes, failed, unmetered>>
      /\ Underway(m) /\ Dues(m) /\ Kind[m] # "inbound"
  BY <1>a, Ended DEF Close, At, world
<1>2. ASSUME job'[m].pc = "over", job'[m].pending = {}, job'[m].due = job[m].due,
             message'[m] = "sent"
      PROVE  At(m)'
  <2>1. Kind[m] = "ai" => Kept(m)'
    BY <1>1, <1>2 DEF Kept, Counted, Underway, Dues, SameKey
  <2> QED BY <1>a, <1>1, <1>2, <2>1 DEF At, Answered, Terms, PeriodOn
<1> QED BY <1>a, <1>1, <1>2, Moved DEF Places, Status

LEMMA FailCount ==
  ASSUME CountInv, NEW m \in Messages, Fail(m)
  PROVE  CountInv'
<1>a. At(m) /\ message \in [Messages -> Status] /\ failed \subseteq Outbound
  BY DEF CountInv, TypeOK
<1>1. /\ job' = [job EXCEPT ![m] = AfterFailure(m)] /\ job[m].pc \notin {"idle", "over"}
      /\ message' = [message EXCEPT ![m] = message[m]] /\ message[m] \in Status
      /\ failed' = failed \cup ({m} \cap Outbound)
      /\ UNCHANGED <<today, terms, archived, changes, mac, unmetered>>
  BY <1>a DEF Fail, world
<1>2. message[m] # "received"
  BY <1>1, <1>a DEF At
<1>3. job[m].pc \in Places
  BY DEF CountInv, TypeOK, Places
<1>4. CASE Kind[m] = "inbound"
  <2>1. AfterFailure(m) = [pc |-> "idle", pending |-> {}, due |-> {}] /\ message[m] = "absent"
    BY <1>1, <1>3, <1>4, <1>a DEF AfterFailure, NoJob, At, Places
  <2> QED BY <1>a, <1>1, <1>4, <2>1, Moved DEF Places, At, Answered
<1>5. CASE Kind[m] # "inbound"
  <2>1. AfterFailure(m) = [pc |-> "over", pending |-> {}, due |-> {}] /\ message[m] # "absent"
    BY <1>1, <1>3, <1>5, <1>a DEF AfterFailure, NoJob, At, Places
  <2>2. m \in failed'
    BY <1>1, <1>5 DEF Outbound
  <2> QED BY <1>a, <1>1, <1>2, <1>5, <2>1, <2>2, Moved DEF Places, At, Answered
<1> QED BY <1>4, <1>5

LEMMA WorldCount ==
  ASSUME CountInv,
         \/ NextDay \/ ArchiveChannel \/ UNCHANGED vars
         \/ \E t \in Offers \cup {Unset} : UpdateChannelBilling(t)
  PROVE  CountInv'
<1>1. /\ today' \in Days /\ terms' \in Offers \cup {Unset} /\ changes' \in 0..MaxChanges
  BY UsageAssumption
  DEF NextDay, ArchiveChannel, UpdateChannelBilling, CountInv, TypeOK, Days, vars
<1>b. archived' \in BOOLEAN
  <2>1. archived' = archived \/ archived' = TRUE
    BY DEF NextDay, ArchiveChannel, UpdateChannelBilling, vars
  <2>2. archived \in BOOLEAN
    BY DEF CountInv, TypeOK
  <2> QED BY <2>1, <2>2, Zenon
<1>2. UNCHANGED <<message, job, mac, failed, unmetered>>
  BY DEF NextDay, ArchiveChannel, UpdateChannelBilling, vars
<1>3. \A m \in Messages : At(m)'
  BY <1>2 DEF CountInv, At, Kept, Counted, Dues, Underway, Answered, Terms, PeriodOn
<1> QED BY <1>1, <1>b, <1>2, <1>3 DEF CountInv, TypeOK, Shaped

LEMMA NextCount == CountInv /\ [Next]_vars => CountInv'
  BY InboundCount, OutboundCount, ReadPeriodCount, InsertCount, CloseCount, FailCount,
     WorldCount DEF Next

LEMMA CountInvHolds == Spec => []CountInv
  BY InitCount, NextCount, PTL DEF Spec

\* A job's place and its message's row agree at every point, and only a
\* transaction that has inserted a row holds one.
THEOREM TypeCorrect == Spec => []TypeOK
<1>1. CountInv => TypeOK
  BY DEF CountInv
<1> QED BY <1>1, CountInvHolds, PTL

\* A stored inbound message has counted its contact, for any number of messages
\* that race for the row and any failures, unless the channel was archived under
\* it; so has a reply of the AI whose job did not fail.
THEOREM EveryActivityCounts == Spec => []ActivityCounted
<1>1. CountInv => ActivityCounted
  BY DEF CountInv, ActivityCounted, At, Kept
<1> QED BY <1>1, CountInvHolds, PTL
-----------------------------------------------------------------------------
(* The key of the table *)

\* A step that makes no row keeps the keys apart.
LEMMA NoRowMade ==
  ASSUME KeysDiffer, Dated, (mac \cup Pending)' \subseteq mac \cup Pending
  PROVE  KeysDiffer' /\ Dated'
  BY DEF KeysDiffer, Dated, SameKey, PeriodOn, Terms

\* An insert waits for an uncommitted row with its key and yields to a committed one.
LEMMA RowMade ==
  ASSUME KeyInv, NEW m \in Messages, Insert(m)
  PROVE  KeysDiffer' /\ Dated'
<1>0. PICK old : job \in [Messages -> JobsOver(old)]
  BY DEF KeyInv, CountInv, Shaped
<1>1. /\ job'[m].pending = Inserted(m) /\ mac' = mac
      /\ \A n \in Messages \ {m} : job'[n] = job[n]
  BY <1>0 DEF Insert
<1>2. (mac \cup Pending)' \subseteq mac \cup Pending \cup Inserted(m)
  BY <1>1 DEF Pending
<1>3. Inserted(m) \subseteq job[m].due /\ \A r, s \in job[m].due : r = s
  BY DEF Inserted, KeyInv, CountInv, At
<1>4. \A r \in mac \cup Pending, s \in Inserted(m) : ~SameKey(r, s) /\ ~SameKey(s, r)
  BY <1>3 DEF Insert, MayInsert, Inserted, SameKey
<1>5. KeysDiffer'
  <2> SUFFICES ASSUME NEW r \in (mac \cup Pending)', NEW s \in (mac \cup Pending)',
                      SameKey(r, s)
               PROVE  r = s
    BY DEF KeysDiffer, SameKey
  <2>1. r \in mac \cup Pending \cup Inserted(m) /\ s \in mac \cup Pending \cup Inserted(m)
    BY <1>2
  <2> QED BY <2>1, <1>3, <1>4 DEF KeyInv, KeysDiffer
<1>6. Dated'
  <2> SUFFICES ASSUME NEW r \in (mac \cup Pending)'
               PROVE  r.under \in Terms /\ \E d \in Days : r.period = PeriodOn(r.under, d)
    BY DEF Dated, PeriodOn, Terms
  <2>1. CASE r \in mac \cup Pending
    BY <2>1 DEF KeyInv, Dated
  <2>2. CASE r \in Inserted(m)
    BY <2>2, <1>3 DEF KeyInv, CountInv, At
  <2> QED BY <2>1, <2>2, <1>2
<1> QED BY <1>5, <1>6

\* Of a job that ends the row is committed or dropped.
LEMMA RowSettled ==
  ASSUME KeyInv, NEW m \in Messages, NEW j,
         job' = [job EXCEPT ![m] = j], j.pending \subseteq job[m].pending,
         mac' \subseteq mac \cup job[m].pending
  PROVE  KeysDiffer' /\ Dated'
<1>0. PICK old : job \in [Messages -> JobsOver(old)]
  BY DEF KeyInv, CountInv, Shaped
<1>1. job'[m] = j /\ \A n \in Messages \ {m} : job'[n] = job[n]
  BY <1>0
<1>2. (mac \cup Pending)' \subseteq mac \cup Pending
  BY <1>1 DEF Pending
<1> QED BY <1>2, NoRowMade DEF KeyInv

LEMMA NextKey == KeyInv /\ [Next]_vars => KeyInv'
<1> SUFFICES ASSUME KeyInv, [Next]_vars PROVE KeyInv'
  OBVIOUS
<1>0. CountInv'
  BY NextCount DEF KeyInv
<1>1. ASSUME NEW m \in Messages, Insert(m) PROVE KeysDiffer' /\ Dated'
  BY <1>1, RowMade
<1>2. ASSUME NEW m \in Messages,
             Commit(m) \/ MetaErrs(m) \/ AnswerLost(m) \/ Close(m) \/ (RecordSent(m) /\ ~Counts(m))
      PROVE  KeysDiffer' /\ Dated'
  <2>1. /\ Over(m) /\ mac' \subseteq mac \cup job[m].pending
    BY <1>2 DEF Commit, MetaErrs, AnswerLost, Close, RecordSent
  <2>2. job' = [job EXCEPT ![m] = [pc |-> "over", pending |-> {}, due |-> job[m].due]]
    BY <2>1, Ended DEF KeyInv
  <2> QED BY <2>1, <2>2, RowSettled
<1>3. ASSUME NEW m \in Messages, NEW p \in Places, job' = [job EXCEPT ![m].pc = p], mac' = mac
      PROVE  KeysDiffer' /\ Dated'
  <2>0. PICK old : job \in [Messages -> JobsOver(old)]
    BY DEF KeyInv, CountInv, Shaped
  <2>1. \A n \in Messages : job'[n].pending = job[n].pending
    BY <1>3, <2>0 DEF JobsOver
  <2>2. Pending' = Pending
    BY <2>1 DEF Pending
  <2> QED BY <1>3, <2>2, NoRowMade DEF KeyInv
<1>4. ASSUME NEW m \in Messages,
             Receive(m) \/ Queue(m) \/ MetaAccepts(m) \/ (RecordSent(m) /\ Counts(m))
      PROVE  KeysDiffer' /\ Dated'
  BY <1>3, <1>4 DEF Receive, Queue, MetaAccepts, RecordSent, Places
<1>5. ASSUME NEW m \in Messages, Fail(m) \/ ReadPeriod(m) PROVE KeysDiffer' /\ Dated'
  <2>1. PICK j : job' = [job EXCEPT ![m] = j] /\ j.pending = {} /\ mac' = mac
    BY <1>5 DEF Fail, ReadPeriod, AfterFailure, NoJob
  <2> QED BY <2>1, RowSettled
<1>6. ASSUME \/ NextDay \/ ArchiveChannel \/ UNCHANGED vars
             \/ \E t \in Offers \cup {Unset} : UpdateChannelBilling(t)
      PROVE  KeysDiffer' /\ Dated'
  <2>1. UNCHANGED <<job, mac>>
    BY <1>6 DEF NextDay, ArchiveChannel, UpdateChannelBilling, vars
  <2>2. Pending' = Pending
    BY <2>1 DEF Pending
  <2> QED BY <2>1, <2>2, NoRowMade DEF KeyInv
<1> QED BY <1>0, <1>1, <1>2, <1>4, <1>5, <1>6 DEF Next, KeyInv

LEMMA InitKey == Init => KeyInv
<1> SUFFICES ASSUME Init PROVE KeyInv
  OBVIOUS
<1>1. \A m \in Messages : job[m] = NoJob
  BY DEF Init
<1>2. NoJob.pending = {}
  BY DEF NoJob
<1>3. mac \cup Pending = {}
  BY <1>1, <1>2 DEF Init, Pending
<1> QED BY <1>3, InitCount DEF KeyInv, KeysDiffer, Dated

\* No contact is charged twice for a day under one set of terms: the periods of
\* the terms do not overlap and the unique key does the rest, for any calendar and
\* any number of racing inserts, rollbacks and changes of terms.
THEOREM NeverChargedTwice == Spec => []ChargedOncePerDay
<1>1. KeyInv => ChargedOncePerDay
  <2> SUFFICES ASSUME KeyInv, NEW r \in mac, NEW s \in mac,
                      r.contact = s.contact, r.under = s.under, r # s
               PROVE  r.period.end <= s.period.start \/ s.period.end <= r.period.start
    BY DEF ChargedOncePerDay
  <2>1. r.period.start # s.period.start
    BY DEF KeyInv, KeysDiffer, SameKey
  <2>2. PICK d \in Days, e \in Days : /\ r.period = PeriodOn(r.under, d)
                                     /\ s.period = PeriodOn(r.under, e)
    BY DEF KeyInv, Dated
  <2>3. r.under \in Terms
    BY DEF KeyInv, Dated
  <2> QED BY <2>1, <2>2, <2>3, PeriodsNeverOverlap DEF PeriodsPartition, Terms
<1>2. Spec => []KeyInv
  BY InitKey, NextKey, PTL DEF Spec
<1> QED BY <1>1, <1>2, PTL

\* While a subscription lasts the period of today has today in it and monthly
\* periods begin in successive calendar months, whatever the months' lengths.
THEOREM TodayInItsPeriod == Spec => []PeriodFitsToday
<1>1. TypeOK => PeriodFitsToday
  <2> SUFFICES ASSUME TypeOK PROVE PeriodFitsToday
    OBVIOUS
  <2> DEFINE t == Applicable(terms, today)
  <2>1. today \in Nat /\ (t = Unset \/ t \in Offers \cup {Subscription})
    BY UsageAssumption DEF TypeOK, Days, Applicable
  <2>2. t # Unset => Dates(t) /\ PeriodUnder(terms, today) = PeriodOf(t, today)
    BY <2>1, UsageAssumption DEF Dates, PeriodUnder, PeriodOn
  <2> HIDE DEF t
  <2>3. ASSUME t # Unset, t.starts <= today, today < t.ends
        PROVE  LET p == PeriodUnder(terms, today) IN
               /\ p.start <= today /\ today < p.end
               /\ (t.cycle = "monthly" /\ p.end < t.ends)
                    => MonthOf(p.end) = MonthOf(p.start) + 1
    BY <2>1, <2>2, <2>3, PeriodHasDate
  <2> QED BY <2>3 DEF PeriodFitsToday, t
<1> QED BY <1>1, TypeCorrect, PTL
=============================================================================
