-------------------------- MODULE PlanFiguresProofs -------------------------
(***************************************************************************)
(* Theorems about PlanFigures, for any terms of a plan, any dates, and any *)
(* payments and excusals.                                                  *)
(*                                                                         *)
(* The figures are derived apart: by whole weeks, by walking the calendar, *)
(* by dividing sums.  What ties them is the count of a plan's days between *)
(* two dates (Count): it grows by at most one a day, and by as many a week *)
(* as the plan has days.  The invariant is that what is billed is a run of *)
(* the plan's days from its start, none of them in the future.             *)
(***************************************************************************)
EXTENDS PlanFigures, ProofLemmas, TLAPS

(* Division and products.                                                  *)
LEMMA DivMod ==
  ASSUME NEW a \in Int, NEW b \in Nat \ {0}
  PROVE  /\ a \div b \in Int /\ a % b \in 0..(b - 1)
         /\ a = b * (a \div b) + (a % b)
OBVIOUS

LEMMA Times ==
  ASSUME NEW x \in Int, NEW y \in Int, NEW c \in Nat \ {0}
  PROVE  /\ c * x \in Int
         /\ c * (x + y) = c * x + c * y /\ c * (x - y) = c * x - c * y
         /\ c * (x + 1) = c * x + c
         /\ c * 0 = 0
OBVIOUS

LEMMA TimesMono ==
  ASSUME NEW x \in Int, NEW y \in Int, NEW c \in Nat \ {0}
  PROVE  /\ x <= y <=> c * x <= c * y
         /\ x < y <=> c * x < c * y
         /\ x = y <=> c * x = c * y
OBVIOUS

LEMMA WholeDiv ==
  ASSUME NEW x \in Int, NEW c \in Nat \ {0}
  PROVE  (c * x + c - 1) \div c = x
<1> DEFINE a == c * x + c - 1
           q == a \div c
<1>1. a \in Int /\ c * x \in Int
  OBVIOUS
<1>2. a = c * x + c - 1
  OBVIOUS
<1> HIDE DEF a
<1>3. q \in Int /\ a % c \in 0..(c - 1) /\ a = c * q + (a % c)
  BY <1>1, DivMod
<1> HIDE DEF q
<1>4. c * q <= a /\ a < c * q + c /\ c * q \in Int
  BY <1>3
<1>5. c * q < c * (x + 1) /\ c * x < c * (q + 1)
  BY <1>1, <1>2, <1>3, <1>4, Times
<1>6. q < x + 1 /\ x < q + 1
  BY <1>3, <1>5, TimesMono
<1>7. q = x
  BY <1>3, <1>6
<1> QED BY <1>7 DEF q, a

LEMMA DayOfWeek ==
  ASSUME NEW c \in Int, NEW w \in 0..6
  PROVE  \E d \in c..(c + 6) : d % 7 = w
<1> DEFINE d == c + ((w - c) % 7)
<1>1. (w - c) % 7 \in 0..6 /\ d \in c..(c + 6)
  OBVIOUS
<1>2. d % 7 = w
  OBVIOUS
<1> QED BY <1>1, <1>2

LEMMA WeekApart ==
  ASSUME NEW c \in Int, NEW d \in c..(c + 6), NEW e \in c..(c + 6), d % 7 = e % 7
  PROVE  d = e
OBVIOUS

-----------------------------------------------------------------------------
(***************************************************************************)
(* The calendar: the days of a plan's week between two dates.              *)
(***************************************************************************)
Week == 0..6
DaysOn(W, a, b) == {d \in a..b : (d % 7) \in W}
Count(W, a, b) == Cardinality(DaysOn(W, a, b))

LEMMA Counted ==
  ASSUME NEW W, NEW a \in Int, NEW b \in Int
  PROVE  IsFiniteSet(DaysOn(W, a, b)) /\ Count(W, a, b) \in Nat
<1>1. IsFiniteSet(a..b)
  BY FS_Interval
<1>2. DaysOn(W, a, b) \subseteq a..b
  BY DEF DaysOn
<1>3. IsFiniteSet(DaysOn(W, a, b))
  BY <1>1, <1>2, FS_Subset
<1> QED BY <1>3, FS_CardinalityType DEF Count

LEMMA CountedNone ==
  ASSUME NEW W, NEW a \in Int, NEW b \in Int, b < a
  PROVE  Count(W, a, b) = 0
<1>1. DaysOn(W, a, b) = {}
  BY DEF DaysOn
<1> QED BY <1>1, FS_EmptySet DEF Count

LEMMA CountSplits ==
  ASSUME NEW W, NEW a \in Int, NEW m \in Int, NEW b \in Int, a <= m + 1, m <= b
  PROVE  Count(W, a, b) = Count(W, a, m) + Count(W, m + 1, b)
<1> DEFINE S == DaysOn(W, a, m)
           T == DaysOn(W, m + 1, b)
<1>1. DaysOn(W, a, b) = S \cup T /\ S \cap T = {}
  BY DEF DaysOn
<1>2. IsFiniteSet(S) /\ IsFiniteSet(T)
  BY Counted
<1>3. Cardinality(S) \in Nat /\ Cardinality(T) \in Nat
  BY <1>2, FS_CardinalityType
<1> HIDE DEF S, T
<1>4. Cardinality(S \cap T) = 0
  BY <1>1, FS_EmptySet
<1>5. Cardinality(S \cup T) = Cardinality(S) + Cardinality(T) - Cardinality(S \cap T)
  BY <1>2, FS_Union
<1>6. Cardinality(S \cup T) = Cardinality(S) + Cardinality(T)
  BY <1>3, <1>4, <1>5
<1> QED BY <1>1, <1>6 DEF Count, S, T

LEMMA CountOne ==
  ASSUME NEW W, NEW a \in Int
  PROVE  /\ (a % 7) \in W => Count(W, a, a) = 1
         /\ (a % 7) \notin W => Count(W, a, a) = 0
<1>1. a..a = {a}
  OBVIOUS
<1>2. ASSUME (a % 7) \in W PROVE Count(W, a, a) = 1
  <2>1. DaysOn(W, a, a) = {a}
    BY <1>1, <1>2 DEF DaysOn
  <2> QED BY <2>1, FS_Singleton DEF Count
<1>3. ASSUME (a % 7) \notin W PROVE Count(W, a, a) = 0
  <2>1. DaysOn(W, a, a) = {}
    BY <1>1, <1>3 DEF DaysOn
  <2> QED BY <2>1, FS_EmptySet DEF Count
<1> QED BY <1>2, <1>3

LEMMA CountGrows ==
  ASSUME NEW W, NEW a \in Int, NEW b \in Int, NEW c \in Int, b <= c
  PROVE  /\ Count(W, a, b) <= Count(W, a, c)
         /\ b < c /\ a <= c /\ (c % 7) \in W => Count(W, a, b) < Count(W, a, c)
<1>1. /\ Count(W, a, b) \in Nat /\ Count(W, a, c) \in Nat
      /\ Count(W, b + 1, c) \in Nat
  BY Counted
<1>2. CASE b < a
  <2>1. Count(W, a, b) = 0
    BY <1>2, CountedNone
  <2>2. ASSUME a <= c, (c % 7) \in W PROVE Count(W, a, c) > 0
    <3>1. Count(W, a, c) = Count(W, a, c - 1) + Count(W, c, c)
      <4>1. c - 1 \in Int /\ a <= (c - 1) + 1 /\ c - 1 <= c /\ (c - 1) + 1 = c
        BY <2>2
      <4> QED BY <4>1, CountSplits
    <3>2. Count(W, c, c) = 1 /\ Count(W, a, c - 1) \in Nat
      BY <2>2, CountOne, Counted
    <3> QED BY <3>1, <3>2
  <2> QED BY <1>1, <2>1, <2>2
<1>3. CASE a <= b
  <2>1. Count(W, a, c) = Count(W, a, b) + Count(W, b + 1, c)
    BY <1>3, CountSplits
  <2>2. ASSUME b < c, (c % 7) \in W PROVE Count(W, b + 1, c) > 0
    <3>1. Count(W, b + 1, c) = Count(W, b + 1, c - 1) + Count(W, c, c)
      <4>1. /\ c - 1 \in Int /\ b + 1 <= (c - 1) + 1 /\ c - 1 <= c
            /\ (c - 1) + 1 = c
        BY <2>2
      <4> QED BY <4>1, CountSplits
    <3>2. Count(W, c, c) = 1 /\ Count(W, b + 1, c - 1) \in Nat
      BY <2>2, CountOne, Counted
    <3> QED BY <3>1, <3>2
  <2> QED BY <1>1, <2>1, <2>2
<1> QED BY <1>2, <1>3

LEMMA CountSteps ==
  ASSUME NEW W, NEW a \in Int, NEW b \in Int
  PROVE  Count(W, a, b) <= Count(W, a, b - 1) + 1
<1>1. /\ Count(W, a, b) \in Nat /\ Count(W, a, b - 1) \in Nat
      /\ Count(W, b, b) \in Nat
  BY Counted
<1>2. CASE b < a
  BY <1>1, <1>2, CountedNone
<1>3. CASE a <= b
  <2>1. b - 1 \in Int /\ a <= (b - 1) + 1 /\ b - 1 <= b /\ (b - 1) + 1 = b
    BY <1>3
  <2>2. Count(W, a, b) = Count(W, a, b - 1) + Count(W, b, b)
    BY <2>1, CountSplits
  <2>3. Count(W, b, b) <= 1
    BY CountOne
  <2> QED BY <1>1, <2>2, <2>3
<1> QED BY <1>2, <1>3

(* Any seven days in a row hold each day of the week once, ...             *)
LEMMA WeekCount ==
  ASSUME NEW W \in SUBSET Week, NEW c \in Int
  PROVE  Count(W, c, c + 6) = Cardinality(W)
<1> DEFINE D == DaysOn(W, c, c + 6)
           f == [d \in D |-> d % 7]
<1>1. f \in [D -> W]
  BY DEF DaysOn
<1>2. \A d, e \in D : f[d] = f[e] => d = e
  BY WeekApart DEF DaysOn
<1>3. \A w \in W : \E d \in D : f[d] = w
  BY DayOfWeek DEF DaysOn, Week
<1>4. f \in Bijection(D, W)
  <2> HIDE DEF f, D
  <2> QED BY <1>1, <1>2, <1>3
         DEF Bijection, Injection, Surjection, IsInjective
<1>5. IsFiniteSet(D)
  BY Counted
<1> HIDE DEF f, D
<1>6. Cardinality(D) = Cardinality(W)
  BY <1>4, <1>5, FS_Bijection DEF ExistsBijection
<1> QED BY <1>6 DEF Count, D

(* ... so that whole weeks can be counted by arithmetic.                   *)
LEMMA WeeksCount ==
  ASSUME NEW W \in SUBSET Week, W # {}, NEW c \in Int, NEW q \in Nat
  PROVE  /\ Cardinality(W) \in Nat \ {0}
         /\ Count(W, c, c + 7 * q - 1) = Cardinality(W) * q
<1> DEFINE k == Cardinality(W)
           N(n) == Count(W, c, c + 7 * n - 1)
<1>1. k \in Nat \ {0}
  <2>1. IsFiniteSet(Week)
    <3>1. 0 \in Int /\ 6 \in Int
      OBVIOUS
    <3> QED BY <3>1, FS_Interval DEF Week
  <2>2. IsFiniteSet(W)
    BY <2>1, FS_Subset
  <2> QED BY <2>2, FS_CardinalityType, FS_EmptySet
<1>2. N(0) = k * 0
  <2>1. c + 7 * 0 - 1 \in Int /\ c + 7 * 0 - 1 < c
    OBVIOUS
  <2>2. N(0) = 0
    BY <2>1, CountedNone
  <2> QED BY <1>1, <2>2
<1>3. ASSUME NEW n \in Nat, N(n) = k * n PROVE N(n + 1) = k * (n + 1)
  <2> DEFINE m == c + 7 * n - 1
  <2>1. /\ m \in Int /\ c <= m + 1 /\ m <= m + 7 /\ m + 7 \in Int
        /\ c + 7 * (n + 1) - 1 = m + 7 /\ m + 7 = (m + 1) + 6
    OBVIOUS
  <2> HIDE DEF m, k
  <2>2. Count(W, c, m + 7) = Count(W, c, m) + Count(W, m + 1, m + 7)
    BY <2>1, CountSplits
  <2>3. Count(W, m + 1, (m + 1) + 6) = k
    BY <2>1, WeekCount DEF k
  <2>4. Count(W, c, m) = k * n
    BY <1>3 DEF m
  <2>5. Count(W, c, m + 7) = k * (n + 1)
    BY <1>1, <2>1, <2>2, <2>3, <2>4, Times
  <2> QED BY <2>1, <2>5
<1> DEFINE Bad == {n \in Nat : N(n) # k * n}
<1>4. Bad = {}
  <2> SUFFICES ASSUME Bad # {} PROVE FALSE
    OBVIOUS
  <2> HIDE DEF N, k
  <2>1. PICK n \in Bad : \A m \in Bad : n <= m
    BY Least
  <2>2. n \in Nat /\ n # 0
    BY <1>2, <2>1
  <2>3. n - 1 \in Nat /\ (n - 1) + 1 = n /\ ~(n <= n - 1)
    BY <2>2
  <2>4. N(n - 1) = k * (n - 1)
    BY <2>1, <2>3
  <2> QED BY <1>3, <2>1, <2>3, <2>4
<1> QED BY <1>1, <1>4

(* The first day by which n of a plan's days have come is one of them.     *)
LEMMA FirstBy ==
  ASSUME NEW W, NEW a \in Int, NEW b \in Int, NEW n \in Nat \ {0},
         Count(W, a, b) >= n
  PROVE  \E e \in a..b :
           /\ (e % 7) \in W /\ Count(W, a, e) = n
           /\ \A d \in Int : d < e => Count(W, a, d) < n
<1> DEFINE S == {d \in a..b : Count(W, a, d) >= n}
<1>1. a <= b
  BY CountedNone
<1>2. S # {} /\ S \subseteq Int
  BY <1>1
<1>3. PICK e \in S : \A d \in S : e <= d
  <2>1. IsFiniteSet(a..b)
    BY FS_Interval
  <2>2. IsFiniteSet(S)
    BY <2>1, FS_Subset
  <2> HIDE DEF S
  <2> QED BY <1>2, <2>2, Extremes DEF HasExtremes
<1>4. e \in Int /\ a <= e /\ e <= b /\ Count(W, a, e) >= n
  BY <1>3
<1>5. ASSUME NEW d \in Int, d < e PROVE Count(W, a, d) < n
  <2>1. Count(W, a, d) \in Nat
    BY Counted
  <2>2. CASE d < a
    BY <2>2, CountedNone
  <2>3. CASE a <= d
    <3>1. d \in a..b /\ d \notin S
      BY <1>3, <1>4, <1>5, <2>3
    <3> QED BY <2>1, <3>1
  <2> QED BY <2>2, <2>3
<1>6. Count(W, a, e) = n
  <2>1. Count(W, a, e - 1) < n
    BY <1>4, <1>5
  <2>2. Count(W, a, e) <= Count(W, a, e - 1) + 1
    BY <1>4, CountSteps
  <2>3. Count(W, a, e) \in Nat /\ Count(W, a, e - 1) \in Nat
    BY <1>4, Counted
  <2> QED BY <1>4, <2>1, <2>2, <2>3
<1>7. (e % 7) \in W
  <2> SUFFICES ASSUME (e % 7) \notin W PROVE FALSE
    OBVIOUS
  <2>1. e - 1 \in Int /\ a <= (e - 1) + 1 /\ e - 1 <= e /\ (e - 1) + 1 = e
        /\ e - 1 < e
    BY <1>4
  <2>2. Count(W, a, e) = Count(W, a, e - 1) + Count(W, e, e)
    BY <1>4, <2>1, CountSplits
  <2>3. Count(W, e, e) = 0
    BY <1>4, CountOne
  <2>4. Count(W, a, e - 1) < n /\ Count(W, a, e - 1) \in Nat
    BY <1>5, <2>1, Counted
  <2> QED BY <1>6, <2>2, <2>3, <2>4
<1> QED BY <1>4, <1>5, <1>6, <1>7

-----------------------------------------------------------------------------
(***************************************************************************)
(* The instalments of a plan are the first of its days, one after another, *)
(* none of them in the future.                                             *)
(***************************************************************************)
TermsKnown == plan \in Terms /\ local \in Int /\ early \in BOOLEAN
InstalmentsTyped ==
  /\ IsFiniteSet(Billed)
  /\ instalments \in [Billed -> [target : {plan.daily}, paid : Nat]]
BilledInOrder ==
  /\ \A d \in Billed : /\ d \in Int /\ plan.start <= d /\ d <= UTCDate
                       /\ ActiveDay(d)
  /\ \A d \in Billed : \A e \in plan.start..d : ActiveDay(e) => e \in Billed
NoneBeyondTheTerm == Cardinality(Billed) <= plan.count
FiguresInv ==
  TermsKnown /\ InstalmentsTyped /\ BilledInOrder /\ NoneBeyondTheTerm

LEMMA Known ==
  ASSUME TermsKnown
  PROVE  /\ plan.daily \in Nat \ {0} /\ plan.count \in Nat \ {0}
         /\ plan.start \in Int /\ plan.weekdays \in SUBSET Week
         /\ plan.weekdays # {} /\ UTCDate \in Int
BY TermsAssumption DEF TermsKnown, UTCDate, Week

LEMMA DaysCounted ==
  \A a, b : ActiveDaysIn(a, b) = Count(plan.weekdays, a, b)
BY DEF ActiveDaysIn, ActiveDay, Count, DaysOn

(* Where the next run begins to bill.                                      *)
From == IF Billed = {} THEN plan.start ELSE Max(Billed) + 1

LEMMA BilledSoFar ==
  ASSUME FiguresInv
  PROVE  /\ From \in Int /\ plan.start <= From
         /\ Billed # {} => From <= UTCDate + 1
         /\ Billed = DaysOn(plan.weekdays, plan.start, From - 1)
         /\ Cardinality(Billed) = Count(plan.weekdays, plan.start, From - 1)
<1>1. plan.start \in Int /\ UTCDate \in Int
  BY Known DEF FiguresInv
<1>2. CASE Billed = {}
  <2>1. DaysOn(plan.weekdays, plan.start, plan.start - 1) = {}
    BY <1>1 DEF DaysOn
  <2> QED BY <1>1, <1>2, <2>1 DEF From, Count
<1>3. CASE Billed # {}
  <2> DEFINE m == Max(Billed)
  <2>1. m \in Billed /\ \A d \in Billed : d <= m
    <3>1. Billed \subseteq Int /\ IsFiniteSet(Billed)
      BY DEF FiguresInv, BilledInOrder, InstalmentsTyped
    <3> QED BY <1>3, <3>1, MaxMember
  <2>2. m \in Int /\ plan.start <= m /\ m <= UTCDate
    BY <2>1 DEF FiguresInv, BilledInOrder
  <2>3. From = m + 1
    BY <1>3 DEF From
  <2> HIDE DEF m
  <2>4. From \in Int /\ From - 1 = m /\ plan.start <= From /\ From <= UTCDate + 1
    BY <1>1, <2>2, <2>3
  <2>5. Billed = DaysOn(plan.weekdays, plan.start, m)
    <3>1. ASSUME NEW d \in Billed PROVE d \in DaysOn(plan.weekdays, plan.start, m)
      BY <1>1, <2>1, <2>2, <3>1 DEF FiguresInv, BilledInOrder, DaysOn, ActiveDay
    <3>2. ASSUME NEW d \in DaysOn(plan.weekdays, plan.start, m) PROVE d \in Billed
      BY <2>1, <3>2 DEF FiguresInv, BilledInOrder, DaysOn, ActiveDay
    <3> QED BY <3>1, <3>2
  <2> QED BY <2>4, <2>5 DEF Count
<1> QED BY <1>2, <1>3

-----------------------------------------------------------------------------
(***************************************************************************)
(* The sums the figures are made of.                                       *)
(***************************************************************************)
Targets == [d \in Billed |-> instalments[d].target]
Paids == [d \in Billed |-> instalments[d].paid]

LEMMA AmountBilledIsSum ==
  ASSUME IsFiniteSet(Billed)
  PROVE  AmountBilled = SumOf(Targets, Billed)
<1> DEFINE f == Targets
<1>1. PICK g : Sums(g, f, SUBSET Billed)
  BY SumsExist
<1>2. \A s \in SUBSET Billed : s # {} => f[PickOf(s)] = instalments[PickOf(s)].target
  <2>1. \A s \in SUBSET Billed : s # {} => PickOf(s) \in Billed
    BY Picked
  <2> QED BY <2>1 DEF Targets
<1> HIDE DEF f
<1>3. ASSUME NEW h,
             h = [s \in SUBSET Billed |-> IF s = {} THEN 0
                    ELSE instalments[PickOf(s)].target + h[s \ {PickOf(s)}]]
      PROVE  h = g
  <2>1. \A s \in SUBSET Billed :
          h[s] = IF s = {} THEN 0 ELSE f[PickOf(s)] + h[s \ {PickOf(s)}]
    BY <1>2, <1>3
  <2>2. h = [s \in SUBSET Billed |-> h[s]]
    BY <1>3
  <2>3. Sums(h, f, SUBSET Billed)
    BY <2>1, <2>2 DEF Sums
  <2> QED BY <1>1, <2>3, SumsUnique
<1>4. g = [s \in SUBSET Billed |-> IF s = {} THEN 0
             ELSE instalments[PickOf(s)].target + g[s \ {PickOf(s)}]]
  <2>1. \A s \in SUBSET Billed :
          g[s] = IF s = {} THEN 0 ELSE instalments[PickOf(s)].target + g[s \ {PickOf(s)}]
    BY <1>1, <1>2 DEF Sums
  <2>2. g = [s \in SUBSET Billed |-> g[s]]
    BY <1>1 DEF Sums
  <2> QED BY <2>1, <2>2
<1>5. AmountBilled = g[Billed]
  BY <1>3, <1>4 DEF AmountBilled, MapThenSumSet, MapThenFoldSet, PickOf
<1>6. SumOf(f, Billed) = g[Billed]
  BY <1>1, SumsIsSum
<1> QED BY <1>5, <1>6 DEF f

LEMMA AmountPaidIsSum ==
  ASSUME IsFiniteSet(Billed)
  PROVE  AmountPaid = SumOf(Paids, Billed)
<1> DEFINE f == Paids
<1>1. PICK g : Sums(g, f, SUBSET Billed)
  BY SumsExist
<1>2. \A s \in SUBSET Billed : s # {} => f[PickOf(s)] = instalments[PickOf(s)].paid
  <2>1. \A s \in SUBSET Billed : s # {} => PickOf(s) \in Billed
    BY Picked
  <2> QED BY <2>1 DEF Paids
<1> HIDE DEF f
<1>3. ASSUME NEW h,
             h = [s \in SUBSET Billed |-> IF s = {} THEN 0
                    ELSE instalments[PickOf(s)].paid + h[s \ {PickOf(s)}]]
      PROVE  h = g
  <2>1. \A s \in SUBSET Billed :
          h[s] = IF s = {} THEN 0 ELSE f[PickOf(s)] + h[s \ {PickOf(s)}]
    BY <1>2, <1>3
  <2>2. h = [s \in SUBSET Billed |-> h[s]]
    BY <1>3
  <2>3. Sums(h, f, SUBSET Billed)
    BY <2>1, <2>2 DEF Sums
  <2> QED BY <1>1, <2>3, SumsUnique
<1>4. g = [s \in SUBSET Billed |-> IF s = {} THEN 0
             ELSE instalments[PickOf(s)].paid + g[s \ {PickOf(s)}]]
  <2>1. \A s \in SUBSET Billed :
          g[s] = IF s = {} THEN 0 ELSE instalments[PickOf(s)].paid + g[s \ {PickOf(s)}]
    BY <1>1, <1>2 DEF Sums
  <2>2. g = [s \in SUBSET Billed |-> g[s]]
    BY <1>1 DEF Sums
  <2> QED BY <2>1, <2>2
<1>5. AmountPaid = g[Billed]
  BY <1>3, <1>4 DEF AmountPaid, MapThenSumSet, MapThenFoldSet, PickOf
<1>6. SumOf(f, Billed) = g[Billed]
  BY <1>1, SumsIsSum
<1> QED BY <1>5, <1>6 DEF f

(* A sum of equal terms, and a sum of bounded ones of which some are 0.    *)
LEMMA SumOfSame ==
  ASSUME NEW S, IsFiniteSet(S), NEW f, NEW c \in Nat \ {0},
         \A x \in S : f[x] = c
  PROVE  SumOf(f, S) = c * Cardinality(S)
<1>0. \A T \in SUBSET S :
        /\ SumOf(f, T) \in Int
        /\ \A x \in T : SumOf(f, T) = f[x] + SumOf(f, T \ {x})
  <2>1. \A x \in S : f[x] \in Int
    OBVIOUS
  <2> QED BY <2>1, SumTakesOut
<1> DEFINE Q == {T \in SUBSET S : SumOf(f, T) = c * Cardinality(T)}
<1>1. ASSUME NEW T \in SUBSET S,
             \A U \in SUBSET S : Cardinality(U) < Cardinality(T) => U \in Q
      PROVE  T \in Q
  <2>1. CASE T = {}
    BY <2>1, SumOfNone, FS_EmptySet
  <2>2. CASE T # {}
    <3>1. PICK x \in T : TRUE
      BY <2>2
    <3>2. T \ {x} \in Q /\ Cardinality(T \ {x}) \in Nat
          /\ Cardinality(T) = Cardinality(T \ {x}) + 1
      BY <1>1, Smaller
    <3>3. SumOf(f, T) = c + SumOf(f, T \ {x}) /\ f[x] = c
      BY <1>0
    <3> DEFINE n == Cardinality(T \ {x})
               s == SumOf(f, T \ {x})
    <3>4. s = c * n /\ n \in Nat /\ Cardinality(T) = n + 1 /\ SumOf(f, T) = c + s
      BY <3>2, <3>3
    <3> HIDE DEF n, s
    <3>5. SumOf(f, T) = c * Cardinality(T)
      BY <3>4, Times
    <3> QED BY <3>5
  <2> QED BY <2>1, <2>2
<1>2. SUBSET S \subseteq Q
  <2> HIDE DEF Q
  <2> QED BY <1>1, BySize
<1>3. S \in SUBSET S
  OBVIOUS
<1> QED BY <1>2, <1>3

LEMMA SumAtMost ==
  ASSUME NEW S, IsFiniteSet(S), NEW f, NEW c \in Nat \ {0}, NEW Z,
         \A x \in S : f[x] \in 0..c, \A x \in S \cap Z : f[x] = 0
  PROVE  SumOf(f, S) <= c * Cardinality(S \ Z)
<1>0. \A T \in SUBSET S :
        /\ SumOf(f, T) \in Int
        /\ \A x \in T : SumOf(f, T) = f[x] + SumOf(f, T \ {x})
  <2>1. \A x \in S : f[x] \in Int
    OBVIOUS
  <2> QED BY <2>1, SumTakesOut
<1> DEFINE Q == {T \in SUBSET S : SumOf(f, T) <= c * Cardinality(T \ Z)}
<1>1. ASSUME NEW T \in SUBSET S,
             \A U \in SUBSET S : Cardinality(U) < Cardinality(T) => U \in Q
      PROVE  T \in Q
  <2>1. CASE T = {}
    <3>1. T \ Z = {}
      BY <2>1
    <3> QED BY <2>1, <3>1, SumOfNone, FS_EmptySet
  <2>2. CASE T # {}
    <3>1. PICK x \in T : TRUE
      BY <2>2
    <3> DEFINE U == T \ {x}
               s == SumOf(f, U)
               n == Cardinality(U \ Z)
    <3>2. U \in Q /\ IsFiniteSet(T)
      BY <1>1, Smaller
    <3>3. /\ SumOf(f, T) = f[x] + s /\ f[x] \in 0..c /\ s \in Int
          /\ x \in Z => f[x] = 0
      BY <1>0
    <3>4. s <= c * n
      BY <3>2
    <3>5. /\ IsFiniteSet(T \ Z) /\ IsFiniteSet(U \ Z) /\ n \in Nat
      BY <3>2, FS_Subset, FS_CardinalityType
    <3>6. CASE x \in Z
      <4>1. T \ Z = U \ Z
        BY <3>6
      <4>2. SumOf(f, T) = s
        BY <3>3, <3>6
      <4>3. SumOf(f, T) <= c * Cardinality(T \ Z)
        BY <3>4, <4>1, <4>2
      <4> QED BY <4>3
    <3>7. CASE x \notin Z
      <4> DEFINE V == T \ Z
      <4>1. x \in V /\ n = Cardinality(V \ {x})
        <5>1. V \ {x} = U \ Z
          OBVIOUS
        <5> QED BY <3>7, <5>1
      <4> HIDE DEF V, U, Q, s, n
      <4>2. Cardinality(V \ {x}) = Cardinality(V) - 1 /\ Cardinality(V) \in Nat
        BY <3>5, <4>1, FS_RemoveElement, FS_CardinalityType DEF V
      <4>3. Cardinality(V) = n + 1
        BY <3>5, <4>1, <4>2
      <4>4. f[x] <= c /\ f[x] \in Int
        BY <3>3
      <4>5. SumOf(f, T) <= c * n + c
        BY <3>3, <3>4, <3>5, <4>4
      <4>6. SumOf(f, T) <= c * Cardinality(V)
        BY <3>5, <4>3, <4>5, Times
      <4> QED BY <4>6 DEF V, Q
    <3> QED BY <3>6, <3>7
  <2> QED BY <2>1, <2>2
<1>2. SUBSET S \subseteq Q
  <2> HIDE DEF Q
  <2> QED BY <1>1, BySize
<1>3. S \in SUBSET S
  OBVIOUS
<1> QED BY <1>2, <1>3

LEMMA MidnightKeeps ==
  ASSUME FiguresInv, Midnight
  PROVE  FiguresInv'
<1>1. TermsKnown' /\ UTCDate <= UTCDate' /\ UTCDate \in Int /\ UTCDate' \in Int
  BY DEF FiguresInv, TermsKnown, Midnight, UTCDate
<1>2. UNCHANGED <<plan, instalments>> /\ Billed' = Billed
  BY DEF Midnight, Billed
<1>3. InstalmentsTyped' /\ NoneBeyondTheTerm'
  BY <1>2 DEF FiguresInv, InstalmentsTyped, NoneBeyondTheTerm
<1>4. BilledInOrder'
  BY <1>1, <1>2 DEF FiguresInv, BilledInOrder, ActiveDay
<1> QED BY <1>1, <1>3, <1>4 DEF FiguresInv

LEMMA PayKeeps ==
  ASSUME FiguresInv, Pay
  PROVE  FiguresInv'
<1>1. PICK d \in Billed, a \in Amounts :
        instalments' = [instalments EXCEPT ![d].paid = @ + a]
  BY DEF Pay
<1>2. UNCHANGED <<plan, excused, local, early>> /\ a \in Nat
  BY TermsAssumption DEF Pay
<1> DEFINE Row == [target : {plan.daily}, paid : Nat]
<1>3. \A r \in Row : [r EXCEPT !.paid = @ + a] \in Row
  BY <1>2
<1>4. instalments \in [Billed -> Row] /\ IsFiniteSet(Billed)
  BY DEF FiguresInv, InstalmentsTyped
<1>5. instalments' \in [Billed -> Row] /\ Billed' = Billed
  <2> HIDE DEF Row
  <2> QED BY <1>1, <1>3, <1>4 DEF Billed
<1>6. InstalmentsTyped'
  BY <1>2, <1>4, <1>5 DEF InstalmentsTyped
<1>7. TermsKnown' /\ UTCDate' = UTCDate
  BY <1>2 DEF FiguresInv, TermsKnown, UTCDate
<1>8. BilledInOrder' /\ NoneBeyondTheTerm'
  BY <1>2, <1>5, <1>7 DEF FiguresInv, BilledInOrder, NoneBeyondTheTerm,
     ActiveDay
<1> QED BY <1>6, <1>7, <1>8 DEF FiguresInv

-----------------------------------------------------------------------------
(* What is billed, and what a run bills next, counted from the start.      *)
LEMMA BilledAmount ==
  ASSUME FiguresInv
  PROVE  AmountBilled = plan.daily * Cardinality(Billed)
<1> DEFINE f == Targets
<1>1. IsFiniteSet(Billed) /\ \A d \in Billed : f[d] = plan.daily
  BY DEF FiguresInv, InstalmentsTyped, Targets
<1>2. AmountBilled = SumOf(f, Billed)
  BY <1>1, AmountBilledIsSum
<1> HIDE DEF f
<1>4. plan.daily \in Nat \ {0}
  BY Known DEF FiguresInv
<1> QED BY <1>1, <1>2, <1>4, SumOfSame

LEMMA UnbilledDays ==
  ASSUME FiguresInv
  PROVE  \A d : d \in Unbilled <=>
           /\ d \in From..UTCDate /\ ActiveDay(d)
           /\ Count(plan.weekdays, plan.start, d) <= plan.count
<1> DEFINE W == plan.weekdays
           s == plan.start
           n == Cardinality(Billed)
<1>1. /\ From \in Int /\ s <= From
      /\ Billed # {} => From <= UTCDate + 1
      /\ Billed = DaysOn(W, s, From - 1) /\ n = Count(W, s, From - 1)
  BY BilledSoFar
<1>2. /\ plan.daily \in Nat \ {0} /\ plan.count \in Nat \ {0} /\ s \in Int
      /\ UTCDate \in Int
  BY Known DEF FiguresInv
<1>3. AmountBilled = plan.daily * n /\ n \in Nat
  BY BilledAmount, FS_CardinalityType DEF FiguresInv, InstalmentsTyped
<1>4. Unbilled = {d \in s..UTCDate : /\ ActiveDay(d) /\ d \notin Billed
                     /\ AmountBilled + plan.daily * Count(W, From, d) <= TotalOwed}
  BY DaysCounted DEF Unbilled, From
<1>5. ASSUME NEW d \in From..UTCDate, ActiveDay(d)
      PROVE  AmountBilled + plan.daily * Count(W, From, d) <= TotalOwed
               <=> Count(W, s, d) <= plan.count
  <2>1. Count(W, s, d) = n + Count(W, From, d)
    <3>1. /\ From - 1 \in Int /\ s <= (From - 1) + 1 /\ From - 1 <= d
          /\ (From - 1) + 1 = From /\ d \in Int
      BY <1>1, <1>2
    <3> QED BY <1>1, <1>2, <3>1, CountSplits
  <2> DEFINE x == Count(W, From, d)
  <2>2. x \in Nat
    BY <1>1, <1>2, Counted
  <2>3. Count(W, s, d) = n + x
    BY <2>1
  <2> HIDE DEF x, n, s
  <2>4. AmountBilled + plan.daily * x = plan.daily * (n + x)
    BY <1>2, <1>3, <2>2, Times
  <2>5. plan.daily * (n + x) <= plan.daily * plan.count <=> n + x <= plan.count
    BY <1>2, <1>3, <2>2, TimesMono
  <2>6. AmountBilled + plan.daily * x <= TotalOwed <=> Count(W, s, d) <= plan.count
    BY <2>3, <2>4, <2>5 DEF TotalOwed
  <2> QED BY <2>6 DEF x
<1>6. \A d \in s..UTCDate : ActiveDay(d) => (d \notin Billed <=> d \in From..UTCDate)
  BY <1>1, <1>2 DEF DaysOn, ActiveDay
<1>7. \A d \in From..UTCDate : d \in s..UTCDate
  BY <1>1, <1>2
<1> QED BY <1>4, <1>5, <1>6, <1>7

LEMMA BillKeeps ==
  ASSUME FiguresInv, Bill
  PROVE  FiguresInv'
<1> DEFINE W == plan.weekdays
           s == plan.start
           New == Billed \cup Unbilled
<1>0. UNCHANGED <<plan, excused, local, early>>
  BY DEF Bill
<1>1. /\ From \in Int /\ s <= From
      /\ Billed # {} => From <= UTCDate + 1
      /\ Billed = DaysOn(W, s, From - 1)
  BY BilledSoFar
<1>2. /\ plan.count \in Nat \ {0} /\ s \in Int /\ UTCDate \in Int
  BY Known DEF FiguresInv
<1>3. \A d : d \in Unbilled <=> /\ d \in From..UTCDate /\ ActiveDay(d)
                                /\ Count(W, s, d) <= plan.count
  BY UnbilledDays
<1>4. TermsKnown' /\ UTCDate' = UTCDate
  BY <1>0 DEF FiguresInv, TermsKnown, UTCDate
<1>5. Billed' = New
  BY DEF Bill, Billed
<1>6. IsFiniteSet(Unbilled) /\ IsFiniteSet(New)
  <2>1. IsFiniteSet(From..UTCDate)
    BY <1>1, <1>2, FS_Interval
  <2>2. Unbilled \subseteq From..UTCDate
    BY <1>3
  <2>3. IsFiniteSet(Unbilled)
    BY <2>1, <2>2, FS_Subset
  <2> QED BY <2>3, FS_Union DEF FiguresInv, InstalmentsTyped
<1>7. InstalmentsTyped'
  <2> DEFINE Row == [target : {plan.daily}, paid : Nat]
             fresh == [target |-> plan.daily, paid |-> 0]
  <2>1. fresh \in Row
    OBVIOUS
  <2>2. instalments \in [Billed -> Row]
    BY DEF FiguresInv, InstalmentsTyped
  <2>3. instalments' = [d \in New |-> IF d \in Billed THEN instalments[d] ELSE fresh]
    BY DEF Bill
  <2>4. instalments' \in [New -> Row]
    <3> HIDE DEF Row, fresh, New
    <3> QED BY <2>1, <2>2, <2>3
  <2> QED BY <1>0, <1>5, <1>6, <2>4 DEF InstalmentsTyped
<1>8. \A d \in New : /\ d \in Int /\ s <= d /\ d <= UTCDate /\ ActiveDay(d)
  <2>1. \A d \in Unbilled : /\ d \in Int /\ s <= d /\ d <= UTCDate /\ ActiveDay(d)
    BY <1>1, <1>2, <1>3
  <2> QED BY <2>1 DEF FiguresInv, BilledInOrder
<1>9. ASSUME NEW d \in New, NEW e \in s..d, ActiveDay(e) PROVE e \in New
  <2>1. d \in Int /\ e \in Int /\ s <= e /\ e <= d /\ d <= UTCDate
    BY <1>2, <1>8
  <2>2. CASE e < From
    <3>1. e \in DaysOn(W, s, From - 1)
      BY <1>1, <1>2, <1>9, <2>1, <2>2 DEF DaysOn, ActiveDay
    <3> QED BY <1>1, <3>1
  <2>3. CASE From <= e
    <3>1. d \in Unbilled
      <4>1. d \notin DaysOn(W, s, From - 1)
        BY <1>1, <2>1, <2>3 DEF DaysOn
      <4> QED BY <1>1, <4>1
    <3>2. Count(W, s, d) <= plan.count
      BY <1>3, <3>1
    <3>3. Count(W, s, e) <= Count(W, s, d)
      BY <1>2, <2>1, CountGrows
    <3>4. Count(W, s, e) \in Nat /\ Count(W, s, d) \in Nat
      BY <1>2, <2>1, Counted
    <3>5. Count(W, s, e) <= plan.count /\ e \in From..UTCDate
      BY <1>1, <1>2, <2>1, <2>3, <3>2, <3>3, <3>4
    <3> QED BY <1>3, <1>9, <3>5
  <2> QED BY <1>1, <2>1, <2>2, <2>3
<1>10. Cardinality(New) <= plan.count
  <2> DEFINE u == Max(Unbilled)
  <2>1. u \in Unbilled /\ \A d \in Unbilled : d <= u
    <3>1. Unbilled \subseteq Int /\ Unbilled # {}
      BY <1>1, <1>2, <1>3 DEF Bill
    <3> QED BY <1>6, <3>1, MaxMember
  <2> HIDE DEF u
  <2>2. /\ u \in Int /\ From <= u /\ u <= UTCDate
        /\ Count(W, s, u) <= plan.count
    BY <1>1, <1>2, <1>3, <2>1
  <2>3. New = DaysOn(W, s, u)
    <3>1. ASSUME NEW d \in New PROVE d \in DaysOn(W, s, u)
      <4>1. d \in Int /\ s <= d /\ ActiveDay(d)
        BY <1>8
      <4>2. ASSUME d \in Billed PROVE d <= u
        <5>1. d <= From - 1
          BY <1>1, <4>2 DEF DaysOn
        <5> QED BY <1>1, <2>2, <4>1, <5>1
      <4> QED BY <1>2, <2>1, <2>2, <4>1, <4>2 DEF DaysOn, ActiveDay
    <3>2. ASSUME NEW d \in DaysOn(W, s, u) PROVE d \in New
      <4>1. d \in s..u /\ ActiveDay(d)
        BY DEF DaysOn, ActiveDay
      <4> QED BY <1>9, <2>1, <4>1
    <3> QED BY <3>1, <3>2
  <2> QED BY <2>2, <2>3 DEF Count
<1>11. BilledInOrder'
  <2>1. \A d : ActiveDay(d)' <=> ActiveDay(d)
    BY <1>0 DEF ActiveDay
  <2> HIDE DEF New
  <2> QED BY <1>0, <1>4, <1>5, <1>8, <1>9, <2>1 DEF BilledInOrder
<1>12. NoneBeyondTheTerm'
  <2> HIDE DEF New
  <2> QED BY <1>0, <1>5, <1>10 DEF NoneBeyondTheTerm
<1> QED BY <1>4, <1>7, <1>11, <1>12 DEF FiguresInv

LEMMA FiguresKept == FiguresInv /\ [Next]_figureVars => FiguresInv'
<1> SUFFICES ASSUME FiguresInv, [Next]_figureVars PROVE FiguresInv'
  OBVIOUS
<1>1. ASSUME UNCHANGED <<plan, instalments, local, early>> PROVE FiguresInv'
  BY <1>1 DEF FiguresInv, TermsKnown, InstalmentsTyped, BilledInOrder,
     NoneBeyondTheTerm, Billed, UTCDate, ActiveDay
<1>2. CASE Excuse \/ Decline \/ UNCHANGED figureVars
  BY <1>1, <1>2 DEF Excuse, Decline, figureVars
<1> QED BY <1>2, MidnightKeeps, PayKeeps, BillKeeps DEF Next

LEMMA FiguresBegin == Init => FiguresInv
<1> SUFFICES ASSUME Init PROVE FiguresInv
  OBVIOUS
<1>1. Billed = {} /\ instalments = <<>>
  BY DEF Init, Billed
<1>2. IsFiniteSet(Billed) /\ Cardinality(Billed) = 0
  BY <1>1, FS_EmptySet
<1>3. TermsKnown
  <2>1. plan \in Terms /\ local = 0 /\ early = FALSE
    BY DEF Init
  <2>2. early \in BOOLEAN
    BY <2>1, Zenon
  <2> QED BY <2>1, <2>2 DEF TermsKnown
<1>4. InstalmentsTyped
  BY <1>1, <1>2 DEF InstalmentsTyped
<1>5. plan.count \in Nat \ {0}
  BY <1>3, Known
<1>6. BilledInOrder /\ NoneBeyondTheTerm
  BY <1>1, <1>2, <1>5 DEF BilledInOrder, NoneBeyondTheTerm
<1> QED BY <1>3, <1>4, <1>6 DEF FiguresInv

LEMMA FiguresAlways == Spec => []FiguresInv
BY FiguresBegin, FiguresKept, PTL DEF Spec

-----------------------------------------------------------------------------
(***************************************************************************)
(* The end date.  Arithmetic by whole weeks finds the day that counting    *)
(* day by day reaches, ...                                                 *)
(***************************************************************************)
LEMMA NthIs ==
  ASSUME TermsKnown, NEW s \in Int, NEW n \in Nat \ {0}, NEW e \in Int, s <= e,
         (e % 7) \in plan.weekdays, Count(plan.weekdays, s, e) = n
  PROVE  NthActiveFrom(s, n) = e
<1> DEFINE W == plan.weekdays
           k == Cardinality(W)
           q == (n - 1) \div k
           r == ((n - 1) % k) + 1
           c == s + 7 * q
<1>1. W \in SUBSET Week /\ W # {} /\ k \in Nat \ {0}
  BY Known, WeeksCount
<1>2. q \in Int /\ r \in 1..k /\ n = k * q + r
  <2> HIDE DEF W, k
  <2>1. /\ q \in Int /\ (n - 1) % k \in 0..(k - 1)
        /\ n - 1 = k * q + ((n - 1) % k)
    <3>1. \A x \in Int : /\ x \div k \in Int /\ x % k \in 0..(k - 1)
                         /\ x = k * (x \div k) + (x % k)
      BY <1>1, DivMod
    <3>2. n - 1 \in Int
      OBVIOUS
    <3> QED BY <3>1, <3>2
  <2> HIDE DEF q
  <2> QED BY <1>1, <2>1
<1>3. q \in Nat
  <2> HIDE DEF W, k, q, r
  <2>1. k * (-1) = -k /\ k * q \in Int
    BY <1>1, <1>2, Times
  <2>2. k * (-1) < k * q
    BY <1>1, <1>2, <2>1
  <2>3. -1 < q
    BY <1>1, <1>2, <2>2, TimesMono
  <2> QED BY <1>2, <2>3
<1> HIDE DEF k, q, r
<1>4. c \in Int /\ s <= c /\ c - 1 \in Int /\ c + 6 \in Int /\ (c - 1) + 1 = c
  BY <1>3
<1>5. Count(W, s, c - 1) = k * q /\ Count(W, c, c + 6) = k
  <2>1. Count(W, s, s + 7 * q - 1) = k * q
    <3> HIDE DEF W, c
    <3> QED BY <1>1, <1>3, WeeksCount DEF k
  <2>2. Count(W, c, c + 6) = k
    <3> HIDE DEF W, c
    <3> QED BY <1>1, <1>4, WeekCount DEF k
  <2>3. c - 1 = s + 7 * q - 1
    BY <1>3
  <2> HIDE DEF c, W
  <2> QED BY <2>1, <2>2, <2>3
<1> HIDE DEF c, W
<1>6. k * q \in Int /\ r <= k /\ r >= 1 /\ r \in Int
  BY <1>1, <1>2, <1>3, Times
<1>7. c <= e
  <2> SUFFICES ASSUME e <= c - 1 PROVE FALSE
    BY <1>4
  <2>1. Count(W, s, e) <= Count(W, s, c - 1)
    BY <1>4, CountGrows
  <2>2. Count(W, s, e) = n
    BY DEF W
  <2> QED BY <1>2, <1>5, <1>6, <2>1, <2>2
<1>8. Count(W, c, e) = r
  <2>1. Count(W, s, e) = Count(W, s, c - 1) + Count(W, c, e)
    <3>1. s <= (c - 1) + 1 /\ c - 1 <= e
      BY <1>4, <1>7
    <3> QED BY <1>4, <3>1, CountSplits
  <2>2. Count(W, c, e) \in Nat /\ Count(W, s, e) = n
    BY <1>4, Counted DEF W
  <2> QED BY <1>2, <1>5, <1>6, <2>1, <2>2
<1>9. e <= c + 6
  <2> SUFFICES ASSUME c + 6 < e PROVE FALSE
    BY <1>4
  <2>1. Count(W, c, c + 6) < Count(W, c, e)
    BY <1>4, <1>7, CountGrows DEF W
  <2> QED BY <1>1, <1>5, <1>6, <1>8, <2>1
<1> DEFINE S == {d \in c..(c + 6) : Count(W, c, d) = r}
<1>10. e \in S
  BY <1>4, <1>7, <1>8, <1>9
<1>11. \A d \in S : e <= d
  <2> SUFFICES ASSUME NEW d \in S, d < e PROVE FALSE
    BY <1>4
  <2>1. Count(W, c, d) < Count(W, c, e)
    BY <1>4, <1>7, CountGrows DEF W
  <2> QED BY <1>6, <1>8, <2>1
<1>12. Min(S) = e
  <2>1. IsFiniteSet(S)
    <3>1. IsFiniteSet(c..(c + 6))
      BY <1>4, FS_Interval
    <3> QED BY <3>1, FS_Subset
  <2>2. S \subseteq Int
    BY <1>4
  <2> HIDE DEF S
  <2>3. Min(S) \in S /\ Min(S) <= e
    BY <1>10, <2>1, <2>2, MinMember
  <2>4. e <= Min(S) /\ Min(S) \in Int /\ e \in Int
    BY <1>10, <1>11, <2>2, <2>3
  <2> QED BY <2>3, <2>4
<1>13. S = {d \in c..(c + 6) : ActiveDaysIn(c, d) = r}
  BY DaysCounted DEF W
<1> HIDE DEF S
<1> QED BY <1>12, <1>13 DEF NthActiveFrom, c, q, r, k, W

(* ... and the generator bills exactly up to it.                           *)
LEMMA EndDate ==
  ASSUME FiguresInv
  PROVE  EndDateIsTheLastInstalment
<1> SUFFICES ASSUME AmountBilled = TotalOwed PROVE Max(Billed) = DerivedEndDate
  BY DEF EndDateIsTheLastInstalment
<1>1. /\ plan.daily \in Nat \ {0} /\ plan.count \in Nat \ {0}
      /\ plan.start \in Int
  BY Known DEF FiguresInv
<1> DEFINE n == Cardinality(Billed)
<1>2. n \in Nat /\ IsFiniteSet(Billed)
  BY FS_CardinalityType DEF FiguresInv, InstalmentsTyped
<1>3. n = plan.count
  <2>1. plan.daily * n = plan.daily * plan.count
    BY BilledAmount DEF TotalOwed
  <2> HIDE DEF n
  <2> QED BY <1>1, <1>2, <2>1, TimesMono
<1>4. Billed # {}
  BY <1>1, <1>3, FS_EmptySet
<1> DEFINE m == Max(Billed)
<1>5. m \in Billed
  <2>1. Billed \subseteq Int
    BY DEF FiguresInv, BilledInOrder
  <2> QED BY <1>2, <1>4, <2>1, MaxMember
<1>6. From = m + 1
  BY <1>4 DEF From
<1> HIDE DEF m
<1>7. m \in Int /\ plan.start <= m /\ (m % 7) \in plan.weekdays
  BY <1>5 DEF FiguresInv, BilledInOrder, ActiveDay
<1>8. Count(plan.weekdays, plan.start, m) = plan.count
  <2>1. From - 1 = m
    BY <1>6, <1>7
  <2> QED BY <1>3, <2>1, BilledSoFar
<1>9. NthActiveFrom(plan.start, plan.count) = m
  BY <1>1, <1>7, <1>8, NthIs DEF FiguresInv
<1> QED BY <1>9 DEF DerivedEndDate, m

-----------------------------------------------------------------------------
(***************************************************************************)
(* Walking forward over the plan's days.                                   *)
(***************************************************************************)
LEMMA AdvanceIs ==
  ASSUME TermsKnown, NEW a \in Int, NEW n \in Nat \ {0}
  PROVE  /\ Advance(a, n) \in Int /\ a < Advance(a, n)
         /\ (Advance(a, n) % 7) \in plan.weekdays
         /\ Count(plan.weekdays, a + 1, Advance(a, n)) = n
<1> DEFINE W == plan.weekdays
           b == a + 7 * n
           S == {d \in a..b : Count(W, a + 1, d) >= n}
<1>1. W \in SUBSET Week /\ W # {}
  BY Known
<1>2. a + 1 \in Int /\ b \in Int /\ (a + 1) + 7 * n - 1 = b
  OBVIOUS
<1>3. Count(W, a + 1, b) >= n
  <2>1. Cardinality(W) \in Nat \ {0} /\ Count(W, a + 1, b) = Cardinality(W) * n
    <3> HIDE DEF b, W
    <3> QED BY <1>1, <1>2, WeeksCount
  <2> DEFINE k == Cardinality(W)
  <2> HIDE DEF k
  <2>2. k \in Nat \ {0} /\ k * n >= n
    BY <2>1 DEF k
  <2> QED BY <2>1, <2>2 DEF k
<1> HIDE DEF b, W
<1>4. PICK e \in (a + 1)..b :
        /\ (e % 7) \in W /\ Count(W, a + 1, e) = n
        /\ \A d \in Int : d < e => Count(W, a + 1, d) < n
  BY <1>2, <1>3, FirstBy
<1>5. e \in Int /\ a < e /\ e <= b
  BY <1>2, <1>4
<1>6. e \in S
  BY <1>2, <1>4, <1>5
<1>7. \A d \in S : e <= d
  <2> SUFFICES ASSUME NEW d \in S, d < e PROVE FALSE
    BY <1>2, <1>5
  <2>1. d \in Int /\ Count(W, a + 1, d) \in Nat
    BY <1>2, Counted
  <2>2. Count(W, a + 1, d) < n
    BY <1>4, <2>1
  <2> QED BY <2>1, <2>2
<1>8. Min(S) = e
  <2>1. IsFiniteSet(S)
    <3>1. IsFiniteSet(a..b)
      BY <1>2, FS_Interval
    <3> QED BY <3>1, FS_Subset
  <2>2. S \subseteq Int
    BY <1>2
  <2> HIDE DEF S
  <2>3. Min(S) \in S /\ Min(S) <= e
    BY <1>6, <2>1, <2>2, MinMember
  <2>4. e <= Min(S) /\ Min(S) \in Int /\ e \in Int
    BY <1>6, <1>7, <2>2, <2>3
  <2> QED BY <2>3, <2>4
<1>9. S = {d \in a..b : ActiveDaysAfter(a, d) >= n}
  BY DaysCounted DEF ActiveDaysAfter, W
<1> HIDE DEF S
<1>10. Advance(a, n) = e
  BY <1>8, <1>9 DEF Advance, b
<1> QED BY <1>4, <1>5, <1>10 DEF W

(* Two of a plan's days that are as many days away are the same.           *)
LEMMA SameDay ==
  ASSUME NEW W, NEW a \in Int, NEW d \in Int, NEW e \in Int, a <= d, a <= e,
         (d % 7) \in W, (e % 7) \in W, Count(W, a, d) = Count(W, a, e)
  PROVE  d = e
<1>1. Count(W, a, d) \in Nat /\ Count(W, a, e) \in Nat
  BY Counted
<1>2. ~ (d < e)
  <2>1. d < e => Count(W, a, d) < Count(W, a, e)
    BY CountGrows
  <2> QED BY <1>1, <2>1
<1>3. ~ (e < d)
  <2>1. e < d => Count(W, a, e) < Count(W, a, d)
    BY CountGrows
  <2> QED BY <1>1, <2>1
<1> QED BY <1>2, <1>3

LEMMA DueAmount ==
  ASSUME FiguresInv
  PROVE  AmountDue = AmountBilled
<1>1. {d \in Billed : d <= UTCDate} = Billed
  BY DEF FiguresInv, BilledInOrder
<1> QED BY <1>1 DEF AmountDue, AmountBilled

LEMMA PaidAmount ==
  ASSUME FiguresInv
  PROVE  AmountPaid \in Nat
<1> DEFINE f == Paids
<1>1. IsFiniteSet(Billed) /\ \A d \in Billed : f[d] \in Nat
  BY DEF FiguresInv, InstalmentsTyped, Paids
<1>2. AmountPaid = SumOf(f, Billed)
  BY <1>1, AmountPaidIsSum
<1>3. Billed \in SUBSET Billed
  OBVIOUS
<1> HIDE DEF f
<1>4. SumOf(f, Billed) \in Nat
  BY <1>1, <1>3, SumGrows
<1> QED BY <1>2, <1>4

(* When a run has nothing to bill and the term is not over, every day of   *)
(* the plan so far is billed.                                              *)
LEMMA AllBilled ==
  ASSUME FiguresInv, Unbilled = {}, Cardinality(Billed) < plan.count,
         plan.start <= UTCDate + 1
  PROVE  Count(plan.weekdays, plan.start, UTCDate) = Cardinality(Billed)
<1> DEFINE W == plan.weekdays
           s == plan.start
           n == Cardinality(Billed)
<1>1. /\ From \in Int /\ s <= From
      /\ Billed # {} => From <= UTCDate + 1
      /\ n = Count(W, s, From - 1)
  BY BilledSoFar
<1>2. plan.count \in Nat \ {0} /\ s \in Int /\ UTCDate \in Int
  BY Known DEF FiguresInv
<1>3. From <= UTCDate + 1
  BY <1>1 DEF From
<1>4. Count(W, s, UTCDate) = n + Count(W, From, UTCDate)
  <2>1. /\ From - 1 \in Int /\ s <= (From - 1) + 1 /\ From - 1 <= UTCDate
        /\ (From - 1) + 1 = From
    BY <1>1, <1>2, <1>3
  <2> QED BY <1>1, <1>2, <2>1, CountSplits
<1>5. Count(W, From, UTCDate) \in Nat /\ n \in Nat
  BY <1>1, <1>2, Counted, FS_CardinalityType DEF FiguresInv, InstalmentsTyped
<1>6. Count(W, From, UTCDate) = 0
  <2> SUFFICES ASSUME Count(W, From, UTCDate) >= 1 PROVE FALSE
    BY <1>5
  <2>1. PICK e \in From..UTCDate : (e % 7) \in W /\ Count(W, From, e) = 1
    BY <1>1, <1>2, FirstBy
  <2>2. Count(W, s, e) = n + Count(W, From, e)
    <3>1. /\ From - 1 \in Int /\ s <= (From - 1) + 1 /\ From - 1 <= e
          /\ (From - 1) + 1 = From /\ e \in Int
      BY <1>1, <1>2, <2>1
    <3> QED BY <1>1, <1>2, <3>1, CountSplits
  <2>3. Count(W, s, e) <= plan.count
    BY <1>2, <1>5, <2>1, <2>2
  <2>4. e \in Unbilled
    BY <2>1, <2>3, UnbilledDays DEF ActiveDay
  <2> QED BY <2>4
<1> QED BY <1>4, <1>5, <1>6

-----------------------------------------------------------------------------
(* The comparison of what is paid with what is billed, in instalments.     *)
LEMMA Square ==
  ASSUME FiguresInv, Unbilled = {}
  PROVE  SquareDriversFinishOnTheEndDate
<1> DEFINE W == plan.weekdays
           s == plan.start
           c == plan.daily
           n == Cardinality(Billed)
           left == plan.count - n
<1>0. TermsKnown
  BY DEF FiguresInv
<1>1. /\ c \in Nat \ {0} /\ plan.count \in Nat \ {0} /\ s \in Int
      /\ UTCDate \in Int /\ n \in Nat /\ AmountPaid \in Nat
  BY Known, PaidAmount, FS_CardinalityType DEF FiguresInv, InstalmentsTyped
<1>2. NetPosition = AmountPaid - c * n /\ TotalOwed = c * plan.count
  BY BilledAmount, DueAmount DEF NetPosition, TotalOwed
<1> HIDE DEF n
<1>3. c * n \in Int /\ c * plan.count \in Int /\ left \in Int
      /\ c * left = c * plan.count - c * n
  BY <1>1, Times
<1>4. FinishOnTheEndDate
  <2> SUFFICES ASSUME NetPosition = 0, RemainingToOwn > 0, s <= UTCDate + 1
               PROVE  /\ ProjectedCompletion = DerivedEndDate
                      /\ DaysLeft * plan.daily = RemainingToOwn
    BY DEF FinishOnTheEndDate
  <2>1. RemainingToOwn = c * left /\ c * left > c * 0
    <3>1. c * 0 = 0
      BY <1>1, Times
    <3> QED BY <1>1, <1>2, <1>3, <3>1 DEF RemainingToOwn
  <2>2. left > 0 /\ n < plan.count /\ left \in Nat \ {0}
    <3>1. 0 < left
      <4> HIDE DEF left
      <4> QED BY <1>1, <1>3, <2>1, TimesMono
    <3> QED BY <1>1, <1>3, <3>1
  <2>3. Count(W, s, UTCDate) = n
    BY <2>2, AllBilled DEF n
  <2> DEFINE e == Advance(UTCDate, left)
  <2>4. /\ e \in Int /\ UTCDate < e /\ (e % 7) \in W
        /\ Count(W, UTCDate + 1, e) = left
    <3> HIDE DEF left
    <3> QED BY <1>0, <1>1, <2>2, AdvanceIs
  <2> HIDE DEF e
  <2>5. Count(W, s, e) = plan.count /\ s <= e
    <3>1. Count(W, s, e) = Count(W, s, UTCDate) + Count(W, UTCDate + 1, e)
      BY <1>1, <2>4, CountSplits
    <3> QED BY <1>1, <2>3, <2>4, <3>1
  <2>6. DerivedEndDate = e
    <3>1. NthActiveFrom(s, plan.count) = e
      BY <1>0, <1>1, <2>4, <2>5, NthIs
    <3> QED BY <3>1 DEF DerivedEndDate
  <2>7. ProjectedCompletion = e
    <3>1. Max({0, RemainingToOwn}) = RemainingToOwn
      <4> DEFINE T == {0, RemainingToOwn}
      <4>1. IsFiniteSet(T) /\ T \subseteq Int /\ T # {}
        <5>1. RemainingToOwn \in Int
          BY <1>3, <2>1
        <5>2. IsFiniteSet({0}) /\ T = {0} \cup {RemainingToOwn}
          BY FS_Singleton
        <5> HIDE DEF T
        <5>3. IsFiniteSet(T)
          BY <5>2, FS_AddElement
        <5> QED BY <5>1, <5>2, <5>3
      <4>2. Max(T) \in T /\ \A x \in T : x <= Max(T)
        <5> HIDE DEF T
        <5> QED BY <4>1, MaxMember
      <4> QED BY <1>3, <2>1, <4>2
    <3>2. RoundedUp(RemainingToOwn, c) = left
      <4> HIDE DEF left
      <4>1. (c * left + c - 1) \div c = left
        BY <1>1, <1>3, WholeDiv
      <4> QED BY <2>1, <4>1 DEF RoundedUp
    <3> QED BY <3>1, <3>2 DEF ProjectedCompletion, e
  <2>8. DaysLeft = left
    BY <2>4, <2>6, DaysCounted DEF DaysLeft, ActiveDaysAfter
  <2>9. left * c = c * left
    <3> HIDE DEF left
    <3> QED BY <1>1, <1>3
  <2> QED BY <2>1, <2>6, <2>7, <2>8, <2>9
<1>5. CreditLastsUntilTheDateShown
  <2> SUFFICES ASSUME DaysAhead > 0
               PROVE  LET x == ActiveDaysAfter(UTCDate, NextDueDate)
                      IN  NetPosition >= c * x /\ NetPosition < c * (x + 1)
    BY DEF CreditLastsUntilTheDateShown
  <2>1. NetPosition \in Int
    BY <1>1, <1>2, <1>3
  <2>2. DaysAhead = NetPosition \div c
    BY DEF DaysAhead
  <2> DEFINE a == NetPosition \div c
             r == NetPosition % c
  <2>3. a \in Int /\ r \in 0..(c - 1) /\ NetPosition = c * a + r
    BY <1>1, <2>1, DivMod
  <2> HIDE DEF a, r
  <2>4. a \in Nat \ {0} /\ DaysAhead = a
    BY <2>2, <2>3 DEF a
  <2>5. Count(W, UTCDate + 1, Advance(UTCDate, a)) = a
    BY <1>0, <1>1, <2>4, AdvanceIs
  <2>6. ActiveDaysAfter(UTCDate, NextDueDate) = a
    BY <2>4, <2>5, DaysCounted DEF ActiveDaysAfter, NextDueDate
  <2>7. c * a \in Int /\ c * (a + 1) = c * a + c
    BY <1>1, <2>3, Times
  <2>8. NetPosition >= c * a /\ NetPosition < c * (a + 1)
    BY <1>1, <2>1, <2>3, <2>7
  <2> QED BY <2>6, <2>8
<1> QED BY <1>4, <1>5 DEF SquareDriversFinishOnTheEndDate

-----------------------------------------------------------------------------
(* A division that rounds up reaches what is exceeded by less than a part. *)
LEMMA RoundsUpTo ==
  ASSUME NEW a \in Int, NEW c \in Nat \ {0}, NEW m \in Nat,
         a >= c * (m - 1) + 1
  PROVE  RoundedUp(a, c) >= m
<1> DEFINE x == a + c - 1
           q == x \div c
<1>1. x \in Int
  OBVIOUS
<1>2. /\ c * (m - 1) = c * m - c /\ c * m \in Int
  <2>1. c * (m - 1) = c * m - c * 1 /\ c * 1 = c
    BY Times
  <2> QED BY <2>1
<1>3. x >= c * m
  BY <1>2
<1> HIDE DEF x
<1>4. q \in Int /\ x % c \in 0..(c - 1) /\ x = c * q + (x % c)
  BY <1>1, DivMod
<1> HIDE DEF q
<1>5. c * (q + 1) = c * q + c /\ c * q \in Int
  BY <1>4, Times
<1>6. c * m < c * (q + 1)
  BY <1>1, <1>2, <1>3, <1>4, <1>5
<1>7. m < q + 1
  BY <1>4, <1>6, TimesMono
<1> QED BY <1>4, <1>7 DEF RoundedUp, q, x

LEMMA Arrears ==
  ASSUME FiguresInv
  PROVE  ArrearsCoverTheRun
<1> SUFFICES ASSUME Overpaid = {}, Cardinality(HalfPaid) <= 1
             PROVE  MissedDays <= DaysBehind
  BY DEF ArrearsCoverTheRun
<1> DEFINE c == plan.daily
           n == Cardinality(Billed)
           elapsed == {d \in Billed \ excused : d < UTCDate}
           stops == {d \in elapsed : instalments[d].paid >= instalments[d].target}
           M == {d \in elapsed : \A e \in stops : e < d}
           m == Cardinality(M)
           f == Paids
<1>1. /\ c \in Nat \ {0} /\ n \in Nat /\ IsFiniteSet(Billed)
      /\ Billed \subseteq Int
      /\ NetPosition = AmountPaid - c * n /\ AmountPaid \in Nat
  BY Known, PaidAmount, BilledAmount, DueAmount, FS_CardinalityType
     DEF FiguresInv, InstalmentsTyped, BilledInOrder, NetPosition
<1>2. MissedDays = m
  BY DEF MissedDays, ConsecutiveMissed, Billed
<1>3. \A d \in Billed : /\ instalments[d].paid \in Nat
                        /\ instalments[d].target = c
                        /\ instalments[d].paid <= c
                        /\ f[d] = instalments[d].paid
  <2>1. \A d \in Billed : /\ instalments[d].paid \in Nat
                          /\ instalments[d].target = c
                          /\ f[d] = instalments[d].paid
    BY DEF FiguresInv, InstalmentsTyped, Paids
  <2>2. \A d \in Billed : ~ (instalments[d].target - instalments[d].paid < 0)
    BY DEF Overpaid, Need
  <2>3. ASSUME NEW d \in Billed PROVE instalments[d].paid <= c
    <3>1. instalments[d].paid \in Nat /\ instalments[d].target = c
      BY <2>1
    <3>2. ~ (c - instalments[d].paid < 0)
      BY <2>2, <3>1
    <3> HIDE DEF c
    <3> QED BY <1>1, <3>1, <3>2
  <2> QED BY <2>1, <2>3
<1>4. \A d \in M : d \in Billed /\ instalments[d].paid < c
  <2> SUFFICES ASSUME NEW d \in M, instalments[d].paid >= c PROVE FALSE
    BY <1>1, <1>3
  <2>1. d \in stops
    BY <1>3
  <2>2. d < d /\ d \in Int
    BY <1>1, <2>1
  <2> QED BY <2>2
<1>5. AmountPaid = SumOf(f, Billed)
  BY <1>1, AmountPaidIsSum
<1>6. \A d \in Billed : f[d] \in 0..c
  BY <1>1, <1>3
<1>7. IsFiniteSet(M) /\ m \in Nat /\ M \subseteq Billed
  <2>1. M \subseteq Billed
    OBVIOUS
  <2> HIDE DEF M
  <2> QED BY <1>1, <2>1, FS_Subset, FS_CardinalityType
<1>8. HalfPaid \subseteq Billed /\ IsFiniteSet(HalfPaid)
  <2>1. HalfPaid \subseteq Billed
    BY DEF HalfPaid
  <2> QED BY <1>1, <2>1, FS_Subset
<1> HIDE DEF M, elapsed, stops
<1>9. m > 0 => -NetPosition >= c * (m - 1) + 1
  <2> SUFFICES ASSUME m > 0 PROVE -NetPosition >= c * (m - 1) + 1
    OBVIOUS
  <2>1. CASE M \cap HalfPaid = {}
    <3>1. \A d \in Billed \cap M : f[d] = 0
      BY <1>1, <1>3, <1>4, <2>1 DEF HalfPaid, Need
    <3>2. SumOf(f, Billed) <= c * Cardinality(Billed \ M)
      <4> HIDE DEF f
      <4> QED BY <1>1, <1>6, <3>1, SumAtMost
    <3>3. Cardinality(Billed \ M) = n - m
      <4>1. Cardinality(Billed \cap M) = m
        <5>1. Billed \cap M = M
          BY <1>7
        <5> QED BY <5>1
      <4>2. Cardinality(Billed \ M) = n - Cardinality(Billed \cap M)
        BY <1>1, FS_Difference
      <4> QED BY <4>1, <4>2
    <3> HIDE DEF m, n, f
    <3>4. c * (n - m) = c * n - c * m /\ c * (m - 1) = c * m - c * 1
          /\ c * 1 = c /\ c * n \in Int /\ c * m \in Int
      BY <1>1, <1>7, Times
    <3>5. AmountPaid <= c * n - c * m
      BY <1>5, <3>2, <3>3, <3>4
    <3> DEFINE x == c * n
               y == c * m
    <3>6. /\ NetPosition = AmountPaid - x /\ AmountPaid <= x - y
          /\ c * (m - 1) = y - c /\ x \in Int /\ y \in Int
      BY <1>1, <3>4, <3>5
    <3> HIDE DEF x, y, c
    <3>7. -NetPosition >= (y - c) + 1
      BY <1>1, <3>6
    <3> QED BY <3>6, <3>7
  <2>2. CASE M \cap HalfPaid # {}
    <3>1. PICK h \in M \cap HalfPaid : TRUE
      BY <2>2
    <3> DEFINE B == Billed \ {h}
               Z == M \ {h}
    <3>2. \A d \in HalfPaid : d = h
      <4> SUFFICES ASSUME NEW d \in HalfPaid, d # h PROVE FALSE
        OBVIOUS
      <4> DEFINE P == {h}
                 R == HalfPaid \ {h}
      <4>1. IsFiniteSet(R) /\ R # {} /\ Cardinality(R) = Cardinality(HalfPaid) - 1
        BY <1>8, <3>1, FS_RemoveElement, FS_Subset
      <4> HIDE DEF R
      <4>2. Cardinality(R) \in Nat /\ Cardinality(R) # 0 /\ Cardinality(HalfPaid) \in Nat
        BY <1>8, <4>1, FS_CardinalityType, FS_EmptySet
      <4> QED BY <4>1, <4>2
    <3>3. h \in Billed /\ f[h] \in Nat /\ f[h] <= c - 1
      <4>1. h \in M
        BY <3>1
      <4>2. /\ h \in Billed /\ instalments[h].paid < c
            /\ instalments[h].paid \in Nat /\ f[h] = instalments[h].paid
        BY <1>3, <1>4, <4>1
      <4> HIDE DEF f, c
      <4> QED BY <1>1, <4>2
    <3>4. /\ IsFiniteSet(B) /\ \A d \in B : f[d] \in 0..c
          /\ \A d \in B \cap Z : f[d] = 0
      <4>1. IsFiniteSet(B)
        BY <1>1, FS_Subset
      <4>2. ASSUME NEW d \in B \cap Z PROVE f[d] = 0
        <5>1. d \in Billed /\ d \in M /\ d \notin HalfPaid
          BY <3>2
        <5> QED BY <1>1, <1>3, <1>4, <5>1 DEF HalfPaid, Need
      <4> QED BY <1>6, <4>1, <4>2
    <3>5. SumOf(f, Billed) = f[h] + SumOf(f, B) /\ SumOf(f, B) \in Int
      <4>1. /\ \A d \in Billed : f[d] \in Int
            /\ Billed \in SUBSET Billed /\ B \in SUBSET Billed
            /\ IsFiniteSet(Billed)
        BY <1>1, <1>3
      <4> HIDE DEF f
      <4>2. \A T \in SUBSET Billed :
              /\ SumOf(f, T) \in Int
              /\ \A x \in T : SumOf(f, T) = f[x] + SumOf(f, T \ {x})
        BY <4>1, SumTakesOut
      <4> QED BY <3>3, <4>1, <4>2
    <3>6. SumOf(f, B) <= c * Cardinality(B \ Z)
      <4> HIDE DEF f, B, Z
      <4> QED BY <1>1, <3>4, SumAtMost
    <3>7. Cardinality(B \ Z) = n - m
      <4>1. B \ Z = Billed \ M
        BY <3>1
      <4>2. Cardinality(Billed \cap M) = m
        <5>1. Billed \cap M = M
          BY <1>7
        <5> QED BY <5>1
      <4>3. Cardinality(Billed \ M) = n - Cardinality(Billed \cap M)
        BY <1>1, FS_Difference
      <4> QED BY <4>1, <4>2, <4>3
    <3> DEFINE p == f[h]
               t == SumOf(f, B)
    <3>8. /\ AmountPaid = p + t /\ p \in Nat /\ p <= c - 1 /\ t \in Int
          /\ t <= c * (n - m)
      BY <1>5, <3>3, <3>5, <3>6, <3>7
    <3> HIDE DEF m, n, f, p, t, B, Z
    <3>9. c * (n - m) = c * n - c * m /\ c * (m - 1) = c * m - c * 1
          /\ c * 1 = c /\ c * n \in Int /\ c * m \in Int
      BY <1>1, <1>7, Times
    <3> DEFINE x == c * n
               y == c * m
    <3>10. /\ NetPosition = AmountPaid - x /\ AmountPaid <= x - y + (c - 1)
           /\ c * (m - 1) = y - c /\ x \in Int /\ y \in Int
      BY <1>1, <3>8, <3>9
    <3> HIDE DEF x, y, c
    <3>11. -NetPosition >= (y - c) + 1
      BY <1>1, <3>10
    <3> QED BY <3>10, <3>11
  <2> QED BY <2>1, <2>2
<1> HIDE DEF m, n, f
<1>10. c * n \in Int /\ c * (m - 1) \in Int /\ c * 0 = 0
  BY <1>1, <1>7, Times
<1>11. NetPosition \in Int
  BY <1>1, <1>10
<1>12. CASE m = 0
  <2>1. CASE NetPosition < 0
    <3>1. -NetPosition \in Int /\ -NetPosition >= c * (0 - 1) + 1
      <4>1. c * (0 - 1) = c * 0 - c * 1 /\ c * 1 = c
        BY <1>1, Times
      <4> QED BY <1>1, <1>10, <1>11, <2>1, <4>1
    <3>2. RoundedUp(-NetPosition, c) >= 0
      BY <1>1, <3>1, RoundsUpTo
    <3> QED BY <1>2, <1>12, <2>1, <3>2 DEF DaysBehind
  <2>2. CASE ~ (NetPosition < 0)
    BY <1>2, <1>12, <2>2 DEF DaysBehind
  <2> QED BY <2>1, <2>2
<1>13. CASE m > 0
  <2>1. c * (m - 1) >= 0
    <3>1. 0 <= m - 1 /\ m - 1 \in Int
      BY <1>7, <1>13
    <3>2. c * 0 <= c * (m - 1)
      BY <1>1, <3>1, TimesMono
    <3> QED BY <1>10, <3>2
  <2>2. NetPosition < 0
    BY <1>9, <1>10, <1>11, <1>13, <2>1
  <2>3. RoundedUp(-NetPosition, c) >= m
    BY <1>1, <1>7, <1>9, <1>11, <1>13, RoundsUpTo
  <2> QED BY <1>2, <2>2, <2>3 DEF DaysBehind
<1> QED BY <1>7, <1>12, <1>13

-----------------------------------------------------------------------------
(***************************************************************************)
(* Whatever the terms: the day the form and the contract give as the end   *)
(* is the day of the last instalment the generator creates.                *)
(***************************************************************************)
THEOREM EndsAsShown == Spec => []EndDateIsTheLastInstalment
BY FiguresAlways, EndDate, PTL

(***************************************************************************)
(* A driver who is square is projected to finish on that day, and one who  *)
(* is ahead is told the first date the credit does not cover.              *)
(***************************************************************************)
THEOREM FinishAsShown == Spec => []SquareDriversFinishOnTheEndDate
<1>1. ASSUME FiguresInv PROVE SquareDriversFinishOnTheEndDate
  <2>1. CASE Unbilled = {}
    BY <1>1, <2>1, Square
  <2>2. CASE Unbilled # {}
    BY <2>2 DEF SquareDriversFinishOnTheEndDate, FinishOnTheEndDate,
       CreditLastsUntilTheDateShown
  <2> QED BY <2>1, <2>2
<1> QED BY FiguresAlways, <1>1, PTL

(***************************************************************************)
(* The run of missed days never says more than the arrears, in days, while *)
(* no day is overpaid and at most one is half paid.                        *)
(***************************************************************************)
THEOREM RunWithinArrears == Spec => []ArrearsCoverTheRun
BY FiguresAlways, Arrears, PTL
=============================================================================
