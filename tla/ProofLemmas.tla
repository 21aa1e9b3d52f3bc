---------------------------- MODULE ProofLemmas -----------------------------
(***************************************************************************)
(* What the proofs need of numbers, finite sets and lists and the provers  *)
(* cannot find alone.  An induction is done by a least counterexample,     *)
(* from WFMin of the library, whose parameters are sets.                   *)
(***************************************************************************)
EXTENDS Integers, FiniteSets, SequencesExt, FiniteSetTheorems,
        WellFoundedInduction, TLAPS

(* A set of naturals has a least member, and a bounded one a greatest.     *)
LEMMA Least ==
  ASSUME NEW S, S \subseteq Nat, S # {} PROVE \E n \in S : \A m \in S : n <= m
<1> DEFINE R == {ss \in Nat \X Nat : ss[1] < ss[2]}
<1>1. IsWellFoundedOn(R, Nat)
  BY NatLessThanWellFounded DEF OpToRel
<1>2. \A x, y \in Nat : y < x => <<y, x>> \in R
  OBVIOUS
<1> HIDE DEF R
<1>3. PICK n \in S : \A m \in S : ~ (<<m, n>> \in R)
  BY <1>1, WFMin, Zenon
<1>4. ASSUME NEW m \in S PROVE n <= m
  <2>1. m \in Nat /\ n \in Nat
    BY <1>3
  <2>2. ~ (m < n)
    BY <1>2, <1>3, <2>1
  <2>3. QED
    BY <2>1, <2>2
<1>5. QED
  BY <1>4

LEMMA Greatest ==
  ASSUME NEW S, S \subseteq Nat, S # {}, NEW b \in Nat, \A m \in S : m <= b
  PROVE  \E n \in S : \A m \in S : m <= n
<1> DEFINE T == {b - m : m \in S}
<1>1. T \subseteq Nat /\ T # {}
  <2>1. \A m \in S : b - m \in Nat
    <3>1. \A m \in S : m \in Nat /\ m <= b
      OBVIOUS
    <3>2. QED
      BY <3>1
  <2>2. QED
    BY <2>1
<1>2. PICK k \in T : \A j \in T : k <= j
  <2> HIDE DEF T
  <2>1. QED
    BY <1>1, Least
<1>3. PICK n \in S : k = b - n
  OBVIOUS
<1>4. \A m \in S : b - n <= b - m
  BY <1>2, <1>3
<1>5. \A m \in S : m <= n
  BY <1>4
<1>6. QED
  BY <1>5

-----------------------------------------------------------------------------
(***************************************************************************)
(* Lists: what is in them, after an operation on one.                      *)
(***************************************************************************)
LEMMA Elements ==
  ASSUME NEW S, NEW s \in Seq(S)
  PROVE  /\ Len(s) \in Nat /\ DOMAIN s = 1 .. Len(s)
         /\ ToSet(s) = {s[k] : k \in 1 .. Len(s)} /\ ToSet(s) \subseteq S
         /\ s = <<>> <=> ToSet(s) = {}
<1>1. Len(s) \in Nat /\ DOMAIN s = 1 .. Len(s)
  OBVIOUS
<1>2. ToSet(s) = {s[k] : k \in 1 .. Len(s)}
  BY <1>1 DEF ToSet
<1>3. \A k \in 1 .. Len(s) : s[k] \in S
  OBVIOUS
<1>4. s = <<>> <=> Len(s) = 0
  OBVIOUS
<1>5. QED
  BY <1>1, <1>2, <1>3, <1>4

LEMMA ElementsOfAppend ==
  ASSUME NEW S, NEW s \in Seq(S), NEW d \in S
  PROVE  /\ Append(s, d) \in Seq(S) /\ ToSet(Append(s, d)) = ToSet(s) \cup {d}
         /\ Len(Append(s, d)) = Len(s) + 1
         /\ \A k \in 1 .. Len(s) : Append(s, d)[k] = s[k]
         /\ Append(s, d)[Len(s) + 1] = d
<1> DEFINE t == Append(s, d)
<1>1. /\ t \in Seq(S) /\ Len(t) = Len(s) + 1
      /\ \A k \in 1 .. Len(s) : t[k] = s[k]
      /\ t[Len(s) + 1] = d
  OBVIOUS
<1> HIDE DEF t
<1>2. /\ ToSet(t) = {t[k] : k \in 1 .. Len(s) + 1}
      /\ ToSet(s) = {s[k] : k \in 1 .. Len(s)} /\ Len(s) \in Nat
  BY <1>1, Elements
<1>3. 1 .. Len(s) + 1 = (1 .. Len(s)) \cup {Len(s) + 1}
  BY <1>2
<1>4. ToSet(t) = ToSet(s) \cup {d}
  BY <1>1, <1>2, <1>3
<1>5. QED
  BY <1>1, <1>4 DEF t

LEMMA ElementsOfTail ==
  ASSUME NEW S, NEW s \in Seq(S), s # <<>>
  PROVE  /\ Head(s) \in S /\ Tail(s) \in Seq(S)
         /\ ToSet(s) = {Head(s)} \cup ToSet(Tail(s))
         /\ Head(s) = s[1] /\ Len(Tail(s)) = Len(s) - 1
         /\ \A k \in 1 .. Len(Tail(s)) : Tail(s)[k] = s[k + 1]
<1> DEFINE t == Tail(s)
           n == Len(s)
<1>1. /\ Head(s) = s[1] /\ s[1] \in S /\ n \in Nat /\ n >= 1
      /\ t \in Seq(S) /\ Len(t) = n - 1
      /\ \A k \in 1 .. Len(t) : t[k] = s[k + 1]
  OBVIOUS
<1> HIDE DEF t
<1>2. ToSet(t) = {t[k] : k \in 1 .. n - 1} /\ ToSet(s) = {s[k] : k \in 1 .. n}
  BY <1>1, Elements
<1> HIDE DEF n
<1>3. ToSet(t) = {s[k] : k \in 2 .. n}
  <2>1. \A k \in 1 .. n - 1 : k + 1 \in 2 .. n /\ t[k] = s[k + 1]
    BY <1>1
  <2>2. \A k \in 2 .. n : k - 1 \in 1 .. n - 1 /\ t[k - 1] = s[k]
    <3>1. \A k \in 2 .. n : k - 1 \in 1 .. n - 1 /\ (k - 1) + 1 = k
      BY <1>1
    <3>2. QED
      BY <2>1, <3>1
  <2>3. QED
    BY <1>2, <2>1, <2>2
<1>4. 1 .. n = {1} \cup 2 .. n
  BY <1>1
<1>5. ToSet(s) = {s[1]} \cup ToSet(t)
  BY <1>2, <1>3, <1>4
<1>6. QED
  BY <1>1, <1>5 DEF t, n

(* One element of a list is taken out.                                     *)
LEMMA ElementsOfRemoveAt ==
  ASSUME NEW S, NEW s \in Seq(S), NEW i \in 1 .. Len(s)
  PROVE  /\ RemoveAt(s, i) \in Seq(S) /\ Len(RemoveAt(s, i)) = Len(s) - 1
         /\ \A k \in 1 .. Len(s) - 1 :
              RemoveAt(s, i)[k] = IF k < i THEN s[k] ELSE s[k + 1]
         /\ ToSet(RemoveAt(s, i)) = {s[k] : k \in (1 .. Len(s)) \ {i}}
<1> DEFINE n == Len(s)
           t == RemoveAt(s, i)
<1>1. n \in Nat /\ n >= 1 /\ i \in Int
  OBVIOUS
<1>2. /\ t \in Seq(S) /\ Len(t) = n - 1
      /\ \A k \in 1 .. n - 1 : t[k] = IF k < i THEN s[k] ELSE s[k + 1]
  <2> DEFINE u == SubSeq(s, 1, i - 1)
             v == SubSeq(s, i + 1, Len(s))
  <2>1. /\ u \in Seq(S) /\ Len(u) = i - 1
        /\ \A k \in 1 .. i - 1 : u[k] = s[k]
    BY <1>1
  <2>2. /\ v \in Seq(S) /\ Len(v) = n - i
        /\ \A k \in 1 .. n - i : v[k] = s[i + k]
    <3>1. i + 1 \in Int /\ n \in Int /\ i \in 1 .. n
      BY <1>1
    <3>2. \A k \in (i + 1) .. n : s[k] \in S
      BY <3>1
    <3>3. /\ v \in Seq(S) /\ Len(v) = n - i
          /\ \A k \in 1 .. n - i : v[k] = s[i + 1 + k - 1]
      BY <3>1, <3>2
    <3>4. \A k \in 1 .. n - i : i + 1 + k - 1 = i + k
      BY <3>1
    <3>5. QED
      BY <3>3, <3>4
  <2>3. t = u \o v
    BY DEF RemoveAt
  <2> HIDE DEF u, v, t, n
  <2>4. /\ t \in Seq(S) /\ Len(t) = (i - 1) + (n - i)
        /\ \A k \in 1 .. Len(t) : t[k] = IF k <= i - 1 THEN u[k] ELSE v[k - (i - 1)]
    BY <2>1, <2>2, <2>3
  <2>5. /\ Len(t) = n - 1 /\ i \in 1 .. n
    BY <1>1, <2>4 DEF n
  <2>6. ASSUME NEW k \in 1 .. n - 1 PROVE t[k] = IF k < i THEN s[k] ELSE s[k + 1]
    <3>1. CASE k < i
      BY <1>1, <2>1, <2>4, <2>5, <3>1
    <3>2. CASE ~ (k < i)
      <4>1. k - (i - 1) \in 1 .. n - i /\ i + (k - (i - 1)) = k + 1 /\ ~ (k <= i - 1)
        BY <1>1, <2>5, <3>2
      <4>2. QED
        BY <2>2, <2>4, <2>5, <3>2, <4>1
    <3>3. QED
      BY <3>1, <3>2
  <2>7. QED
    BY <2>4, <2>5, <2>6
<1> HIDE DEF t
<1>3. ToSet(t) = {t[k] : k \in 1 .. n - 1}
  BY <1>2, Elements
<1> HIDE DEF n
<1>4. ASSUME NEW k \in 1 .. n - 1
      PROVE  \E j \in (1 .. n) \ {i} : t[k] = s[j]
  <2>1. CASE k < i
    BY <1>1, <1>2, <2>1
  <2>2. CASE ~ (k < i)
    <3>1. k + 1 \in (1 .. n) \ {i} /\ t[k] = s[k + 1]
      BY <1>1, <1>2, <2>2
    <3>2. QED
      BY <3>1
  <2>3. QED
    BY <2>1, <2>2
<1>5. ASSUME NEW j \in (1 .. n) \ {i}
      PROVE  \E k \in 1 .. n - 1 : t[k] = s[j]
  <2>1. CASE j < i
    <3>1. j \in 1 .. n - 1
      BY <1>1, <2>1 DEF n
    <3>2. QED
      BY <1>2, <2>1, <3>1
  <2>2. CASE ~ (j < i)
    <3>1. j - 1 \in 1 .. n - 1 /\ ~ (j - 1 < i) /\ (j - 1) + 1 = j
      BY <1>1, <2>2
    <3>2. QED
      BY <1>2, <3>1
  <2>3. QED
    BY <2>1, <2>2
<1>6. ToSet(t) = {s[j] : j \in (1 .. n) \ {i}}
  <2>1. ToSet(t) \subseteq {s[j] : j \in (1 .. n) \ {i}}
    BY <1>3, <1>4
  <2>2. {s[j] : j \in (1 .. n) \ {i}} \subseteq ToSet(t)
    BY <1>3, <1>5
  <2>3. QED
    BY <2>1, <2>2
<1>7. QED
  BY <1>2, <1>6 DEF n, t

LEMMA ElementsOfRemoveFirst ==
  ASSUME NEW S, NEW s \in Seq(S), IsInjective(s), NEW e
  PROVE  /\ RemoveFirst(s, e) \in Seq(S) /\ IsInjective(RemoveFirst(s, e))
         /\ ToSet(RemoveFirst(s, e)) = ToSet(s) \ {e}
<1> DEFINE I == {i \in 1 .. Len(s) : s[i] = e}
<1>0. /\ Len(s) \in Nat /\ DOMAIN s = 1 .. Len(s)
      /\ ToSet(s) = {s[k] : k \in 1 .. Len(s)}
  BY Elements
<1>1. CASE I = {}
  <2>1. RemoveFirst(s, e) = s
    BY <1>1 DEF RemoveFirst
  <2>2. e \notin ToSet(s)
    BY <1>0, <1>1
  <2>3. QED
    BY <2>1, <2>2
<1>2. CASE I # {}
  <2>1. PICK i \in I : \A j \in I : i <= j
    <3>1. I \subseteq Nat
      OBVIOUS
    <3> HIDE DEF I
    <3>2. QED
      BY <1>2, <3>1, Least
  <2>2. Min(I) = i
    <3>1. I \subseteq Int
      OBVIOUS
    <3> HIDE DEF I
    <3>2. Min(I) \in I /\ \A j \in I : Min(I) <= j
      BY <2>1 DEF Min
    <3>3. Min(I) <= i /\ i <= Min(I)
      BY <2>1, <3>2
    <3>4. Min(I) \in Int /\ i \in Int
      BY <2>1, <3>1, <3>2
    <3> DEFINE m == Min(I)
    <3> HIDE DEF m
    <3>5. m = i
      BY <3>3, <3>4 DEF m
    <3>6. QED
      BY <3>5 DEF m
  <2>3. RemoveFirst(s, e) = RemoveAt(s, i)
    <3>1. \E j \in 1 .. Len(s) : s[j] = e
      BY <1>2
    <3>2. RemoveFirst(s, e) = RemoveAt(s, Min(I))
      BY <1>2, <3>1 DEF RemoveFirst, SelectInSeq
    <3>3. QED
      BY <2>2, <3>2
  <2> DEFINE t == RemoveAt(s, i)
             n == Len(s)
  <2>4. /\ t \in Seq(S) /\ Len(t) = n - 1 /\ DOMAIN t = 1 .. n - 1
        /\ \A k \in 1 .. n - 1 : t[k] = IF k < i THEN s[k] ELSE s[k + 1]
        /\ ToSet(t) = {s[k] : k \in (1 .. n) \ {i}}
    <3>1. i \in 1 .. n
      BY <2>1
    <3>2. /\ t \in Seq(S) /\ Len(t) = n - 1
          /\ \A k \in 1 .. n - 1 : t[k] = IF k < i THEN s[k] ELSE s[k + 1]
          /\ ToSet(t) = {s[k] : k \in (1 .. n) \ {i}}
      BY <3>1, ElementsOfRemoveAt
    <3> HIDE DEF t
    <3>3. DOMAIN t = 1 .. n - 1
      BY <3>2
    <3>4. QED
      BY <3>2, <3>3
  <2>5. \A k, j \in 1 .. n : s[k] = s[j] => k = j
    BY <1>0 DEF IsInjective
  <2>6. ToSet(t) = ToSet(s) \ {e}
    BY <1>0, <2>1, <2>4, <2>5
  <2> HIDE DEF t
  <2>7. IsInjective(t)
    <3> SUFFICES ASSUME NEW a \in 1 .. n - 1, NEW b \in 1 .. n - 1, t[a] = t[b]
                 PROVE  a = b
      BY <2>4 DEF IsInjective
    <3>1. PICK x \in 1 .. n : t[a] = s[x] /\ x = (IF a < i THEN a ELSE a + 1)
      BY <1>0, <2>4
    <3>2. PICK y \in 1 .. n : t[b] = s[y] /\ y = (IF b < i THEN b ELSE b + 1)
      BY <1>0, <2>4
    <3>3. x = y
      BY <2>5, <3>1, <3>2
    <3>4. i \in Int
      BY <2>1
    <3>5. QED
      BY <3>1, <3>2, <3>3, <3>4
  <2>8. QED
    BY <2>3, <2>4, <2>6, <2>7 DEF t
<1>3. QED
  BY <1>1, <1>2

LEMMA InjectiveAppend ==
  ASSUME NEW S, NEW s \in Seq(S), IsInjective(s), NEW d \in S, d \notin ToSet(s)
  PROVE  IsInjective(Append(s, d))
<1> DEFINE t == Append(s, d)
           n == Len(s)
<1>1. /\ t \in Seq(S) /\ Len(t) = n + 1 /\ t[n + 1] = d
      /\ \A k \in 1 .. n : t[k] = s[k]
  BY ElementsOfAppend
<1> HIDE DEF t
<1>2. DOMAIN t = 1 .. n + 1
  BY <1>1
<1>3. /\ DOMAIN s = 1 .. n /\ n \in Nat /\ \A k \in 1 .. n : s[k] # d
  BY Elements
<1> HIDE DEF n
<1>4. ASSUME NEW a \in 1 .. n + 1, NEW b \in 1 .. n + 1, t[a] = t[b] PROVE a = b
  <2>1. CASE a \in 1 .. n /\ b \in 1 .. n
    BY <1>1, <1>3, <1>4, <2>1 DEF IsInjective
  <2>2. CASE a \notin 1 .. n \/ b \notin 1 .. n
    <3>1. (a \notin 1 .. n => a = n + 1) /\ (b \notin 1 .. n => b = n + 1)
      BY <1>3
    <3>2. QED
      BY <1>1, <1>3, <1>4, <2>2, <3>1
  <2>3. QED
    BY <2>1, <2>2
<1>5. QED
  BY <1>2, <1>4 DEF IsInjective, t

(***************************************************************************)
(* Lists of numbers in ascending order.                                    *)
(***************************************************************************)
Ordered(s) == \A a, b \in DOMAIN s : a < b => s[a] < s[b]

LEMMA OrderedAppend ==
  ASSUME NEW s \in Seq(Nat), Ordered(s), NEW d \in Nat, \A j \in ToSet(s) : j < d
  PROVE  Ordered(Append(s, d))
<1> DEFINE t == Append(s, d)
<1>1. /\ t \in Seq(Nat) /\ Len(t) = Len(s) + 1 /\ t[Len(s) + 1] = d
      /\ \A k \in 1 .. Len(s) : t[k] = s[k]
  BY ElementsOfAppend
<1> HIDE DEF t
<1>2. /\ DOMAIN t = 1 .. Len(s) + 1 /\ DOMAIN s = 1 .. Len(s) /\ Len(s) \in Nat
      /\ \A k \in 1 .. Len(s) : s[k] < d
  <2>1. DOMAIN t = 1 .. Len(s) + 1
    BY <1>1
  <2>2. /\ DOMAIN s = 1 .. Len(s) /\ Len(s) \in Nat
        /\ ToSet(s) = {s[k] : k \in 1 .. Len(s)}
    BY Elements
  <2>3. \A k \in 1 .. Len(s) : s[k] \in ToSet(s)
    BY <2>2
  <2>4. QED
    BY <2>1, <2>2, <2>3
<1>3. ASSUME NEW a \in 1 .. Len(s) + 1, NEW b \in 1 .. Len(s) + 1, a < b
      PROVE  t[a] < t[b]
  <2>1. a \in 1 .. Len(s)
    BY <1>2, <1>3
  <2>2. CASE b = Len(s) + 1
    BY <1>1, <1>2, <2>1, <2>2
  <2>3. CASE b # Len(s) + 1
    <3>1. b \in 1 .. Len(s)
      BY <1>2, <2>3
    <3>2. QED
      BY <1>1, <1>2, <1>3, <2>1, <3>1 DEF Ordered
  <2>4. QED
    BY <2>2, <2>3
<1>4. QED
  BY <1>2, <1>3 DEF Ordered, t

LEMMA OrderedTail ==
  ASSUME NEW s \in Seq(Nat), Ordered(s), s # <<>>
  PROVE  Ordered(Tail(s)) /\ \A j \in ToSet(Tail(s)) : Head(s) < j
<1> DEFINE t == Tail(s)
<1>1. /\ t \in Seq(Nat) /\ Head(s) = s[1] /\ Len(t) = Len(s) - 1
      /\ \A k \in 1 .. Len(t) : t[k] = s[k + 1]
  BY ElementsOfTail
<1> HIDE DEF t
<1>2. /\ DOMAIN t = 1 .. Len(t) /\ DOMAIN s = 1 .. Len(s) /\ Len(s) \in Nat
      /\ ToSet(t) = {t[k] : k \in 1 .. Len(t)} /\ Len(t) \in Nat
  BY <1>1, Elements
<1>3. \A k \in 1 .. Len(t) : k + 1 \in 1 .. Len(s) /\ 1 \in 1 .. Len(s) /\ 1 < k + 1
  BY <1>1, <1>2
<1>4. \A k \in 1 .. Len(t) : s[1] < t[k]
  BY <1>1, <1>2, <1>3 DEF Ordered
<1>5. ASSUME NEW a \in 1 .. Len(t), NEW b \in 1 .. Len(t), a < b
      PROVE  t[a] < t[b]
  <2>1. a + 1 \in DOMAIN s /\ b + 1 \in DOMAIN s /\ a + 1 < b + 1
    BY <1>2, <1>3, <1>5
  <2>2. t[a] = s[a + 1] /\ t[b] = s[b + 1]
    BY <1>1
  <2>3. QED
    BY <2>1, <2>2 DEF Ordered
<1>6. QED
  BY <1>1, <1>2, <1>4, <1>5 DEF Ordered, t

(* There are as many numbers in an ordered list as it is long.             *)
LEMMA OrderedCounts ==
  ASSUME NEW s \in Seq(Nat), Ordered(s), NEW F, IsFiniteSet(F), ToSet(s) \subseteq F
  PROVE  Cardinality(F) >= Len(s)
<1>1. /\ DOMAIN s = 1 .. Len(s) /\ Len(s) \in Nat
      /\ ToSet(s) = {s[k] : k \in 1 .. Len(s)}
  BY Elements
<1>2. s \in [1 .. Len(s) -> F]
  <2>1. s = [k \in 1 .. Len(s) |-> s[k]]
    BY <1>1
  <2>2. \A k \in 1 .. Len(s) : s[k] \in F
    BY <1>1
  <2>3. QED
    BY <2>1, <2>2
<1>3. \A a, b \in 1 .. Len(s) : s[a] = s[b] => a = b
  <2> SUFFICES ASSUME NEW a \in 1 .. Len(s), NEW b \in 1 .. Len(s), s[a] = s[b], a < b
               PROVE  FALSE
    OBVIOUS
  <2>1. s[a] < s[b] /\ s[a] \in Nat /\ s[b] \in Nat
    BY <1>1 DEF Ordered
  <2>2. QED
    BY <2>1
<1>4. s \in Injection(1 .. Len(s), F)
  BY <1>1, <1>2, <1>3 DEF Injection, IsInjective
<1>5. Cardinality(1 .. Len(s)) <= Cardinality(F)
  BY <1>4, FS_Injection
<1>6. Cardinality(1 .. Len(s)) = Len(s)
  <2> DEFINE n == Len(s)
  <2>1. n \in Nat /\ 1 \in Int /\ n \in Int
    BY <1>1
  <2> HIDE DEF n
  <2>2. Cardinality(1 .. n) = IF 1 > n THEN 0 ELSE n - 1 + 1
    BY <2>1, FS_Interval
  <2>3. Cardinality(1 .. n) = n
    BY <2>1, <2>2
  <2>4. QED
    BY <2>3 DEF n
<1>7. Cardinality(F) \in Nat
  BY FS_CardinalityType
<1>8. QED
  BY <1>1, <1>5, <1>6, <1>7

(* A finite set of integers has a greatest and a least member.             *)
HasExtremes(T) ==
  /\ \E n \in T : \A m \in T : m <= n
  /\ \E n \in T : \A m \in T : n <= m

LEMMA Extremes ==
  ASSUME NEW S, IsFiniteSet(S), S \subseteq Int, S # {}
  PROVE  HasExtremes(S)
<1> DEFINE Bad == {T \in SUBSET S : T # {} /\ ~HasExtremes(T)}
           Sizes == {Cardinality(T) : T \in Bad}
<1> SUFFICES ASSUME Bad # {} PROVE FALSE
  OBVIOUS
<1>1. \A T \in SUBSET S : IsFiniteSet(T) /\ Cardinality(T) \in Nat
  BY FS_Subset, FS_CardinalityType
<1>2. PICK k \in Sizes : \A j \in Sizes : k <= j
  <2>1. Sizes \subseteq Nat /\ Sizes # {}
    BY <1>1
  <2> HIDE DEF Sizes
  <2> QED BY <2>1, Least
<1>3. PICK T \in Bad : k = Cardinality(T)
  BY <1>2
<1>4. PICK x \in T : TRUE
  OBVIOUS
<1> DEFINE U == T \ {x}
<1>5. x \in Int /\ T = U \cup {x} /\ U \in SUBSET S /\ T \subseteq Int
  BY <1>3, <1>4
<1>6. U # {}
  <2> SUFFICES ASSUME U = {} PROVE FALSE
    OBVIOUS
  <2>1. T = {x}
    BY <1>5
  <2>2. x <= x
    BY <1>5
  <2>3. HasExtremes(T)
    BY <2>1, <2>2 DEF HasExtremes
  <2> QED BY <2>3, <1>3
<1>7. Cardinality(U) = k - 1 /\ k \in Nat
  BY <1>1, <1>3, <1>4, FS_RemoveElement
<1>8. U \notin Bad
  BY <1>2, <1>7
<1>9. HasExtremes(U)
  BY <1>5, <1>6, <1>8
<1>10. PICK n \in U, l \in U : (\A m \in U : m <= n) /\ (\A m \in U : l <= m)
  BY <1>9 DEF HasExtremes
<1> HIDE DEF U, Bad
<1>11. n \in Int /\ l \in Int /\ \A m \in U : m \in Int
  BY <1>5
<1>12. \E i \in T : \A m \in T : m <= i
  BY <1>5, <1>10, <1>11
<1>13. \E i \in T : \A m \in T : i <= m
  BY <1>5, <1>10, <1>11
<1> QED BY <1>3, <1>12, <1>13 DEF HasExtremes, Bad

LEMMA MaxMember ==
  ASSUME NEW S, IsFiniteSet(S), S \subseteq Int, S # {}
  PROVE  Max(S) \in S /\ \A m \in S : m <= Max(S)
<1>1. PICK n \in S : \A m \in S : m <= n
  BY Extremes DEF HasExtremes
<1>2. \A m \in S : n >= m
  BY <1>1
<1>3. Max(S) \in S /\ \A m \in S : Max(S) >= m
  BY <1>1, <1>2 DEF Max
<1> QED BY <1>3

LEMMA MinMember ==
  ASSUME NEW S, IsFiniteSet(S), S \subseteq Int, S # {}
  PROVE  Min(S) \in S /\ \A m \in S : Min(S) <= m
<1>1. PICK n \in S : \A m \in S : n <= m
  BY Extremes DEF HasExtremes
<1> QED BY <1>1 DEF Min

(* The values of a function on a finite set are finitely many.             *)
LEMMA ImageOfFinite ==
  ASSUME NEW S, IsFiniteSet(S), NEW I, NEW f \in [S -> I],
         \A y \in I : \E x \in S : y = f[x]
  PROVE  IsFiniteSet(I)
<1>1. f \in Surjection(S, I)
  BY DEF Surjection
<1> QED BY <1>1, FS_Surjection

(* Numbers given in the order of distinct integers are distinct, and none  *)
(* is beyond their number.                                                 *)
LEMMA RanksDiffer ==
  ASSUME NEW A, IsFiniteSet(A), NEW day, \A a \in A : day[a] \in Int,
         \A a, b \in A : day[a] = day[b] => a = b
  PROVE  LET rank(a) == Cardinality({b \in A : day[b] <= day[a]})
         IN  /\ \A a \in A : rank(a) \in 1 .. Cardinality(A)
             /\ \A a, b \in A : rank(a) = rank(b) => a = b
<1> DEFINE Upto(a) == {b \in A : day[b] <= day[a]}
           rank(a) == Cardinality(Upto(a))
<1>1. \A T \in SUBSET A : /\ IsFiniteSet(T) /\ Cardinality(T) \in Nat
                          /\ Cardinality(T) <= Cardinality(A)
  BY FS_Subset, FS_CardinalityType
<1>2. ASSUME NEW a \in A PROVE rank(a) \in 1 .. Cardinality(A)
  <2>1. a \in Upto(a) /\ Upto(a) \in SUBSET A
    OBVIOUS
  <2>2. rank(a) # 0
    <3> DEFINE U == Upto(a)
    <3>1. IsFiniteSet(U) /\ U # {}
      BY <1>1, <2>1
    <3> HIDE DEF U
    <3>2. Cardinality(U) # 0
      BY <3>1, FS_EmptySet
    <3> QED BY <3>2 DEF U
  <2>3. rank(a) \in Nat /\ rank(a) <= Cardinality(A) /\ Cardinality(A) \in Nat
    BY <1>1, <2>1
  <2> HIDE DEF rank
  <2> QED BY <2>2, <2>3
<1>3. ASSUME NEW a \in A, NEW b \in A, day[a] < day[b] PROVE rank(a) < rank(b)
  <2> DEFINE U == Upto(a)
             V == Upto(b)
  <2>1. U \subseteq V /\ b \in V /\ b \notin U /\ V \in SUBSET A
    <3>1. \A c \in A : day[c] <= day[a] => day[c] <= day[b]
      BY <1>3
    <3>2. ~ (day[b] <= day[a]) /\ day[b] <= day[b]
      BY <1>3
    <3> QED BY <3>1, <3>2
  <2>2. IsFiniteSet(V) /\ IsFiniteSet(U)
    BY <1>1, <2>1
  <2> HIDE DEF U, V
  <2>3. /\ U \in SUBSET (V \ {b}) /\ IsFiniteSet(V \ {b})
        /\ Cardinality(V \ {b}) = Cardinality(V) - 1
    BY <2>1, <2>2, FS_RemoveElement
  <2>4. Cardinality(U) <= Cardinality(V) - 1
    BY <2>3, FS_Subset
  <2>5. Cardinality(U) \in Nat /\ Cardinality(V) \in Nat
    BY <2>2, FS_CardinalityType
  <2>6. Cardinality(U) < Cardinality(V)
    BY <2>4, <2>5
  <2> QED BY <2>6 DEF U, V
<1>4. ASSUME NEW a \in A, NEW b \in A, rank(a) = rank(b) PROVE a = b
  <2>1. rank(a) \in Int /\ day[a] \in Int /\ day[b] \in Int
    BY <1>2
  <2> HIDE DEF rank
  <2>2. ~ (day[a] < day[b]) /\ ~ (day[b] < day[a])
    BY <1>3, <1>4, <2>1
  <2> QED BY <2>1, <2>2
<1> QED BY <1>2, <1>4


(***************************************************************************)
(* Sums over finite sets.  The folds of the library are recursive: that    *)
(* one of them is what its equation says, and that the order in which it   *)
(* picks does not matter, are inductions on the size of the set.           *)
(***************************************************************************)
PickOf(s) == CHOOSE x \in s : TRUE

(* g sums f over every set in D, one picked member after the other.        *)
Sums(g, f, D) ==
  g = [s \in D |-> IF s = {} THEN 0 ELSE f[PickOf(s)] + g[s \ {PickOf(s)}]]

SumOf(f, S) == MapThenSumSet(LAMBDA x : f[x], S)

LEMMA Picked == \A s : s # {} => PickOf(s) \in s
BY DEF PickOf

(* An induction on sizes: what holds of a set when it holds of all smaller *)
(* subsets of S holds of all of them.  Q is the set of those it holds of.  *)
LEMMA BySize ==
  ASSUME NEW S, IsFiniteSet(S), NEW Q,
         \A T \in SUBSET S :
           (\A U \in SUBSET S : Cardinality(U) < Cardinality(T) => U \in Q) => T \in Q
  PROVE  SUBSET S \subseteq Q
<1> DEFINE Bad == {T \in SUBSET S : T \notin Q}
           Sizes == {Cardinality(T) : T \in Bad}
<1> SUFFICES ASSUME Bad # {} PROVE FALSE
  OBVIOUS
<1>1. \A T \in SUBSET S : Cardinality(T) \in Nat
  BY FS_Subset, FS_CardinalityType
<1>2. PICK k \in Sizes : \A j \in Sizes : k <= j
  <2>1. Sizes \subseteq Nat /\ Sizes # {}
    BY <1>1
  <2> HIDE DEF Sizes
  <2> QED BY <2>1, Least
<1>3. PICK T \in Bad : k = Cardinality(T)
  BY <1>2
<1>4. \A U \in SUBSET S : Cardinality(U) < k => U \in Q
  <2> SUFFICES ASSUME NEW U \in SUBSET S, Cardinality(U) < k, U \notin Q
               PROVE  FALSE
    OBVIOUS
  <2>1. k <= Cardinality(U) /\ k \in Nat /\ Cardinality(U) \in Nat
    BY <1>1, <1>2, <1>3
  <2> QED BY <2>1
<1> QED BY <1>3, <1>4

LEMMA Smaller ==
  ASSUME NEW S, IsFiniteSet(S), NEW T \in SUBSET S, NEW x \in T
  PROVE  /\ T \ {x} \in SUBSET S /\ IsFiniteSet(T) /\ IsFiniteSet(T \ {x})
         /\ Cardinality(T \ {x}) \in Nat /\ Cardinality(T) \in Nat
         /\ Cardinality(T) = Cardinality(T \ {x}) + 1
         /\ Cardinality(T \ {x}) < Cardinality(T)
<1>1. IsFiniteSet(T)
  BY FS_Subset
<1>2. IsFiniteSet(T \ {x}) /\ Cardinality(T \ {x}) = Cardinality(T) - 1
  BY <1>1, FS_RemoveElement
<1>3. Cardinality(T \ {x}) \in Nat /\ Cardinality(T) \in Nat
  BY <1>1, <1>2, FS_CardinalityType
<1> QED BY <1>1, <1>2, <1>3

(* The recursion has a solution: one for the sets of n members at most can *)
(* be extended to those of n + 1.                                          *)
LEMMA SumsExist ==
  ASSUME NEW S, IsFiniteSet(S), NEW f
  PROVE  \E g : Sums(g, f, SUBSET S)
<1> DEFINE Upto(n) == {T \in SUBSET S : Cardinality(T) <= n}
           Bad == {n \in Nat : ~ \E g : Sums(g, f, Upto(n))}
<1>1. \A T \in SUBSET S : /\ IsFiniteSet(T) /\ Cardinality(T) \in Nat
                          /\ Cardinality(T) <= Cardinality(S)
  BY FS_Subset, FS_CardinalityType
<1>2. \A T \in SUBSET S : T # {} =>
        /\ T \ {PickOf(T)} \in SUBSET S
        /\ Cardinality(T \ {PickOf(T)}) = Cardinality(T) - 1
  <2> SUFFICES ASSUME NEW T \in SUBSET S, NEW c \in T
               PROVE  /\ T \ {c} \in SUBSET S
                      /\ Cardinality(T \ {c}) = Cardinality(T) - 1
    BY Picked
  <2>1. /\ T \ {c} \in SUBSET S /\ Cardinality(T \ {c}) \in Nat
        /\ Cardinality(T) \in Nat /\ Cardinality(T) = Cardinality(T \ {c}) + 1
    BY Smaller
  <2> QED BY <2>1
<1>3. 0 \notin Bad
  <2> DEFINE g == [s \in Upto(0) |-> 0]
  <2>1. \A s \in Upto(0) : s = {}
    <3>1. \A s \in Upto(0) : IsFiniteSet(s) /\ Cardinality(s) = 0
      BY <1>1
    <3> QED BY <3>1, FS_EmptySet
  <2>2. Sums(g, f, Upto(0))
    BY <2>1 DEF Sums
  <2> QED BY <2>2
<1>4. ASSUME NEW n \in Nat, n \notin Bad PROVE n + 1 \notin Bad
  <2>1. PICK g : Sums(g, f, Upto(n))
    BY <1>4
  <2> DEFINE val(h, s) == IF s = {} THEN 0 ELSE f[PickOf(s)] + h[s \ {PickOf(s)}]
             h == [s \in Upto(n + 1) |-> IF s \in Upto(n) THEN g[s] ELSE val(g, s)]
  <2>2. \A s \in Upto(n + 1) : s # {} =>
          s \ {PickOf(s)} \in Upto(n) /\ s \ {PickOf(s)} \in Upto(n + 1)
    <3> SUFFICES ASSUME NEW s \in Upto(n + 1), s # {}
                 PROVE  s \ {PickOf(s)} \in Upto(n) /\ s \ {PickOf(s)} \in Upto(n + 1)
      OBVIOUS
    <3>1. /\ s \ {PickOf(s)} \in SUBSET S /\ Cardinality(s) \in Nat
          /\ Cardinality(s \ {PickOf(s)}) = Cardinality(s) - 1
      BY <1>1, <1>2
    <3> QED BY <3>1
  <2>3. \A s \in Upto(n + 1) : val(h, s) = val(g, s)
    BY <2>2
  <2>4. \A s \in Upto(n) : g[s] = val(g, s)
    BY <2>1 DEF Sums
  <2>5. \A s \in Upto(n + 1) : h[s] = val(h, s)
    BY <2>3, <2>4
  <2>6. h = [s \in Upto(n + 1) |-> h[s]]
    OBVIOUS
  <2> HIDE DEF h
  <2>7. Sums(h, f, Upto(n + 1))
    BY <2>5, <2>6 DEF Sums
  <2> QED BY <2>7
<1>5. Bad = {}
  <2> SUFFICES ASSUME Bad # {} PROVE FALSE
    OBVIOUS
  <2>1. PICK n \in Bad : \A m \in Bad : n <= m
    <3>1. Bad \subseteq Nat
      OBVIOUS
    <3> HIDE DEF Bad
    <3> QED BY <3>1, Least
  <2>2. n # 0 /\ n \in Nat
    BY <1>3, <2>1
  <2> HIDE DEF Bad
  <2>3. n - 1 \in Nat /\ (n - 1) + 1 = n /\ ~ (n <= n - 1)
    BY <2>2
  <2>4. n - 1 \notin Bad
    BY <2>1, <2>3
  <2> QED BY <1>4, <2>1, <2>3, <2>4
<1>6. SUBSET S = Upto(Cardinality(S)) /\ Cardinality(S) \in Nat
  BY <1>1
<1>7. \E g : Sums(g, f, Upto(Cardinality(S)))
  BY <1>5, <1>6
<1> HIDE DEF Upto
<1> QED BY <1>6, <1>7

LEMMA SumsUnique ==
  ASSUME NEW S, IsFiniteSet(S), NEW f, NEW g, NEW h,
         Sums(g, f, SUBSET S), Sums(h, f, SUBSET S)
  PROVE  g = h
<1> DEFINE Q == {T \in SUBSET S : g[T] = h[T]}
<1>1. ASSUME NEW T \in SUBSET S,
             \A U \in SUBSET S : Cardinality(U) < Cardinality(T) => U \in Q
      PROVE  T \in Q
  <2>1. CASE T = {}
    BY <2>1 DEF Sums
  <2>2. CASE T # {}
    <3>1. ASSUME NEW c \in T PROVE T \ {c} \in Q
      <4>1. T \ {c} \in SUBSET S /\ Cardinality(T \ {c}) < Cardinality(T)
        BY Smaller
      <4> QED BY <1>1, <4>1
    <3>2. T \ {PickOf(T)} \in Q
      BY <2>2, <3>1, Picked
    <3> QED BY <2>2, <3>2 DEF Sums
  <2> QED BY <2>1, <2>2
<1>2. SUBSET S \subseteq Q
  <2> HIDE DEF Q
  <2> QED BY <1>1, BySize
<1>3. \A T \in SUBSET S : g[T] = h[T]
  BY <1>2
<1>4. g = [T \in SUBSET S |-> g[T]] /\ h = [T \in SUBSET S |-> h[T]]
  BY DEF Sums
<1> QED BY <1>3, <1>4

(* The fold is that solution.                                              *)
LEMMA SumsIsSum ==
  ASSUME NEW S, IsFiniteSet(S), NEW f, NEW g, Sums(g, f, SUBSET S)
  PROVE  SumOf(f, S) = g[S]
<1>1. \A h : Sums(h, f, SUBSET S) => h = g
  BY SumsUnique
<1> QED BY <1>1 DEF SumOf, MapThenSumSet, MapThenFoldSet, PickOf, Sums

(* A fold over a subset is the same solution.                              *)
LEMMA SumsOfSubsets ==
  ASSUME NEW S, IsFiniteSet(S), NEW f, NEW g, Sums(g, f, SUBSET S)
  PROVE  \A T \in SUBSET S : SumOf(f, T) = g[T]
<1> SUFFICES ASSUME NEW T \in SUBSET S PROVE SumOf(f, T) = g[T]
  OBVIOUS
<1> DEFINE h == [U \in SUBSET T |-> g[U]]
<1>1. Sums(h, f, SUBSET T)
  <2>1. ASSUME NEW U \in SUBSET T
        PROVE  h[U] = IF U = {} THEN 0 ELSE f[PickOf(U)] + h[U \ {PickOf(U)}]
    <3>1. g[U] = IF U = {} THEN 0 ELSE f[PickOf(U)] + g[U \ {PickOf(U)}]
      BY DEF Sums
    <3>2. U \ {PickOf(U)} \in SUBSET T
      OBVIOUS
    <3> QED BY <3>1, <3>2
  <2>2. h = [U \in SUBSET T |-> h[U]]
    OBVIOUS
  <2> HIDE DEF h
  <2> QED BY <2>1, <2>2 DEF Sums
<1>2. IsFiniteSet(T) /\ h[T] = g[T]
  BY FS_Subset
<1> HIDE DEF h
<1> QED BY <1>1, <1>2, SumsIsSum

(* What a sum is: nothing of nothing, and a member more is its value more. *)
LEMMA SumOfNone == ASSUME NEW f PROVE SumOf(f, {}) = 0
<1>1. IsFiniteSet({})
  BY FS_EmptySet
<1>2. PICK g : Sums(g, f, SUBSET {})
  BY <1>1, SumsExist
<1>3. g[{}] = 0
  BY <1>2 DEF Sums
<1> QED BY <1>1, <1>2, <1>3, SumsIsSum

LEMMA SumTakesOut ==
  ASSUME NEW S, IsFiniteSet(S), NEW f, \A x \in S : f[x] \in Int
  PROVE  \A T \in SUBSET S :
           /\ SumOf(f, T) \in Int
           /\ \A x \in T : SumOf(f, T) = f[x] + SumOf(f, T \ {x})
<1>1. PICK g : Sums(g, f, SUBSET S)
  BY SumsExist
<1> DEFINE Q == {T \in SUBSET S : g[T] \in Int /\ \A x \in T : g[T] = f[x] + g[T \ {x}]}
<1>2. ASSUME NEW T \in SUBSET S,
             \A U \in SUBSET S : Cardinality(U) < Cardinality(T) => U \in Q
      PROVE  T \in Q
  <2>1. CASE T = {}
    BY <1>1, <2>1 DEF Sums
  <2>2. CASE T # {}
    <3> DEFINE c == PickOf(T)
    <3>1. c \in T /\ g[T] = f[c] + g[T \ {c}]
      BY <1>1, <2>2, Picked DEF Sums
    <3> HIDE DEF c
    <3>2. T \ {c} \in Q
      BY <1>2, <3>1, Smaller
    <3>3. g[T] \in Int
      BY <3>1, <3>2
    <3>4. ASSUME NEW x \in T, x # c PROVE g[T] = f[x] + g[T \ {x}]
      <4>1. T \ {x} \in Q
        BY <1>2, Smaller
      <4>2. g[T \ {c}] = f[x] + g[(T \ {c}) \ {x}]
        BY <3>2, <3>4
      <4>3. g[T \ {x}] = f[c] + g[(T \ {x}) \ {c}]
        BY <3>1, <3>4, <4>1
      <4>4. (T \ {x}) \ {c} = (T \ {c}) \ {x}
        OBVIOUS
      <4>5. (T \ {c}) \ {x} \in Q
        <5> DEFINE V == T \ {c}
        <5>1. x \in V /\ V \in SUBSET S
          BY <3>4
        <5> HIDE DEF V
        <5>2. /\ V \ {x} \in SUBSET S
              /\ Cardinality(V \ {x}) \in Nat
              /\ Cardinality(V \ {x}) < Cardinality(V)
          BY <5>1, Smaller
        <5>3. Cardinality(T \ {c}) < Cardinality(T) /\ Cardinality(T) \in Nat
              /\ Cardinality(T \ {c}) \in Nat
          BY <3>1, Smaller
        <5>4. Cardinality(V \ {x}) < Cardinality(T)
          BY <5>2, <5>3 DEF V
        <5> QED BY <1>2, <5>2, <5>4 DEF V
      <4>6. /\ f[x] \in Int /\ f[c] \in Int /\ g[(T \ {c}) \ {x}] \in Int
            /\ g[T \ {c}] \in Int /\ g[T \ {x}] \in Int
        BY <3>1, <3>2, <4>1, <4>5
      <4>7. /\ g[T] = f[c] + g[T \ {c}]
            /\ g[T \ {x}] = f[c] + g[(T \ {c}) \ {x}]
        BY <3>1, <4>3, <4>4
      <4> QED BY <4>2, <4>6, <4>7
    <3> QED BY <3>1, <3>3, <3>4
  <2> QED BY <2>1, <2>2
<1>3. SUBSET S \subseteq Q
  <2> HIDE DEF Q
  <2> QED BY <1>2, BySize
<1>4. \A T \in SUBSET S : SumOf(f, T) = g[T]
  BY <1>1, SumsOfSubsets
<1>5. \A T \in SUBSET S : g[T] \in Int /\ \A x \in T : g[T] = f[x] + g[T \ {x}]
  BY <1>3
<1>6. \A T \in SUBSET S : \A x \in T : T \ {x} \in SUBSET S
  OBVIOUS
<1> HIDE DEF Q
<1> QED BY <1>4, <1>5, <1>6


(* A sum of naturals grows with the set, ...                               *)
LEMMA SumGrows ==
  ASSUME NEW S, IsFiniteSet(S), NEW f, \A x \in S : f[x] \in Nat
  PROVE  \A T \in SUBSET S :
           /\ SumOf(f, T) \in Nat
           /\ \A U \in SUBSET T : SumOf(f, U) <= SumOf(f, T)
<1>0. \A T \in SUBSET S :
        /\ SumOf(f, T) \in Int
        /\ \A x \in T : SumOf(f, T) = f[x] + SumOf(f, T \ {x})
  <2>1. \A x \in S : f[x] \in Int
    OBVIOUS
  <2> QED BY <2>1, SumTakesOut
<1> DEFINE Q == {T \in SUBSET S : /\ SumOf(f, T) \in Nat
                                  /\ \A U \in SUBSET T : SumOf(f, U) <= SumOf(f, T)}
<1>1. ASSUME NEW T \in SUBSET S,
             \A U \in SUBSET S : Cardinality(U) < Cardinality(T) => U \in Q
      PROVE  T \in Q
  <2>1. CASE T = {}
    <3>1. SumOf(f, T) = 0 /\ \A U \in SUBSET T : U = T
      BY <2>1, SumOfNone
    <3> QED BY <3>1
  <2>2. CASE T # {}
    <3>1. ASSUME NEW x \in T
          PROVE  /\ T \ {x} \in Q /\ SumOf(f, T \ {x}) <= SumOf(f, T)
                 /\ SumOf(f, T) \in Nat
      <4>1. T \ {x} \in Q
        BY <1>1, Smaller
      <4>2. f[x] \in Nat /\ SumOf(f, T \ {x}) \in Nat
        BY <4>1
      <4>3. SumOf(f, T) = f[x] + SumOf(f, T \ {x})
        BY <1>0
      <4> QED BY <4>1, <4>2, <4>3
    <3>2. ASSUME NEW U \in SUBSET T PROVE SumOf(f, U) <= SumOf(f, T)
      <4>1. CASE U = T
        <5>1. SumOf(f, T) \in Nat
          BY <2>2, <3>1
        <5> QED BY <4>1, <5>1
      <4>2. CASE U # T
        <5>1. PICK x \in T : x \notin U
          BY <4>2
        <5>2. /\ SumOf(f, U) <= SumOf(f, T \ {x})
              /\ SumOf(f, U) \in Nat /\ SumOf(f, T \ {x}) \in Nat
          <6>1. U \in SUBSET (T \ {x}) /\ T \ {x} \in Q
            BY <3>1, <5>1
          <6>2. U \in Q
            <7>1. /\ T \ {x} \in SUBSET S /\ IsFiniteSet(T \ {x})
                  /\ Cardinality(T \ {x}) < Cardinality(T)
                  /\ Cardinality(T \ {x}) \in Nat /\ Cardinality(T) \in Nat
              BY Smaller
            <7>2. Cardinality(U) <= Cardinality(T \ {x}) /\ Cardinality(U) \in Nat
              BY <6>1, <7>1, FS_Subset, FS_CardinalityType
            <7>3. Cardinality(U) < Cardinality(T)
              BY <7>1, <7>2
            <7> QED BY <1>1, <7>3
          <6> QED BY <6>1, <6>2
        <5> QED BY <3>1, <5>2
      <4> QED BY <4>1, <4>2
    <3> QED BY <2>2, <3>1, <3>2
  <2> QED BY <2>1, <2>2
<1>2. SUBSET S \subseteq Q
  <2> HIDE DEF Q
  <2> QED BY <1>1, BySize
<1> QED BY <1>2

(* ... and by what each new member brings.                                 *)
LEMMA SumGains ==
  ASSUME NEW S, IsFiniteSet(S), NEW f, \A x \in S : f[x] \in Nat,
         NEW T \in SUBSET S, NEW x \in S \ T
  PROVE  SumOf(f, T) + f[x] <= SumOf(f, S)
<1> DEFINE U == T \cup {x}
<1>1. U \in SUBSET S /\ x \in U /\ U \ {x} = T
  OBVIOUS
<1> HIDE DEF U
<1>2. SumOf(f, U) = f[x] + SumOf(f, U \ {x})
  <2>1. \A y \in S : f[y] \in Int
    OBVIOUS
  <2> QED BY <1>1, <2>1, SumTakesOut
<1>3. SumOf(f, U) <= SumOf(f, S) /\ SumOf(f, T) \in Nat /\ f[x] \in Nat
      /\ SumOf(f, S) \in Nat
  BY <1>1, SumGrows
<1> QED BY <1>1, <1>2, <1>3
=============================================================================
