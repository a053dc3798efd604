---------------------------- MODULE FiltersProofs ---------------------------
(***************************************************************************)
(* Proofs about the windows of the filters, for every size they may be     *)
(* given and all readings that are integers: a resize between two updates  *)
(* leaves a window that updates can write to, whose sum is exact, and that *)
(* holds the latest samples in the order in which they came; the median is *)
(* that of the latest samples.                                             *)
(***************************************************************************)
EXTENDS Filters, SequenceTheorems, FunctionTheorems, FiniteSetTheorems,
        WellFoundedInduction, TLAPS

Entries == Samples \cup {0}

LEMMA EntriesAreIntegers == Entries \subseteq Int
BY FilterAssumption DEF Entries

-----------------------------------------------------------------------------
(* Types                                                                    *)

\* The entry to write next is one of the window, and the first as long as the
\* window is not full.
FTypes ==
  /\ filter \in {"median", "average"}
  /\ size \in 0 .. MaxSize /\ cap \in 0 .. MaxSize /\ (size > 1 => cap > 1)
  /\ buffer \in Seq(Entries) /\ Len(buffer) <= cap
  /\ index \in Nat /\ (index = 0 \/ index < Len(buffer))
  /\ filled \in 0 .. cap
  /\ recent \in Seq(Samples) /\ Len(recent) <= MaxSize
  /\ since \in 0 .. Settled
  /\ filter = "median" => /\ cap = size /\ Len(buffer) = cap /\ filled <= Len(recent)
                          /\ filled < cap => index = filled
  /\ filter = "average" => /\ Len(buffer) # cap => index = 0
                           /\ Len(buffer) <= Len(recent) /\ filled = 0

\* The samples kept of the past are the latest ones.
LEMMA Watched ==
  ASSUME FTypes, NEW v \in Samples, Watch(v), MaxSize >= 1
  PROVE  /\ recent' \in Seq(Samples) /\ Len(recent') <= MaxSize
         /\ Len(recent') = IF Len(recent) < MaxSize THEN Len(recent) + 1 ELSE Len(recent)
         /\ recent'[Len(recent')] = v
         /\ \A d \in 1 .. Len(recent') - 1 :
              recent'[Len(recent') - d] = recent[Len(recent) + 1 - d]
         /\ since' \in 0 .. Settled
<1> DEFINE r == IF Len(recent) < MaxSize THEN recent ELSE Tail(recent)
<1>1. recent \in Seq(Samples) /\ Len(recent) \in Nat /\ Len(recent) <= MaxSize
  BY LenProperties DEF FTypes
<1>2. /\ r \in Seq(Samples)
      /\ Len(r) = IF Len(recent) < MaxSize THEN Len(recent) ELSE Len(recent) - 1
      /\ \A d \in 1 .. Len(r) : r[Len(r) + 1 - d] = recent[Len(recent) + 1 - d]
  <2>1. CASE Len(recent) < MaxSize
    BY <1>1, <2>1
  <2>2. CASE ~(Len(recent) < MaxSize)
    <3>1. recent # <<>>
      BY <1>1, <2>2, EmptySeq, FilterAssumption
    <3>2. /\ Tail(recent) \in Seq(Samples) /\ Len(Tail(recent)) = Len(recent) - 1
          /\ \A i \in 1 .. Len(Tail(recent)) : Tail(recent)[i] = recent[i + 1]
      BY <1>1, <3>1, HeadTailProperties
    <3>3. r = Tail(recent)
      BY <2>2
    <3> HIDE DEF r
    <3>4. ASSUME NEW d \in 1 .. Len(r)
          PROVE  r[Len(r) + 1 - d] = recent[Len(recent) + 1 - d]
      <4>1. Len(r) + 1 - d \in 1 .. Len(r) /\ (Len(r) + 1 - d) + 1 = Len(recent) + 1 - d
        BY <1>1, <3>2, <3>3
      <4> QED
        BY <3>2, <3>3, <4>1
    <3> QED
      BY <2>2, <3>2, <3>3, <3>4
  <2> QED
    BY <2>1, <2>2
<1>3. recent' = Append(r, v)
  BY DEF Watch
<1> HIDE DEF r
<1>4. /\ recent' \in Seq(Samples) /\ Len(recent') = Len(r) + 1
      /\ recent'[Len(r) + 1] = v /\ \A i \in 1 .. Len(r) : recent'[i] = r[i]
      /\ Len(r) \in Nat
  BY <1>2, <1>3
<1>5. ASSUME NEW d \in 1 .. Len(recent') - 1
      PROVE  recent'[Len(recent') - d] = recent[Len(recent) + 1 - d]
  <2>1. d \in 1 .. Len(r) /\ Len(recent') - d = Len(r) + 1 - d /\ Len(r) + 1 - d \in 1 .. Len(r)
    BY <1>4
  <2> QED
    BY <1>2, <1>4, <2>1
<1>6. since' \in 0 .. Settled
  BY FilterAssumption DEF Watch, FTypes, Settled
<1> QED
  BY <1>1, <1>2, <1>4, <1>5, <1>6, FilterAssumption

LEMMA RotateEntries ==
  ASSUME NEW S, NEW s \in Seq(S), NEW k \in 0 .. Len(s)
  PROVE  /\ Rotate(s, k) \in Seq(S) /\ Len(Rotate(s, k)) = Len(s)
         /\ \A i \in 1 .. Len(s) :
              Rotate(s, k)[i] = IF i <= Len(s) - k THEN s[i + k] ELSE s[i + k - Len(s)]
<1> DEFINE a == SubSeq(s, k + 1, Len(s))
           b == SubSeq(s, 1, k)
<1>1. Len(s) \in Nat /\ \A i \in 1 .. Len(s) : s[i] \in S
  BY LenProperties, ElementOfSeq
<1>2. /\ a \in Seq(S) /\ Len(a) = Len(s) - k
      /\ \A i \in 1 .. Len(s) - k : a[i] = s[i + k]
  <2>1. \A i \in k + 1 .. Len(s) : s[i] \in S
    BY <1>1
  <2>2. /\ a \in Seq(S) /\ Len(a) = IF k + 1 <= Len(s) THEN Len(s) - (k + 1) + 1 ELSE 0
        /\ \A i \in 1 .. Len(s) - (k + 1) + 1 : a[i] = s[k + 1 + i - 1]
    BY <1>1, <2>1, SubSeqProperties
  <2> QED
    BY <1>1, <2>2
<1>3. b \in Seq(S) /\ Len(b) = k /\ \A i \in 1 .. k : b[i] = s[i]
  <2>1. \A i \in 1 .. k : s[i] \in S
    BY <1>1
  <2>2. /\ b \in Seq(S) /\ Len(b) = IF 1 <= k THEN k - 1 + 1 ELSE 0
        /\ \A i \in 1 .. k - 1 + 1 : b[i] = s[1 + i - 1]
    BY <1>1, <2>1, SubSeqProperties
  <2> QED
    BY <1>1, <2>2
<1> HIDE DEF a, b
<1>4. /\ a \o b \in Seq(S) /\ Len(a \o b) = Len(s)
      /\ \A i \in 1 .. Len(s) : (a \o b)[i] = IF i <= Len(s) - k THEN a[i] ELSE b[i - (Len(s) - k)]
  BY <1>1, <1>2, <1>3, ConcatProperties
<1>5. ASSUME NEW i \in 1 .. Len(s)
      PROVE  (a \o b)[i] = IF i <= Len(s) - k THEN s[i + k] ELSE s[i + k - Len(s)]
  <2>1. CASE i <= Len(s) - k
    BY <1>1, <1>2, <1>4, <2>1
  <2>2. CASE ~(i <= Len(s) - k)
    <3>1. i - (Len(s) - k) \in 1 .. k /\ i - (Len(s) - k) = i + k - Len(s)
      BY <1>1, <2>2
    <3> QED
      BY <1>3, <1>4, <2>2, <3>1
  <2> QED
    BY <2>1, <2>2
<1> QED
  BY <1>4, <1>5 DEF Rotate, a, b

-----------------------------------------------------------------------------
(* The sum of a sequence                                                    *)

Below == {ab \in Nat \X Nat : ab[1] < ab[2]}

\* A set of natural numbers has a least one: what induction is made of here.
LEMMA LeastNatural ==
  ASSUME NEW S, S \subseteq Nat, S # {}
  PROVE  \E n \in S : \A m \in S : n <= m
<1>1. IsWellFoundedOn(Below, Nat)
  BY NatLessThanWellFounded, Zenon DEF OpToRel, Below
<1>2. PICK n \in S : \A m \in S : ~(<<m, n>> \in Below)
  BY <1>1, WFMin, Zenon
<1>3. ASSUME NEW a \in Nat, NEW b \in Nat, a < b
      PROVE  <<a, b>> \in Below
  <2>1. <<a, b>> \in Nat \X Nat /\ <<a, b>>[1] = a /\ <<a, b>>[2] = b
    OBVIOUS
  <2> QED
    BY <2>1, <1>3, Zenon DEF Below
<1>4. \A m \in S : ~(m < n)
  BY <1>2, <1>3, Zenon
<1> QED
  BY <1>4

\* The sums of the first entries of s.
Totals(s, f) ==
  /\ f \in [0 .. Len(s) -> Int] /\ f[0] = 0
  /\ \A n \in 1 .. Len(s) : f[n] = f[n - 1] + s[n]

LEMMA TotalsExist ==
  ASSUME NEW s \in Seq(Int)
  PROVE  \E f : Totals(s, f)
<1> DEFINE Partial(n, f) == /\ f \in [0 .. n -> Int] /\ f[0] = 0
                            /\ \A k \in 1 .. n : f[k] = f[k - 1] + s[k]
           Bad == {n \in 0 .. Len(s) : ~ \E f : Partial(n, f)}
<1>0. Len(s) \in Nat /\ \A k \in 1 .. Len(s) : s[k] \in Int
  BY LenProperties, ElementOfSeq
<1>1. ASSUME NEW n \in 1 .. Len(s), NEW g, Partial(n - 1, g)
      PROVE  \E f : Partial(n, f)
  <2> DEFINE f == [k \in 0 .. n |-> IF k = n THEN g[n - 1] + s[n] ELSE g[k]]
  <2>1. f \in [0 .. n -> Int]
    <3>1. \A k \in 0 .. n : (IF k = n THEN g[n - 1] + s[n] ELSE g[k]) \in Int
      BY <1>0, <1>1
    <3> QED
      BY <3>1
  <2>2. f[0] = 0
    BY <1>1
  <2>3. \A k \in 1 .. n : f[k] = f[k - 1] + s[k]
    BY <1>1
  <2> QED
    BY <2>1, <2>2, <2>3
<1>2. 0 \notin Bad
  <2>1. Partial(0, [k \in 0 .. 0 |-> 0])
    OBVIOUS
  <2> QED
    BY <2>1
<1>3. Bad = {}
  <2> SUFFICES ASSUME Bad # {} PROVE FALSE
    OBVIOUS
  <2>1. PICK n \in Bad : \A m \in Bad : n <= m
    <3>1. Bad \subseteq Nat
      BY <1>0
    <3> HIDE DEF Bad
    <3> QED
      BY <3>1, LeastNatural
  <2> HIDE DEF Partial
  <2>2. n \in 0 .. Len(s) /\ n # 0
    BY <1>2
  <2>3. n \in 1 .. Len(s) /\ n - 1 \in 0 .. Len(s)
    BY <1>0, <2>2
  <2>4. n - 1 \notin Bad
    <3>1. ~(n <= n - 1)
      BY <2>3
    <3> HIDE DEF Bad
    <3> QED
      BY <2>1, <3>1
  <2>5. PICK g : Partial(n - 1, g)
    BY <2>3, <2>4
  <2>6. \E f : Partial(n, f)
    BY <1>1, <2>3, <2>5
  <2> QED
    BY <2>6
<1>4. \E f : Partial(Len(s), f)
  <2> HIDE DEF Partial
  <2>1. Len(s) \in 0 .. Len(s)
    BY <1>0
  <2> QED
    BY <1>3, <2>1
<1> QED
  BY <1>4 DEF Totals

LEMMA TotalsUnique ==
  ASSUME NEW s \in Seq(Int), NEW f, Totals(s, f),
         NEW g, g = [n \in 0 .. Len(s) |-> IF n = 0 THEN 0 ELSE g[n - 1] + s[n]]
  PROVE  g[Len(s)] = f[Len(s)]
<1> DEFINE Bad == {n \in 0 .. Len(s) : g[n] # f[n]}
<1>0. Len(s) \in Nat
  BY LenProperties
<1>1. \A n \in 1 .. Len(s) : n - 1 \in 0 .. Len(s) /\ g[n] = g[n - 1] + s[n]
  BY <1>0
<1>2. g[0] = 0
  BY <1>0
<1>3. Bad = {}
  <2> SUFFICES ASSUME Bad # {} PROVE FALSE
    OBVIOUS
  <2>1. PICK n \in Bad : \A m \in Bad : n <= m
    <3>1. Bad \subseteq Nat
      BY <1>0
    <3> HIDE DEF Bad
    <3> QED
      BY <3>1, LeastNatural
  <2>2. n \in 1 .. Len(s) /\ g[n - 1] = f[n - 1]
    BY <1>0, <1>2, <2>1 DEF Totals
  <2> QED
    BY <1>1, <2>1, <2>2 DEF Totals
<1> QED
  BY <1>0, <1>3

LEMMA SumIsTotal ==
  ASSUME NEW s \in Seq(Int), NEW f, Totals(s, f)
  PROVE  Sum(s) = f[Len(s)]
<1> DEFINE P(g) == g = [n \in 0 .. Len(s) |-> IF n = 0 THEN 0 ELSE g[n - 1] + s[n]]
           total == CHOOSE g : P(g)
<1>0. Len(s) \in Nat
  BY LenProperties
<1>1. P(f)
  <2>1. f = [n \in 0 .. Len(s) |-> f[n]]
    BY DEF Totals
  <2>2. \A n \in 0 .. Len(s) : f[n] = IF n = 0 THEN 0 ELSE f[n - 1] + s[n]
    BY <1>0 DEF Totals
  <2> QED
    BY <2>1, <2>2
<1>2. P(total)
  <2>1. \E g : P(g)
    BY <1>1
  <2> HIDE DEF P
  <2> QED
    BY <2>1
<1>3. Sum(s) = total[Len(s)]
  BY DEF Sum
<1>4. total[Len(s)] = f[Len(s)]
  <2> HIDE DEF total
  <2> QED
    BY <1>2, TotalsUnique
<1> QED
  BY <1>3, <1>4

LEMMA SumConcat ==
  ASSUME NEW s \in Seq(Int), NEW t \in Seq(Int)
  PROVE  Sum(s) \in Int /\ Sum(t) \in Int /\ Sum(s \o t) = Sum(s) + Sum(t)
<1>1. PICK f : Totals(s, f)
  BY TotalsExist
<1>2. PICK g : Totals(t, g)
  BY TotalsExist
<1> DEFINE m == Len(s)
           n == Len(t)
           h == [k \in 0 .. m + n |-> IF k <= m THEN f[k] ELSE f[m] + g[k - m]]
<1>3. /\ m \in Nat /\ n \in Nat /\ s \o t \in Seq(Int) /\ Len(s \o t) = m + n
      /\ \A k \in 1 .. m + n : (s \o t)[k] = IF k <= m THEN s[k] ELSE t[k - m]
  BY ConcatProperties, LenProperties
<1>4. /\ f \in [0 .. m -> Int] /\ f[0] = 0 /\ \A k \in 1 .. m : f[k] = f[k - 1] + s[k]
      /\ g \in [0 .. n -> Int] /\ g[0] = 0 /\ \A k \in 1 .. n : g[k] = g[k - 1] + t[k]
  BY <1>1, <1>2 DEF Totals
<1>5. Sum(s) = f[m] /\ Sum(t) = g[n]
  BY <1>1, <1>2, SumIsTotal
<1> HIDE DEF m, n
<1>6. Totals(s \o t, h)
  <2>1. h \in [0 .. m + n -> Int]
    <3>1. \A k \in 0 .. m + n : (IF k <= m THEN f[k] ELSE f[m] + g[k - m]) \in Int
      BY <1>3, <1>4
    <3> QED
      BY <3>1
  <2>2. h[0] = 0
    BY <1>3, <1>4
  <2>3. ASSUME NEW k \in 1 .. m + n
        PROVE  h[k] = h[k - 1] + (s \o t)[k]
    <3>1. CASE k <= m
      BY <1>3, <1>4, <3>1
    <3>2. CASE k > m
      <4>1. k - m \in 1 .. n /\ g[k - m] = g[(k - m) - 1] + t[k - m]
        BY <1>3, <1>4, <3>2
      <4>2. h[k] = f[m] + g[k - m] /\ h[k - 1] = f[m] + g[(k - m) - 1]
        <5>1. CASE k - 1 = m
          BY <1>3, <1>4, <3>2, <5>1
        <5>2. CASE k - 1 # m
          <6>1. k - 1 \in 0 .. m + n /\ ~(k - 1 <= m) /\ (k - 1) - m = (k - m) - 1
            BY <1>3, <3>2, <5>2
          <6> QED
            BY <1>3, <3>2, <6>1
        <5> QED
          BY <5>1, <5>2
      <4>3. (s \o t)[k] = t[k - m]
        BY <1>3, <3>2
      <4>4. f[m] \in Int /\ g[(k - m) - 1] \in Int
        BY <1>3, <1>4, <4>1
      <4>5. t[k - m] \in Int
        BY <4>1, ElementOfSeq DEF n
      <4> QED
        BY <4>1, <4>2, <4>3, <4>4, <4>5
    <3> QED
      BY <1>3, <3>1, <3>2
  <2> QED
    BY <1>3, <2>1, <2>2, <2>3 DEF Totals
<1>7. Sum(s \o t) = h[m + n]
  <2> HIDE DEF h
  <2> QED
    BY <1>3, <1>6, SumIsTotal
<1>8. h[m + n] = f[m] + g[n]
  BY <1>3, <1>4
<1>9. f[m] \in Int /\ g[n] \in Int
  BY <1>3, <1>4
<1> QED
  BY <1>5, <1>7, <1>8, <1>9

LEMMA SumOne ==
  ASSUME NEW x \in Int
  PROVE  Sum(<<x>>) = x
<1> DEFINE f == [n \in 0 .. 1 |-> IF n = 0 THEN 0 ELSE x]
<1>1. <<x>> \in Seq(Int) /\ Len(<<x>>) = 1 /\ <<x>>[1] = x
  OBVIOUS
<1>2. Totals(<<x>>, f)
  BY <1>1 DEF Totals
<1>3. f[1] = x
  OBVIOUS
<1> HIDE DEF f
<1> QED
  BY <1>1, <1>2, <1>3, SumIsTotal

LEMMA SumAppend ==
  ASSUME NEW s \in Seq(Int), NEW x \in Int
  PROVE  Sum(Append(s, x)) = Sum(s) + x
<1>1. <<x>> \in Seq(Int) /\ Append(s, x) = s \o <<x>>
  OBVIOUS
<1> QED
  BY <1>1, SumConcat, SumOne

LEMMA Cut ==
  ASSUME NEW s \in Seq(Int), NEW k \in 0 .. Len(s)
  PROVE  /\ SubSeq(s, 1, k) \in Seq(Int) /\ Len(SubSeq(s, 1, k)) = k
         /\ SubSeq(s, k + 1, Len(s)) \in Seq(Int)
         /\ Len(SubSeq(s, k + 1, Len(s))) = Len(s) - k
         /\ \A i \in 1 .. k : SubSeq(s, 1, k)[i] = s[i]
         /\ \A i \in 1 .. Len(s) - k : SubSeq(s, k + 1, Len(s))[i] = s[k + i]
         /\ s = SubSeq(s, 1, k) \o SubSeq(s, k + 1, Len(s))
<1> DEFINE a == SubSeq(s, 1, k)
           b == SubSeq(s, k + 1, Len(s))
<1>0. Len(s) \in Nat /\ \A i \in 1 .. Len(s) : s[i] \in Int
  BY LenProperties, ElementOfSeq
<1>1. a \in Seq(Int) /\ Len(a) = k /\ \A i \in 1 .. k : a[i] = s[i]
  <2>1. \A i \in 1 .. k : s[i] \in Int
    BY <1>0
  <2>2. /\ a \in Seq(Int) /\ Len(a) = IF 1 <= k THEN k - 1 + 1 ELSE 0
        /\ \A i \in 1 .. k - 1 + 1 : a[i] = s[1 + i - 1]
    BY <1>0, <2>1, SubSeqProperties
  <2> QED
    BY <1>0, <2>2
<1>2. b \in Seq(Int) /\ Len(b) = Len(s) - k /\ \A i \in 1 .. Len(s) - k : b[i] = s[k + i]
  <2>1. \A i \in k + 1 .. Len(s) : s[i] \in Int
    BY <1>0
  <2>2. /\ b \in Seq(Int) /\ Len(b) = IF k + 1 <= Len(s) THEN Len(s) - (k + 1) + 1 ELSE 0
        /\ \A i \in 1 .. Len(s) - (k + 1) + 1 : b[i] = s[k + 1 + i - 1]
    BY <1>0, <2>1, SubSeqProperties
  <2> QED
    BY <1>0, <2>2
<1> HIDE DEF a, b
<1>3. /\ a \o b \in Seq(Int) /\ Len(a \o b) = Len(s)
      /\ \A i \in 1 .. Len(s) : (a \o b)[i] = IF i <= k THEN a[i] ELSE b[i - k]
  <2>1. /\ a \o b \in Seq(Int) /\ Len(a \o b) = Len(a) + Len(b)
        /\ \A i \in 1 .. Len(a) + Len(b) :
             (a \o b)[i] = IF i <= Len(a) THEN a[i] ELSE b[i - Len(a)]
    BY <1>1, <1>2, ConcatProperties
  <2>2. Len(a) = k /\ Len(a) + Len(b) = Len(s)
    BY <1>0, <1>1, <1>2
  <2> QED
    BY <2>1, <2>2
<1>4. ASSUME NEW i \in 1 .. Len(s)
      PROVE  s[i] = (a \o b)[i]
  <2>1. CASE i <= k
    BY <1>0, <1>1, <1>3, <2>1
  <2>2. CASE ~(i <= k)
    <3>1. i - k \in 1 .. Len(s) - k /\ k + (i - k) = i
      BY <1>0, <2>2
    <3> QED
      BY <1>2, <1>3, <2>2, <3>1
  <2> QED
    BY <2>1, <2>2
<1>5. s = a \o b
  BY <1>3, <1>4, SeqEqual
<1> QED
  BY <1>1, <1>2, <1>5 DEF a, b

\* The order of the entries does not matter.
LEMMA SumRotate ==
  ASSUME NEW s \in Seq(Int), NEW k \in 0 .. Len(s)
  PROVE  Sum(Rotate(s, k)) = Sum(s)
<1> DEFINE a == SubSeq(s, 1, k)
           b == SubSeq(s, k + 1, Len(s))
<1>1. a \in Seq(Int) /\ b \in Seq(Int) /\ s = a \o b
  BY Cut
<1>2. Rotate(s, k) = b \o a
  BY DEF Rotate
<1> HIDE DEF a, b
<1>3. /\ Sum(a) \in Int /\ Sum(b) \in Int
      /\ Sum(s) = Sum(a) + Sum(b) /\ Sum(b \o a) = Sum(b) + Sum(a)
  BY <1>1, SumConcat
<1> QED
  BY <1>2, <1>3

LEMMA SumReplace ==
  ASSUME NEW s \in Seq(Int), NEW k \in 1 .. Len(s), NEW x \in Int
  PROVE  Sum([s EXCEPT ![k] = x]) = Sum(s) - s[k] + x
<1> DEFINE a == SubSeq(s, 1, k - 1)
           t(y) == [s EXCEPT ![k] = y]
<1>0. Len(s) \in Nat /\ s[k] \in Int /\ k - 1 \in 0 .. Len(s)
  BY LenProperties, ElementOfSeq
<1>1. a \in Seq(Int) /\ Len(a) = k - 1 /\ \A i \in 1 .. k - 1 : a[i] = s[i]
  BY <1>0, Cut
<1>2. SubSeq(s, k + 1, Len(s)) \in Seq(Int)
  BY <1>0, Cut
<1> DEFINE c == SubSeq(s, k + 1, Len(s))
<1>3. /\ c \in Seq(Int) /\ Len(c) = Len(s) - k
      /\ \A i \in 1 .. Len(s) - k : c[i] = s[k + i]
  BY <1>0, Cut
<1> HIDE DEF a, c
<1>4. ASSUME NEW y \in Int
      PROVE  t(y) = Append(a, y) \o c /\ Sum(t(y)) = (Sum(a) + y) + Sum(c)
  <2>1. /\ t(y) \in Seq(Int) /\ Len(t(y)) = Len(s)
        /\ \A i \in 1 .. Len(s) : t(y)[i] = IF i = k THEN y ELSE s[i]
    BY ExceptSeq
  <2> HIDE DEF t
  <2> DEFINE p == Append(a, y)
  <2>2. /\ p \in Seq(Int) /\ Len(p) = k /\ p[k] = y
        /\ \A i \in 1 .. k - 1 : p[i] = s[i]
    BY <1>0, <1>1
  <2> HIDE DEF p
  <2>3. /\ p \o c \in Seq(Int) /\ Len(p \o c) = Len(s)
        /\ \A i \in 1 .. Len(s) : (p \o c)[i] = IF i <= k THEN p[i] ELSE c[i - k]
    <3>1. /\ p \o c \in Seq(Int) /\ Len(p \o c) = Len(p) + Len(c)
          /\ \A i \in 1 .. Len(p) + Len(c) :
               (p \o c)[i] = IF i <= Len(p) THEN p[i] ELSE c[i - Len(p)]
      BY <1>3, <2>2, ConcatProperties
    <3>2. Len(p) = k /\ Len(p) + Len(c) = Len(s)
      BY <1>0, <1>3, <2>2
    <3> QED
      BY <3>1, <3>2
  <2>4. ASSUME NEW i \in 1 .. Len(s)
        PROVE  t(y)[i] = (p \o c)[i]
    <3>1. CASE i < k
      BY <1>0, <2>1, <2>2, <2>3, <3>1
    <3>2. CASE i = k
      BY <1>0, <2>1, <2>2, <2>3, <3>2
    <3>3. CASE i > k
      <4>1. i - k \in 1 .. Len(s) - k /\ k + (i - k) = i
        BY <1>0, <3>3
      <4>2. c[i - k] = s[i]
        BY <1>3, <4>1
      <4>3. ~(i <= k) /\ i # k
        BY <1>0, <3>3
      <4> QED
        BY <2>1, <2>3, <4>2, <4>3
    <3>4. i < k \/ i = k \/ i > k
      BY <1>0
    <3> QED
      BY <3>1, <3>2, <3>3, <3>4
  <2>5. t(y) = p \o c
    BY <2>1, <2>3, <2>4, SeqEqual
  <2>6. Sum(p \o c) = Sum(p) + Sum(c)
    BY <1>3, <2>2, SumConcat
  <2>7. Sum(p) = Sum(a) + y
    BY <1>1, SumAppend DEF p
  <2> QED
    BY <2>5, <2>6, <2>7 DEF p
<1>5. t(s[k]) = s
  <2>1. /\ t(s[k]) \in Seq(Int) /\ Len(t(s[k])) = Len(s)
        /\ \A i \in 1 .. Len(s) : t(s[k])[i] = s[i]
    BY <1>0, ExceptSeq
  <2> HIDE DEF t
  <2> QED
    BY <2>1, SeqEqual
<1>6. Sum(a) \in Int /\ Sum(c) \in Int
  BY <1>1, <1>3, SumConcat
<1>7. Sum(s) = (Sum(a) + s[k]) + Sum(c)
  BY <1>0, <1>4, <1>5
<1>8. Sum(t(x)) = (Sum(a) + x) + Sum(c)
  BY <1>4
<1> HIDE DEF t
<1>9. Sum(t(x)) = Sum(s) - s[k] + x
  BY <1>0, <1>6, <1>7, <1>8
<1> QED
  BY <1>9 DEF t

-----------------------------------------------------------------------------
(* Steps                                                                    *)

LEMMA ModRange ==
  ASSUME NEW x \in Int, NEW m \in Nat, m >= 1
  PROVE  x % m \in 0 .. m - 1
OBVIOUS

LEMMA UnsignedModRange ==
  ASSUME NEW k \in Nat, NEW n \in Nat, NEW m \in Nat, m >= 1
  PROVE  UnsignedMod(k, n, m) \in 0 .. m - 1
<1>1. PICK root \in Int : root = 65536 % m
  BY ModRange
<1>2. PICK wrap \in Int : wrap = root * root
  OBVIOUS
<1>3. (k - n) % m \in 0 .. m - 1 /\ (wrap + k - n) % m \in 0 .. m - 1
  BY ModRange
<1> QED
  BY <1>1, <1>2, <1>3 DEF UnsignedMod

\* The entry after this one, around the window.
LEMMA NextEntry ==
  ASSUME NEW i \in Nat, NEW m \in Nat, i < m
  PROVE  (i + 1) % m = IF i + 1 = m THEN 0 ELSE i + 1
OBVIOUS

LEMMA Sizes ==
  ASSUME FTypes
  PROVE  /\ MaxSize \in Nat /\ {size, cap, index, filled, Len(recent), Len(buffer)} \subseteq Nat
         /\ index <= Len(buffer)
         /\ \A i \in 1 .. Len(buffer) : buffer[i] \in Entries
         /\ buffer \in Seq(Int)
<1>1. MaxSize \in Nat
  BY FilterAssumption
<1>2. buffer \in Seq(Entries) /\ recent \in Seq(Samples)
  BY DEF FTypes
<1>3. Len(buffer) \in Nat /\ Len(recent) \in Nat /\ \A i \in 1 .. Len(buffer) : buffer[i] \in Entries
  BY <1>2, LenProperties, ElementOfSeq
<1>4. buffer \in Seq(Int)
  BY <1>2, EntriesAreIntegers, SeqMonotonic
<1> QED
  BY <1>1, <1>3, <1>4 DEF FTypes

LEMMA MedianUpdateTypes ==
  ASSUME FTypes, NEW v \in Samples, MedianUpdate(v)
  PROVE  FTypes'
<1>0. /\ filter = "median" /\ size > 1 /\ cap = size /\ Len(buffer) = cap /\ cap <= MaxSize
      /\ cap \in Nat /\ index \in Nat /\ index < cap /\ filled \in 0 .. cap
      /\ MaxSize \in Nat /\ Len(recent) \in Nat /\ filled <= Len(recent)
      /\ filled < cap => index = filled
  BY Sizes DEF MedianUpdate, FTypes
<1>1. /\ recent' \in Seq(Samples) /\ Len(recent') <= MaxSize /\ since' \in 0 .. Settled
      /\ Len(recent') = IF Len(recent) < MaxSize THEN Len(recent) + 1 ELSE Len(recent)
  BY <1>0, Watched DEF MedianUpdate
<1>2. buffer' \in Seq(Entries) /\ Len(buffer') = cap
  <2>1. buffer \in Seq(Entries) /\ index + 1 \in 1 .. Len(buffer) /\ v \in Entries
    BY <1>0 DEF FTypes, Entries
  <2> QED
    BY <1>0, <2>1, ExceptSeq DEF MedianUpdate
<1>3. /\ index' = IF index + 1 = cap THEN 0 ELSE index + 1
      /\ filled' = IF filled < cap THEN filled + 1 ELSE filled
      /\ UNCHANGED <<filter, size, cap>>
  BY <1>0, NextEntry DEF MedianUpdate
<1>4. /\ index' \in Nat /\ index' < cap /\ filled' \in 0 .. cap
      /\ filled' < cap => index' = filled'
  BY <1>0, <1>3
<1>5. filled' <= Len(recent')
  BY <1>0, <1>1, <1>3
<1> QED
  BY <1>0, <1>1, <1>2, <1>3, <1>4, <1>5 DEF FTypes

LEMMA MedianResizeTypes ==
  ASSUME FTypes, NEW n \in 0 .. MaxSize, MedianResize(n)
  PROVE  FTypes'
<1>1. n \in Nat /\ n <= MaxSize
  BY FilterAssumption
<1>2. buffer' \in Seq(Entries) /\ Len(buffer') = n
  <2>1. buffer' = [k \in 1 .. n |-> 0] /\ 0 \in Entries
    BY DEF MedianResize, Zeros, Entries
  <2> QED
    BY <1>1, <2>1
<1>3. recent' = <<>> /\ recent' \in Seq(Samples) /\ Len(recent') = 0
  BY EmptySeq DEF MedianResize
<1> QED
  BY <1>1, <1>2, <1>3, FilterAssumption DEF MedianResize, FTypes

LEMMA AverageUpdateTypes ==
  ASSUME FTypes, NEW v \in Samples, AverageUpdate(v)
  PROVE  FTypes'
<1>0. /\ filter = "average" /\ size > 1 /\ cap > 1 /\ cap <= MaxSize /\ Len(buffer) <= cap
      /\ Len(buffer) \in Nat /\ Len(recent) \in Nat /\ Len(buffer) <= Len(recent)
      /\ cap \in Nat /\ index \in Nat /\ MaxSize \in Nat /\ buffer \in Seq(Entries)
      /\ v \in Entries
  BY Sizes DEF AverageUpdate, FTypes, Entries
<1>1. /\ recent' \in Seq(Samples) /\ Len(recent') <= MaxSize /\ since' \in 0 .. Settled
      /\ Len(recent') = IF Len(recent) < MaxSize THEN Len(recent) + 1 ELSE Len(recent)
      /\ UNCHANGED <<filter, size, cap, filled>>
  BY <1>0, Watched DEF AverageUpdate
<1>2. CASE Len(buffer) = cap /\ buffer' = [buffer EXCEPT ![index + 1] = v]
           /\ index' = (index + 1) % cap
  <2>1. index < cap
    BY <1>0, <1>2 DEF FTypes
  <2>2. index' \in Nat /\ index' < cap
    BY <1>0, <1>2, <2>1, NextEntry
  <2>3. buffer' \in Seq(Entries) /\ Len(buffer') = cap
    <3>1. index + 1 \in 1 .. Len(buffer)
      BY <1>0, <1>2, <2>1
    <3> QED
      BY <1>0, <1>2, <3>1, ExceptSeq
  <2>4. cap <= Len(recent')
    BY <1>0, <1>1, <1>2
  <2> QED
    BY <1>0, <1>1, <2>2, <2>3, <2>4 DEF FTypes
<1>3. CASE Len(buffer) # cap /\ UNCHANGED index /\ buffer' = Append(buffer, v)
  <2>1. index = 0
    BY <1>0, <1>3 DEF FTypes
  <2>2. buffer' \in Seq(Entries) /\ Len(buffer') = Len(buffer) + 1
    BY <1>0, <1>3
  <2>3. Len(buffer') <= cap /\ Len(buffer') <= Len(recent')
    BY <1>0, <1>1, <1>3, <2>2
  <2> QED
    BY <1>0, <1>1, <1>3, <2>1, <2>2, <2>3 DEF FTypes
<1>4. ASSUME Len(buffer) = 0
      PROVE  <<v>> = Append(buffer, v)
  <2>1. buffer = <<>>
    BY <1>0, <1>4, EmptySeq
  <2> QED
    BY <2>1
<1> QED
  BY <1>2, <1>3, <1>4 DEF AverageUpdate

LEMMA AverageResizeTypes ==
  ASSUME FTypes, NEW n \in 0 .. MaxSize, AverageResize(n)
  PROVE  FTypes'
<1>0. /\ filter = "average" /\ size' = n /\ n \in Nat /\ n <= MaxSize /\ MaxSize \in Nat
      /\ cap \in Nat /\ cap <= MaxSize /\ index \in Nat /\ index <= Len(buffer)
      /\ Len(buffer) \in Nat /\ Len(buffer) <= cap /\ Len(buffer) <= Len(recent)
      /\ buffer \in Seq(Entries) /\ filled \in 0 .. cap /\ Len(recent) \in Nat
      /\ UNCHANGED <<filter, filled, out, recent>>
  BY Sizes DEF AverageResize, FTypes
<1>s. since' = Settled \/ since' = 0 => since' \in 0 .. Settled
  BY <1>0 DEF Settled
<1>f. filled = 0
  BY <1>0 DEF FTypes
<1>1. CASE Keep(n)
  <2>1. /\ cap' = n /\ Len(buffer) <= n /\ UNCHANGED <<buffer, index>>
        /\ Len(buffer) # n => index = 0
        /\ since' \in 0 .. Settled
    BY <1>0, <1>1, <1>s DEF Keep, FTypes
  <2> QED
    BY <1>0, <1>f, <2>1 DEF FTypes
<1>2. CASE Grow(n)
  <2>1. /\ cap' = n /\ Len(buffer) < n /\ index' = 0 /\ buffer' = Rotate(buffer, index)
        /\ since' \in 0 .. Settled
    BY <1>2, <1>s DEF Grow
  <2>2. buffer' \in Seq(Entries) /\ Len(buffer') = Len(buffer)
    BY <1>0, <2>1, RotateEntries
  <2> QED
    BY <1>0, <1>f, <2>1, <2>2 DEF FTypes
<1>3. CASE Shrink(n)
  <2> DEFINE k == UnsignedMod(index, n, Len(buffer))
  <2>1. /\ cap' = cap /\ n < Len(buffer) /\ index' = 0 /\ since' \in 0 .. Settled
        /\ buffer' = SubSeq(Rotate(buffer, k), 1, n)
    BY <1>3, <1>s DEF Shrink
  <2>2. k \in 0 .. Len(buffer)
    <3>1. Len(buffer) >= 1
      BY <1>0, <2>1
    <3>2. k \in 0 .. Len(buffer) - 1
      BY <1>0, <3>1, UnsignedModRange
    <3> HIDE DEF k
    <3> QED
      BY <1>0, <3>2
  <2> HIDE DEF k
  <2>3. Rotate(buffer, k) \in Seq(Entries) /\ Len(Rotate(buffer, k)) = Len(buffer)
    BY <1>0, <2>2, RotateEntries
  <2>4. buffer' \in Seq(Entries) /\ Len(buffer') = n
    <3>1. \A i \in 1 .. n : Rotate(buffer, k)[i] \in Entries
      BY <1>0, <2>1, <2>3, ElementOfSeq
    <3>2. /\ buffer' \in Seq(Entries)
          /\ Len(buffer') = IF 1 <= n THEN n - 1 + 1 ELSE 0
      BY <1>0, <2>1, <3>1, SubSeqProperties
    <3> QED
      BY <1>0, <3>2
  <2>5. n > 1 => cap > 1
    BY <1>0, <2>1
  <2>6. Len(buffer') <= cap /\ Len(buffer') <= Len(recent)
    BY <1>0, <2>1, <2>4
  <2> QED
    BY <1>0, <1>f, <2>1, <2>4, <2>5, <2>6 DEF FTypes
<1> QED
  BY <1>1, <1>2, <1>3 DEF AverageResize

LEMMA FTypesStep ==
  ASSUME FTypes, [FNext]_fvars
  PROVE  FTypes'
<1>1. CASE UNCHANGED fvars
  BY <1>1 DEF fvars, FTypes, Settled
<1> QED
  BY <1>1, MedianUpdateTypes, MedianResizeTypes, AverageUpdateTypes, AverageResizeTypes
  DEF FNext

LEMMA FTypesInit == FInit => FTypes
<1> HAVE FInit
<1>1. MaxSize \in Nat /\ size \in 0 .. MaxSize /\ cap = size /\ size \in Nat
  BY FilterAssumption DEF FInit
<1>2. /\ buffer \in Seq(Entries)
      /\ Len(buffer) = IF filter = "median" THEN size ELSE 0
  <2>1. Zeros(size) \in Seq(Entries) /\ Len(Zeros(size)) = size
    <3>1. Zeros(size) = [k \in 1 .. size |-> 0] /\ 0 \in Entries
      BY DEF Zeros, Entries
    <3> QED
      BY <1>1, <3>1
  <2> QED
    BY <2>1, EmptySeq DEF FInit
<1>3. recent \in Seq(Samples) /\ Len(recent) = 0
  BY EmptySeq DEF FInit
<1>4. since \in 0 .. Settled
  BY <1>1 DEF FInit, Settled
<1> QED
  BY <1>1, <1>2, <1>3, <1>4 DEF FInit, FTypes

\* Types, for windows of every size: an update finds a window to write to and
\* an entry of it at its index, whatever resizes came before.
THEOREM WindowsAreWritable == FSpec => []FTypeOK
<1>1. FTypes => FTypeOK
  <2> SUFFICES ASSUME FTypes PROVE FTypeOK
    OBVIOUS
  <2>1. cap \in Nat /\ Len(buffer) \in Nat
    BY Sizes
  <2>2. ASSUME size > 1, Len(buffer) = cap PROVE cap > 1 /\ index < Len(buffer)
    BY <2>1, <2>2 DEF FTypes
  <2> QED
    BY <2>2 DEF FTypes, FTypeOK, Entries
<1> QED
  BY <1>1, FTypesInit, FTypesStep, PTL DEF FSpec

-----------------------------------------------------------------------------
(* The running sum                                                          *)

LEMMA SumStep ==
  ASSUME FTypes, SumIsExact, [FNext]_fvars
  PROVE  SumIsExact'
<1>0. /\ buffer \in Seq(Int) /\ Len(buffer) \in Nat /\ index \in 0 .. Len(buffer)
      /\ cap \in Nat
  BY Sizes
<1>1. ASSUME NEW v \in Samples, AverageUpdate(v)
      PROVE  SumIsExact'
  <2>0. v \in Int /\ filter = "average" /\ val = Sum(buffer)
    BY <1>1, FilterAssumption DEF AverageUpdate, SumIsExact
  <2>1. CASE Len(buffer) = cap /\ val' = val - buffer[index + 1] + v
             /\ buffer' = [buffer EXCEPT ![index + 1] = v]
    <3>1. index + 1 \in 1 .. Len(buffer)
      BY <1>0, <1>1, <2>1 DEF FTypes, AverageUpdate
    <3> QED
      BY <1>0, <2>0, <2>1, <3>1, SumReplace DEF SumIsExact
  <2>2. CASE val' = val + v /\ buffer' = Append(buffer, v)
    BY <1>0, <2>0, <2>2, SumAppend DEF SumIsExact
  <2>3. CASE val' = v /\ buffer' = <<v>>
    BY <2>0, <2>3, SumOne DEF SumIsExact
  <2> QED
    BY <1>1, <2>1, <2>2, <2>3 DEF AverageUpdate
<1>2. ASSUME NEW n \in 0 .. MaxSize, AverageResize(n)
      PROVE  SumIsExact'
  <2>0. filter = "average" /\ filter' = filter /\ val = Sum(buffer)
    BY <1>2 DEF AverageResize, SumIsExact
  <2>1. CASE Keep(n)
    BY <2>0, <2>1 DEF Keep, SumIsExact
  <2>2. CASE Grow(n)
    BY <1>0, <2>0, <2>2, SumRotate DEF Grow, SumIsExact
  <2>3. CASE Shrink(n)
    BY <2>0, <2>3 DEF Shrink, SumIsExact
  <2> QED
    BY <1>2, <2>1, <2>2, <2>3 DEF AverageResize
<1>3. CASE filter' = "median"
  BY <1>3 DEF SumIsExact
<1>4. CASE UNCHANGED fvars
  BY <1>4 DEF fvars, SumIsExact
<1>5. CASE \/ \E v \in Samples : MedianUpdate(v)
           \/ \E n \in 0 .. MaxSize : MedianResize(n)
  BY <1>3, <1>5 DEF MedianUpdate, MedianResize
<1> QED
  BY <1>1, <1>2, <1>4, <1>5 DEF FNext

\* The running sum never drifts from the entries of the window: neither the
\* entry that is replaced, nor the rotation of a growing window, nor the
\* entries a shrinking one drops leave anything behind.
THEOREM SumStaysExact == FSpec => []SumIsExact
<1>1. FInit => SumIsExact
  <2> SUFFICES ASSUME FInit, filter = "average" PROVE Sum(<<>>) = 0
    BY DEF FInit, SumIsExact
  <2> DEFINE f == [n \in 0 .. 0 |-> 0]
  <2>1. <<>> \in Seq(Int) /\ Len(<<>>) = 0
    BY EmptySeq
  <2>2. Totals(<<>>, f) /\ f[0] = 0
    BY <2>1 DEF Totals
  <2> HIDE DEF f
  <2> QED
    BY <2>1, <2>2, SumIsTotal
<1>2. FTypes /\ SumIsExact /\ [FNext]_fvars => (FTypes /\ SumIsExact)'
  BY FTypesStep, SumStep
<1> QED
  BY <1>1, <1>2, FTypesInit, PTL DEF FSpec

-----------------------------------------------------------------------------
(* The latest samples                                                       *)

\* Where the sample d updates ago is, in a window of m entries that goes on
\* writing behind the first i.
Place(m, i, d) == IF d <= i THEN i + 1 - d ELSE m + i + 1 - d

\* The last k samples of r are in the window b.
Holds(b, i, r, k) ==
  \A d \in 1 .. k : b[Place(Len(b), i, d)] = r[Len(r) + 1 - d]

\* An update that replaces the oldest entry.
LEMMA ReplaceHolds ==
  ASSUME NEW b \in Seq(Int), NEW i \in Nat, i < Len(b), NEW v \in Int,
         NEW r \in Seq(Int), NEW k \in 0 .. Len(b), Holds(b, i, r, k), k <= Len(r),
         NEW q \in Seq(Int), q[Len(q)] = v,
         \A d \in 1 .. Len(q) - 1 : q[Len(q) - d] = r[Len(r) + 1 - d],
         NEW l \in Nat, l <= k + 1, l <= Len(b), l <= Len(q)
  PROVE  Holds([b EXCEPT ![i + 1] = v], (i + 1) % Len(b), q, l)
<1> DEFINE c == [b EXCEPT ![i + 1] = v]
           j == (i + 1) % Len(b)
<1>0. Len(b) \in Nat /\ Len(q) \in Nat /\ Len(r) \in Nat
  BY LenProperties
<1>1. /\ Len(c) = Len(b) /\ c[i + 1] = v
      /\ \A n \in 1 .. Len(b) : n # i + 1 => c[n] = b[n]
  <2>1. i + 1 \in 1 .. Len(b)
    BY <1>0
  <2> QED
    BY <2>1, ExceptSeq
<1>2. j = IF i + 1 = Len(b) THEN 0 ELSE i + 1
  BY <1>0, NextEntry
<1> HIDE DEF c, j
<1>3. ASSUME NEW d \in 1 .. l
      PROVE  c[Place(Len(b), j, d)] = q[Len(q) + 1 - d]
  <2>1. CASE d = 1
    <3>1. Place(Len(b), j, 1) = i + 1
      BY <1>0, <1>2 DEF Place
    <3>2. Len(q) + 1 - 1 = Len(q)
      BY <1>0
    <3> QED
      BY <1>1, <2>1, <3>1, <3>2
  <2>2. CASE d # 1
    <3>1. d - 1 \in 1 .. k /\ d - 1 \in 1 .. Len(q) - 1
      BY <1>0, <2>2
    <3>2. /\ Place(Len(b), j, d) = Place(Len(b), i, d - 1)
          /\ Place(Len(b), i, d - 1) \in 1 .. Len(b) /\ Place(Len(b), i, d - 1) # i + 1
      <4>1. d \in Nat /\ 2 <= d /\ d <= Len(b) /\ j \in Nat
        BY <1>0, <1>2, <2>2
      <4>2. PICK m \in Nat : m = Len(b)
        BY <1>0
      <4>3. j = IF i + 1 = m THEN 0 ELSE i + 1
        BY <1>2, <4>2
      <4>4. i < m /\ d <= m
        BY <4>1, <4>2
      <4>5. Place(m, j, d) = Place(m, i, d - 1)
        BY <4>1, <4>3, <4>4 DEF Place
      <4>6. Place(m, i, d - 1) \in 1 .. m /\ Place(m, i, d - 1) # i + 1
        BY <4>1, <4>3, <4>4 DEF Place
      <4> QED
        BY <4>2, <4>5, <4>6
    <3>3. b[Place(Len(b), i, d - 1)] = r[Len(r) + 1 - (d - 1)]
      BY <3>1 DEF Holds
    <3>4. q[Len(q) - (d - 1)] = r[Len(r) + 1 - (d - 1)]
      BY <3>1
    <3>5. Len(q) - (d - 1) = Len(q) + 1 - d
      BY <1>0
    <3> QED
      BY <1>1, <3>5, <3>2, <3>3, <3>4
  <2> QED
    BY <2>1, <2>2
<1>4. Holds(c, j, q, l)
  BY <1>1, <1>3 DEF Holds
<1> QED
  BY <1>4 DEF c, j

\* An update of a window that is not full yet.
LEMMA AppendHolds ==
  ASSUME NEW b \in Seq(Int), NEW v \in Int,
         NEW r \in Seq(Int), NEW k \in 0 .. Len(b), Holds(b, 0, r, k),
         NEW q \in Seq(Int), q[Len(q)] = v,
         \A d \in 1 .. Len(q) - 1 : q[Len(q) - d] = r[Len(r) + 1 - d],
         NEW l \in Nat, l <= k + 1, l <= Len(q)
  PROVE  Holds(Append(b, v), 0, q, l)
<1> DEFINE c == Append(b, v)
<1>0. Len(b) \in Nat /\ Len(q) \in Nat /\ Len(r) \in Nat
  BY LenProperties
<1>1. Len(c) = Len(b) + 1 /\ c[Len(b) + 1] = v /\ \A n \in 1 .. Len(b) : c[n] = b[n]
  OBVIOUS
<1> HIDE DEF c
<1>2. ASSUME NEW d \in 1 .. l
      PROVE  c[Place(Len(c), 0, d)] = q[Len(q) + 1 - d]
  <2>0. Place(Len(c), 0, d) = Len(b) + 2 - d
    BY <1>0, <1>1 DEF Place
  <2>1. CASE d = 1
    <3>1. Len(b) + 2 - d = Len(b) + 1 /\ Len(q) + 1 - d = Len(q)
      BY <1>0, <2>1
    <3> QED
      BY <1>1, <2>0, <3>1
  <2>2. CASE d # 1
    <3>1. d - 1 \in 1 .. k /\ d - 1 \in 1 .. Len(q) - 1
      BY <1>0, <2>2
    <3>2. /\ Place(Len(b), 0, d - 1) = Len(b) + 2 - d
          /\ Len(b) + 2 - d \in 1 .. Len(b)
      BY <1>0, <3>1 DEF Place
    <3>3. b[Len(b) + 2 - d] = r[Len(r) + 1 - (d - 1)]
      BY <3>1, <3>2 DEF Holds
    <3>4. q[Len(q) - (d - 1)] = r[Len(r) + 1 - (d - 1)]
      BY <3>1
    <3>5. Len(q) - (d - 1) = Len(q) + 1 - d
      BY <1>0
    <3> QED
      BY <1>1, <3>5, <2>0, <3>2, <3>3, <3>4
  <2> QED
    BY <2>1, <2>2
<1> QED
  BY <1>2 DEF Holds, c

LEMMA LatestEntries ==
  ASSUME NEW r \in Seq(Int), NEW n \in Nat, n <= Len(r)
  PROVE  /\ Latest(r, n) \in Seq(Int) /\ Len(Latest(r, n)) = n
         /\ DOMAIN Latest(r, n) = 1 .. n
         /\ \A x \in 1 .. n : Latest(r, n)[x] = r[Len(r) - n + x]
<1> DEFINE m == Len(r) - n + 1
<1>0. Len(r) \in Nat /\ \A x \in 1 .. Len(r) : r[x] \in Int
  BY LenProperties, ElementOfSeq
<1>1. m \in Int /\ \A x \in m .. Len(r) : r[x] \in Int
  BY <1>0
<1>2. /\ SubSeq(r, m, Len(r)) \in Seq(Int)
      /\ Len(SubSeq(r, m, Len(r))) = IF m <= Len(r) THEN Len(r) - m + 1 ELSE 0
      /\ \A x \in 1 .. Len(r) - m + 1 : SubSeq(r, m, Len(r))[x] = r[m + x - 1]
  BY <1>0, <1>1, SubSeqProperties
<1>3. /\ Len(r) - m + 1 = n /\ (m <= Len(r) <=> n # 0)
      /\ \A x \in 1 .. n : m + x - 1 = Len(r) - n + x
  BY <1>0
<1> HIDE DEF m
<1>4. Latest(r, n) = SubSeq(r, m, Len(r))
  BY DEF Latest, m
<1>5. Latest(r, n) \in Seq(Int) /\ Len(Latest(r, n)) = n
  BY <1>2, <1>3, <1>4
<1> QED
  BY <1>2, <1>3, <1>4, <1>5, LenProperties

\* A window that holds as many samples as it has entries is, from the oldest
\* entry on, what came last.
LEMMA FullWindow ==
  ASSUME NEW b \in Seq(Int), NEW i \in Nat, i <= Len(b), NEW r \in Seq(Int),
         Len(b) <= Len(r), Holds(b, i, r, Len(b))
  PROVE  Rotate(b, i) = Latest(r, Len(b))
<1>0. Len(b) \in Nat /\ Len(r) \in Nat /\ \A n \in 1 .. Len(r) : r[n] \in Int
  BY LenProperties, ElementOfSeq
<1>1. /\ Rotate(b, i) \in Seq(Int) /\ Len(Rotate(b, i)) = Len(b)
      /\ \A n \in 1 .. Len(b) :
           Rotate(b, i)[n] = IF n <= Len(b) - i THEN b[n + i] ELSE b[n + i - Len(b)]
  BY <1>0, RotateEntries
<1>2. /\ Latest(r, Len(b)) \in Seq(Int) /\ Len(Latest(r, Len(b))) = Len(b)
      /\ \A n \in 1 .. Len(b) : Latest(r, Len(b))[n] = r[Len(r) - Len(b) + n]
  BY <1>0, LatestEntries
<1>3. ASSUME NEW n \in 1 .. Len(b)
      PROVE  Rotate(b, i)[n] = Latest(r, Len(b))[n]
  <2> DEFINE d == Len(b) + 1 - n
  <2>1. d \in 1 .. Len(b) /\ Len(r) + 1 - d = Len(r) - Len(b) + n
    BY <1>0
  <2>2. Place(Len(b), i, d) = IF n <= Len(b) - i THEN n + i ELSE n + i - Len(b)
    BY <1>0 DEF Place
  <2> HIDE DEF d
  <2>3. b[Place(Len(b), i, d)] = r[Len(r) + 1 - d]
    BY <2>1 DEF Holds
  <2> QED
    BY <1>1, <1>2, <2>1, <2>2, <2>3
<1> QED
  BY <1>1, <1>2, <1>3, SeqEqual

\* What the windows hold, as far back as their entries are the latest samples.
WindowInv ==
  /\ filter = "median" => Holds(buffer, index, recent, filled)
  /\ filter = "average" =>
       \A k \in 0 .. Len(buffer) : k <= since => Holds(buffer, index, recent, k)

\* The hypotheses of the two lemmas above, in every step that takes a sample.
LEMMA Sampled ==
  ASSUME FTypes, NEW v \in Samples, Watch(v), size > 1
  PROVE  /\ v \in Int /\ recent \in Seq(Int) /\ recent' \in Seq(Int)
         /\ Len(recent) \in Nat /\ Len(recent') \in Nat /\ recent'[Len(recent')] = v
         /\ \A d \in 1 .. Len(recent') - 1 :
              recent'[Len(recent') - d] = recent[Len(recent) + 1 - d]
         /\ Len(recent') = IF Len(recent) < MaxSize THEN Len(recent) + 1 ELSE Len(recent)
         /\ since \in Nat /\ since' \in Nat /\ since' <= since + 1
<1>1. MaxSize \in Nat /\ MaxSize >= 1 /\ Samples \subseteq Int /\ recent \in Seq(Samples)
  BY FilterAssumption DEF FTypes
<1>2. /\ recent' \in Seq(Samples) /\ recent'[Len(recent')] = v
      /\ \A d \in 1 .. Len(recent') - 1 :
           recent'[Len(recent') - d] = recent[Len(recent) + 1 - d]
      /\ Len(recent') = IF Len(recent) < MaxSize THEN Len(recent) + 1 ELSE Len(recent)
  BY <1>1, Watched
<1>3. recent \in Seq(Int) /\ recent' \in Seq(Int)
  BY <1>1, <1>2, SeqMonotonic
<1>4. Len(recent) \in Nat /\ Len(recent') \in Nat
  BY <1>3, LenProperties
<1>5. since \in Nat /\ since' \in Nat /\ since' <= since + 1
  BY <1>1 DEF Watch, FTypes, Settled
<1> QED
  BY <1>1, <1>2, <1>3, <1>4, <1>5

LEMMA MedianUpdateWindow ==
  ASSUME FTypes, WindowInv, NEW v \in Samples, MedianUpdate(v)
  PROVE  WindowInv'
<1>0. /\ filter = "median" /\ filter' = "median" /\ cap = Len(buffer) /\ cap \in Nat
      /\ index \in Nat /\ index < cap /\ filled \in 0 .. cap /\ filled <= Len(recent)
      /\ buffer \in Seq(Int) /\ Holds(buffer, index, recent, filled) /\ MaxSize \in Nat
      /\ cap <= MaxSize /\ size > 1
  BY Sizes DEF MedianUpdate, FTypes, WindowInv
<1>1. /\ buffer' = [buffer EXCEPT ![index + 1] = v] /\ index' = (index + 1) % Len(buffer)
      /\ filled' = IF filled < cap THEN filled + 1 ELSE filled
      /\ Watch(v)
  BY <1>0 DEF MedianUpdate
<1>2. filled' \in Nat /\ filled' <= filled + 1 /\ filled' <= Len(buffer) /\ filled' <= Len(recent')
  <2>1. /\ Len(recent) \in Nat /\ Len(recent') \in Nat
        /\ Len(recent') = IF Len(recent) < MaxSize THEN Len(recent) + 1 ELSE Len(recent)
    BY <1>0, <1>1, Sampled
  <2>2. filled' \in Nat /\ filled' <= filled + 1 /\ filled' <= Len(buffer)
    BY <1>0, <1>1
  <2>3. filled' <= Len(recent')
    BY <1>0, <2>1, <2>2
  <2> QED
    BY <2>2, <2>3
<1>3. Holds(buffer', index', recent', filled')
  <2>1. /\ v \in Int /\ recent \in Seq(Int) /\ recent' \in Seq(Int)
        /\ recent'[Len(recent')] = v
        /\ \A d \in 1 .. Len(recent') - 1 :
             recent'[Len(recent') - d] = recent[Len(recent) + 1 - d]
    BY <1>0, <1>1, Sampled
  <2>2. Holds([buffer EXCEPT ![index + 1] = v], (index + 1) % Len(buffer), recent', filled')
    BY <1>0, <1>2, <2>1, ReplaceHolds
  <2> QED
    BY <1>1, <2>2
<1> QED
  BY <1>0, <1>3 DEF WindowInv

LEMMA AverageUpdateWindow ==
  ASSUME FTypes, WindowInv, NEW v \in Samples, AverageUpdate(v)
  PROVE  WindowInv'
<1>0. /\ filter = "average" /\ filter' = "average" /\ cap > 1 /\ cap \in Nat /\ size > 1
      /\ index \in Nat /\ Len(buffer) \in Nat /\ Len(buffer) <= cap /\ buffer \in Seq(Int)
      /\ Len(buffer) <= Len(recent) /\ MaxSize \in Nat /\ cap <= MaxSize
      /\ \A k \in 0 .. Len(buffer) : k <= since => Holds(buffer, index, recent, k)
      /\ Watch(v)
  BY Sizes DEF AverageUpdate, FTypes, WindowInv
<1>1. /\ v \in Int /\ recent \in Seq(Int) /\ recent' \in Seq(Int)
      /\ Len(recent) \in Nat /\ Len(recent') \in Nat /\ recent'[Len(recent')] = v
      /\ \A d \in 1 .. Len(recent') - 1 :
           recent'[Len(recent') - d] = recent[Len(recent) + 1 - d]
      /\ Len(recent') = IF Len(recent) < MaxSize THEN Len(recent) + 1 ELSE Len(recent)
      /\ since \in Nat /\ since' \in Nat /\ since' <= since + 1
  BY <1>0, Sampled
\* What the window held before, as far back as l needs it.
<1>2. ASSUME NEW l \in Nat, l <= Len(buffer) + 1, l <= since'
      PROVE  \E k \in 0 .. Len(buffer) : l <= k + 1 /\ Holds(buffer, index, recent, k)
  <2> DEFINE k == IF l = 0 THEN 0 ELSE l - 1
  <2>1. k \in 0 .. Len(buffer) /\ k <= since /\ l <= k + 1
    BY <1>0, <1>1, <1>2
  <2> QED
    BY <1>0, <2>1
<1>3. CASE Len(buffer) = cap /\ buffer' = [buffer EXCEPT ![index + 1] = v]
           /\ index' = (index + 1) % cap
  <2>1. index < Len(buffer) /\ index + 1 \in 1 .. Len(buffer)
    BY <1>0, <1>3 DEF FTypes
  <2>2. Len(buffer') = Len(buffer)
    BY <1>0, <1>3, <2>1, ExceptSeq
  <2>3. ASSUME NEW l \in 0 .. Len(buffer'), l <= since'
        PROVE  Holds(buffer', index', recent', l)
    <3>1. /\ l \in Nat /\ l <= Len(buffer) /\ l <= Len(buffer) + 1 /\ l <= Len(recent')
      BY <1>0, <1>1, <1>3, <2>2
    <3>2. PICK k \in 0 .. Len(buffer) : l <= k + 1 /\ Holds(buffer, index, recent, k)
      BY <1>2, <2>3, <3>1
    <3>3. k <= Len(recent)
      BY <1>0, <1>1
    <3>4. Holds([buffer EXCEPT ![index + 1] = v], (index + 1) % Len(buffer), recent', l)
      BY <1>0, <1>1, <2>1, <3>1, <3>2, <3>3, ReplaceHolds
    <3> QED
      BY <1>3, <3>4
  <2> QED
    BY <1>0, <2>3 DEF WindowInv
<1>4. CASE Len(buffer) # cap /\ UNCHANGED index /\ buffer' = Append(buffer, v)
  <2>1. index = 0 /\ index' = 0
    BY <1>0, <1>4 DEF FTypes
  <2>2. Len(buffer') = Len(buffer) + 1
    BY <1>0, <1>1, <1>4
  <2>3. ASSUME NEW l \in 0 .. Len(buffer'), l <= since'
        PROVE  Holds(buffer', index', recent', l)
    <3>1. l \in Nat /\ l <= Len(buffer) + 1 /\ l <= Len(recent')
      BY <1>0, <1>1, <1>4, <2>2
    <3>2. PICK k \in 0 .. Len(buffer) : l <= k + 1 /\ Holds(buffer, index, recent, k)
      BY <1>2, <2>3, <3>1
    <3>3. Holds(Append(buffer, v), 0, recent', l)
      BY <1>0, <1>1, <2>1, <3>1, <3>2, AppendHolds
    <3> QED
      BY <1>4, <2>1, <3>3
  <2> QED
    BY <1>0, <2>3 DEF WindowInv
<1>5. ASSUME Len(buffer) = 0
      PROVE  <<v>> = Append(buffer, v)
  <2>1. buffer = <<>>
    BY <1>0, <1>5, EmptySeq
  <2> QED
    BY <2>1
<1> QED
  BY <1>3, <1>4, <1>5 DEF AverageUpdate

\* A growing window moves its oldest entry to the front.
LEMMA RotateHolds ==
  ASSUME NEW b \in Seq(Int), NEW i \in 0 .. Len(b), NEW r \in Seq(Int),
         NEW k \in 0 .. Len(b), Holds(b, i, r, k)
  PROVE  Holds(Rotate(b, i), 0, r, k)
<1>0. Len(b) \in Nat
  BY LenProperties
<1>1. /\ Len(Rotate(b, i)) = Len(b)
      /\ \A n \in 1 .. Len(b) :
           Rotate(b, i)[n] = IF n <= Len(b) - i THEN b[n + i] ELSE b[n + i - Len(b)]
  BY RotateEntries
<1>2. ASSUME NEW d \in 1 .. k
      PROVE  Rotate(b, i)[Place(Len(b), 0, d)] = b[Place(Len(b), i, d)]
  <2>1. PICK n \in 1 .. Len(b) : n = Len(b) + 1 - d
    <3>1. Len(b) + 1 - d \in 1 .. Len(b)
      BY <1>0
    <3> QED
      BY <3>1
  <2>2. Place(Len(b), 0, d) = n
    BY <1>0, <2>1 DEF Place
  <2>3. Place(Len(b), i, d) = IF n <= Len(b) - i THEN n + i ELSE n + i - Len(b)
    BY <1>0, <2>1 DEF Place
  <2> QED
    BY <1>1, <2>2, <2>3
<1> QED
  BY <1>1, <1>2 DEF Holds

LEMMA AverageResizeWindow ==
  ASSUME FTypes, WindowInv, NEW n \in 0 .. MaxSize, AverageResize(n)
  PROVE  WindowInv'
<1>0. /\ filter = "average" /\ filter' = "average" /\ UNCHANGED recent
      /\ buffer \in Seq(Int) /\ Len(buffer) \in Nat /\ index \in 0 .. Len(buffer)
      /\ \A k \in 0 .. Len(buffer) : k <= since => Holds(buffer, index, recent, k)
      /\ since \in Nat /\ Settled \in Nat /\ Len(buffer) <= Settled
      /\ recent \in Seq(Int)
  <2>1. /\ buffer \in Seq(Int) /\ Len(buffer) \in Nat /\ index \in 0 .. Len(buffer)
        /\ MaxSize \in Nat
    BY Sizes
  <2>2. recent \in Seq(Int)
    BY FilterAssumption, SeqMonotonic DEF FTypes
  <2>3. Len(buffer) <= MaxSize
    BY <2>1 DEF FTypes
  <2> QED
    BY <2>1, <2>2, <2>3 DEF AverageResize, FTypes, WindowInv, Settled
\* With no update since a shrinking there is nothing to show.
<1>1. CASE since' = 0
  <2>1. \A l \in Nat : l <= 0 => Holds(buffer', index', recent', l)
    BY DEF Holds
  <2>2. Len(buffer') \in Nat
    BY AverageResizeTypes, LenProperties DEF FTypes
  <2> QED
    BY <1>0, <1>1, <2>1, <2>2 DEF WindowInv
<1>2. CASE Keep(n) /\ since' = since
  BY <1>0, <1>2 DEF Keep, WindowInv
<1>3. CASE Grow(n) /\ since = Settled
  <2>1. buffer' = Rotate(buffer, index) /\ index' = 0
    BY <1>3 DEF Grow
  <2>2. Len(buffer') = Len(buffer)
    BY <1>0, <2>1, RotateEntries
  <2>3. ASSUME NEW l \in 0 .. Len(buffer')
        PROVE  Holds(buffer', index', recent', l)
    <3>1. l \in 0 .. Len(buffer) /\ l <= since
      BY <1>0, <1>3, <2>2
    <3>2. Holds(buffer, index, recent, l)
      BY <1>0, <3>1
    <3>3. Holds(Rotate(buffer, index), 0, recent, l)
      BY <1>0, <3>1, <3>2, RotateHolds
    <3> QED
      BY <1>0, <2>1, <3>3
  <2> QED
    BY <1>0, <2>3 DEF WindowInv
<1> QED
  BY <1>0, <1>1, <1>2, <1>3 DEF AverageResize, Keep, Grow, Shrink

LEMMA WindowStep ==
  ASSUME FTypes, WindowInv, [FNext]_fvars
  PROVE  WindowInv'
<1>1. CASE UNCHANGED fvars
  BY <1>1 DEF fvars, WindowInv
<1>2. ASSUME NEW n \in 0 .. MaxSize, MedianResize(n) PROVE WindowInv'
  BY <1>2 DEF MedianResize, WindowInv, Holds
<1> QED
  BY <1>1, <1>2, MedianUpdateWindow, AverageUpdateWindow, AverageResizeWindow DEF FNext

LEMMA WindowInit == FInit => WindowInv
<1> HAVE FInit
<1>1. filter = "average" => Len(buffer) = 0
  BY EmptySeq DEF FInit
<1> QED
  BY <1>1 DEF FInit, WindowInv, Holds

\* The moving average is over the latest samples, in the order in which they
\* came: growing the window keeps that, and what a shrinking leaves behind is
\* replaced by the updates that follow.
THEOREM WindowHoldsLatest == FSpec => []WindowIsRecent
<1>1. FTypes /\ WindowInv => WindowIsRecent
  <2> SUFFICES ASSUME FTypes, WindowInv, filter = "average", since = Settled
               PROVE  Rotate(buffer, index) = Latest(recent, Len(buffer))
    BY DEF WindowIsRecent
  <2>1. /\ buffer \in Seq(Int) /\ Len(buffer) \in Nat /\ index \in Nat /\ index <= Len(buffer)
        /\ MaxSize \in Nat
    BY Sizes
  <2>2. recent \in Seq(Int) /\ Len(buffer) <= Len(recent)
    BY FilterAssumption, SeqMonotonic DEF FTypes
  <2>3. Len(buffer) \in 0 .. Len(buffer) /\ Len(buffer) <= since
    BY <2>1 DEF FTypes, Settled
  <2>4. Holds(buffer, index, recent, Len(buffer))
    BY <2>3 DEF WindowInv
  <2> QED
    BY <2>1, <2>2, <2>4, FullWindow
<1>2. FTypes /\ WindowInv /\ [FNext]_fvars => (FTypes /\ WindowInv)'
  BY FTypesStep, WindowStep
<1> QED
  BY <1>1, <1>2, FTypesInit, WindowInit, PTL DEF FSpec

-----------------------------------------------------------------------------
(* The median                                                               *)

LEMMA Counting ==
  ASSUME NEW n \in Nat
  PROVE  IsFiniteSet(1 .. n) /\ Cardinality(1 .. n) = n
<1>1. IsFiniteSet(1 .. n) /\ Cardinality(1 .. n) = IF 1 > n THEN 0 ELSE n - 1 + 1
  BY FS_Interval
<1> QED
  BY <1>1

\* Numbering the entries of s by their values, and equal ones by their places,
\* orders them.
LEMMA OrderExists ==
  ASSUME NEW s \in Seq(Int)
  PROVE  Orders(s) # {}
<1> DEFINE N == 1 .. Len(s)
           Ahead(i) == {j \in N : s[j] < s[i] \/ (s[j] = s[i] /\ j <= i)}
           rank == [i \in N |-> Cardinality(Ahead(i))]
<1>0. /\ Len(s) \in Nat /\ DOMAIN s = N /\ \A i \in N : i \in Int /\ s[i] \in Int
      /\ IsFiniteSet(N) /\ Cardinality(N) = Len(s)
  <2>1. Len(s) \in Nat /\ \A i \in N : s[i] \in Int
    BY LenProperties, ElementOfSeq
  <2>2. IsFiniteSet(N) /\ Cardinality(N) = Len(s)
    BY <2>1, Counting
  <2> QED
    BY <2>1, <2>2
<1>1. ASSUME NEW i \in N
      PROVE  IsFiniteSet(Ahead(i)) /\ Cardinality(Ahead(i)) \in N
  <2>1. Ahead(i) \in SUBSET N /\ i \in Ahead(i)
    BY <1>0
  <2> HIDE DEF N, Ahead
  <2>2. IsFiniteSet(Ahead(i)) /\ Cardinality(Ahead(i)) <= Len(s)
    BY <1>0, <2>1, FS_Subset
  <2>3. Cardinality(Ahead(i)) \in Nat /\ Cardinality(Ahead(i)) # 0
    BY <2>1, <2>2, FS_CardinalityType, FS_EmptySet
  <2> QED
    BY <1>0, <2>2, <2>3 DEF N
<1>2. ASSUME NEW i \in N, NEW j \in N, s[j] < s[i] \/ (s[j] = s[i] /\ j < i)
      PROVE  Cardinality(Ahead(j)) < Cardinality(Ahead(i))
  <2>1. Ahead(j) \in SUBSET Ahead(i) /\ i \in Ahead(i) /\ i \notin Ahead(j)
    <3>1. s[i] \in Int /\ s[j] \in Int /\ i \in Int /\ j \in Int
      BY <1>0
    <3>2. ASSUME NEW m \in Ahead(j) PROVE m \in Ahead(i)
      <4>1. m \in N /\ m \in Int /\ s[m] \in Int /\ (s[m] < s[j] \/ (s[m] = s[j] /\ m <= j))
        BY <1>0
      <4>2. s[m] < s[i] \/ (s[m] = s[i] /\ m <= i)
        BY <1>2, <3>1, <4>1
      <4> QED
        BY <4>1, <4>2
    <3>3. i \in Ahead(i)
      BY <3>1
    <3>4. i \notin Ahead(j)
      <4>1. ~(s[i] < s[j] \/ (s[i] = s[j] /\ i <= j))
        BY <1>2, <3>1
      <4> QED
        BY <4>1
    <3> HIDE DEF Ahead
    <3> QED
      BY <3>2, <3>3, <3>4
  <2> HIDE DEF Ahead
  <2>2. IsFiniteSet(Ahead(i)) /\ Cardinality(Ahead(i)) \in Int /\ Cardinality(Ahead(j)) \in Int
    <3>1. N \subseteq Int
      BY <1>0
    <3> HIDE DEF N
    <3> QED
      BY <1>1, <3>1
  <2>3. Cardinality(Ahead(j)) <= Cardinality(Ahead(i)) /\ Cardinality(Ahead(j)) # Cardinality(Ahead(i))
    BY <2>1, <2>2, FS_Subset
  <2> QED
    BY <2>2, <2>3
<1>3. /\ rank \in [N -> N]
      /\ \A i, j \in N : s[j] < s[i] \/ (s[j] = s[i] /\ j < i) => rank[j] < rank[i]
  BY <1>1, <1>2
<1> HIDE DEF rank, Ahead
<1>4. rank \in Bijection(N, N)
  <2>1. ASSUME NEW i \in N, NEW j \in N, rank[i] = rank[j] PROVE i = j
    <3>1. rank[i] \in Int
      BY <1>3
    <3>2. ~(rank[i] < rank[j]) /\ ~(rank[j] < rank[i])
      BY <2>1, <3>1
    <3> QED
      BY <1>0, <1>3, <3>2
  <2>2. rank \in Injection(N, N)
    BY <1>3, <2>1 DEF Injection, IsInjective
  <2> HIDE DEF N
  <2>3. rank \in Surjection(N, N)
    BY <1>0, <2>2, FS_Injection
  <2> QED
    BY <2>2, <2>3 DEF Bijection
<1> DEFINE q == Inverse(rank, N, N)
<1>5. q \in Bijection(N, N) /\ \A i \in N : q[i] \in N /\ rank[q[i]] = i
  <2> HIDE DEF N
  <2>1. q \in Bijection(N, N) /\ \A i \in N : q[rank[i]] = i
    BY <1>4, Fun_BijInverse
  <2>2. \A i \in N : \E j \in N : rank[j] = i
    BY <1>4, Fun_BijectionProperties
  <2> QED
    BY <2>1, <2>2
<1> HIDE DEF q
<1>6. ASSUME NEW i \in N, NEW j \in N, i <= j
      PROVE  s[q[i]] <= s[q[j]]
  <2>1. s[q[j]] < s[q[i]] => j < i
    BY <1>3, <1>5
  <2> QED
    BY <1>0, <1>5, <1>6, <2>1
<1>7. q \in Orders(s)
  BY <1>0, <1>5, <1>6 DEF Orders
<1> QED
  BY <1>7

\* In order, k entries are in front of the next one.
LEMMA Ranked ==
  ASSUME NEW s \in Seq(Int), NEW q \in Orders(s), NEW k \in 0 .. Len(s) - 1
  PROVE  /\ s[q[k + 1]] \in ToSet(s)
         /\ Cardinality({i \in DOMAIN s : s[i] < s[q[k + 1]]}) <= k
         /\ Cardinality({i \in DOMAIN s : s[i] <= s[q[k + 1]]}) > k
<1> DEFINE N == 1 .. Len(s)
           v == s[q[k + 1]]
           A == {i \in N : s[i] < v}
           B == {i \in N : s[i] <= v}
<1>0. /\ Len(s) \in Nat /\ DOMAIN s = N /\ k + 1 \in N /\ k \in Nat
      /\ \A i \in N : i \in Int /\ s[i] \in Int
      /\ IsFiniteSet(N)
  <2>1. Len(s) \in Nat /\ \A i \in N : s[i] \in Int
    BY LenProperties, ElementOfSeq
  <2> QED
    BY <2>1, FS_Interval
<1>1. /\ q \in Bijection(N, N)
      /\ \A i, j \in N : i <= j => s[q[i]] <= s[q[j]]
  BY <1>0 DEF Orders
<1>2. /\ \A i \in N : q[i] \in N
      /\ \A i, j \in N : q[i] = q[j] => i = j
      /\ \A j \in N : \E i \in N : q[i] = j
  <2> HIDE DEF N
  <2> QED
    BY <1>1, Fun_BijectionProperties
<1>3. v \in Int /\ v \in ToSet(s)
  BY <1>0, <1>2 DEF ToSet
<1>4. Cardinality(A) <= k
  <2> DEFINE g == [x \in A |-> CHOOSE m \in N : q[m] = x]
  <2>1. ASSUME NEW x \in A
        PROVE  g[x] \in 1 .. k /\ q[g[x]] = x
    <3>1. g[x] = CHOOSE m \in N : q[m] = x
      OBVIOUS
    <3>2. g[x] \in N /\ q[g[x]] = x
      <4>1. \E m \in N : q[m] = x
        BY <1>2
      <4> QED
        BY <3>1, <4>1
    <3> HIDE DEF g
    <3>3. ~(k + 1 <= g[x])
      <4>1. s[q[g[x]]] < v /\ s[q[g[x]]] \in Int
        BY <1>0, <3>2
      <4>2. k + 1 <= g[x] => v <= s[q[g[x]]]
        BY <1>0, <1>1, <3>2
      <4> HIDE DEF v
      <4> QED
        BY <1>3, <4>1, <4>2
    <3> QED
      BY <1>0, <3>2, <3>3
  <2>2. g \in [A -> 1 .. k]
    <3>1. g \in [A -> Range(g)] /\ DOMAIN g = A
      BY DEF Range
    <3> QED
      BY <2>1
  <2>3. \A x, y \in A : g[x] = g[y] => x = y
    <3> HIDE DEF g, A
    <3> QED
      BY <2>1
  <2> HIDE DEF g, A
  <2>4. g \in Injection(A, 1 .. k)
    BY <2>2, <2>3 DEF Injection, IsInjective
  <2>5. IsFiniteSet(1 .. k) /\ Cardinality(1 .. k) = k
    BY <1>0, Counting
  <2>6. Cardinality(A) <= Cardinality(1 .. k)
    BY <2>4, <2>5, FS_Injection
  <2> QED
    BY <2>5, <2>6
<1>5. Cardinality(B) > k
  <2> DEFINE f == [m \in 1 .. k + 1 |-> q[m]]
  <2>1. ASSUME NEW m \in 1 .. k + 1
        PROVE  m \in N /\ q[m] \in B
    <3>1. m \in N /\ m <= k + 1
      BY <1>0
    <3>2. q[m] \in N /\ s[q[m]] <= s[q[k + 1]]
      BY <1>0, <1>1, <1>2, <3>1
    <3> QED
      BY <3>1, <3>2
  <2>2. f \in [1 .. k + 1 -> B]
    BY <2>1
  <2>3. \A m, n \in 1 .. k + 1 : f[m] = f[n] => m = n
    BY <1>2, <2>1
  <2> HIDE DEF f
  <2>4. f \in Injection(1 .. k + 1, B)
    BY <2>2, <2>3 DEF Injection, IsInjective
  <2>5. B \in SUBSET N
    OBVIOUS
  <2> HIDE DEF B, N
  <2>6. IsFiniteSet(B) /\ Cardinality(B) \in Nat
    BY <1>0, <2>5, FS_Subset, FS_CardinalityType
  <2>7. Cardinality(1 .. k + 1) <= Cardinality(B)
    BY <2>4, <2>6, FS_Injection
  <2>8. Cardinality(1 .. k + 1) = k + 1
    BY <1>0, Counting
  <2> QED
    BY <1>0, <2>6, <2>7, <2>8
<1> QED
  BY <1>0, <1>3, <1>4, <1>5

\* std::nth_element gives what any way to order the entries gives.
LEMMA NthInOrder ==
  ASSUME NEW s \in Seq(Int), NEW q \in Orders(s), NEW k \in 0 .. Len(s) - 1
  PROVE  Nth(s, k) = s[q[k + 1]]
<1> DEFINE A(v) == {i \in DOMAIN s : s[i] < v}
           B(v) == {i \in DOMAIN s : s[i] <= v}
           Fits(v) == Cardinality(A(v)) <= k /\ Cardinality(B(v)) > k
<1>1. Fits(s[q[k + 1]]) /\ s[q[k + 1]] \in ToSet(s)
  BY Ranked
<1>2. ASSUME NEW u \in ToSet(s), NEW v \in ToSet(s), Fits(u), Fits(v)
      PROVE  ~(u < v)
  <2>0. SUFFICES ASSUME u < v PROVE FALSE
    OBVIOUS
  <2>1. /\ Len(s) \in Nat /\ DOMAIN s = 1 .. Len(s) /\ IsFiniteSet(DOMAIN s)
        /\ \A i \in DOMAIN s : s[i] \in Int
    <3>1. Len(s) \in Nat /\ \A i \in 1 .. Len(s) : s[i] \in Int
      BY LenProperties, ElementOfSeq
    <3> QED
      BY <3>1, FS_Interval
  <2>2. u \in Int /\ v \in Int
    BY <2>1 DEF ToSet
  <2>3. A(v) \in SUBSET DOMAIN s /\ B(u) \in SUBSET A(v)
    BY <2>0, <2>1, <2>2
  <2>4. Cardinality(A(v)) <= k /\ Cardinality(B(u)) > k
    BY <1>2
  <2> HIDE DEF A, B
  <2>5. IsFiniteSet(A(v)) /\ Cardinality(A(v)) \in Nat
    BY <2>1, <2>3, FS_Subset, FS_CardinalityType
  <2>6. IsFiniteSet(B(u)) /\ Cardinality(B(u)) <= Cardinality(A(v)) /\ Cardinality(B(u)) \in Nat
    BY <2>3, <2>5, FS_Subset, FS_CardinalityType
  <2> QED
    BY <2>4, <2>5, <2>6
<1>3. Nth(s, k) = CHOOSE v \in ToSet(s) : Fits(v)
  BY DEF Nth
<1> HIDE DEF Fits
<1>4. Nth(s, k) \in ToSet(s) /\ Fits(Nth(s, k))
  BY <1>1, <1>3
<1>5. Nth(s, k) \in Int /\ s[q[k + 1]] \in Int
  <2>1. \A v \in ToSet(s) : v \in Int
    <3>1. \A i \in 1 .. Len(s) : s[i] \in Int
      BY ElementOfSeq
    <3> QED
      BY <3>1 DEF ToSet
  <2> QED
    BY <1>1, <1>4, <2>1
<1>6. ~(Nth(s, k) < s[q[k + 1]]) /\ ~(s[q[k + 1]] < Nth(s, k))
  BY <1>1, <1>2, <1>4
<1> QED
  BY <1>5, <1>6

\* From the oldest on, the written entries of a window are in order what the
\* first entries of the window are in some other order; so the median is one
\* of the latest samples, at its place in every way to order them.
LEMMA NthOfWindow ==
  ASSUME NEW b \in Seq(Int), NEW n \in 1 .. Len(b), NEW i \in 0 .. n,
         n < Len(b) => i = n,
         NEW r \in Seq(Int), n <= Len(r), Holds(b, i, r, n), NEW k \in 0 .. n - 1
  PROVE  \E p \in Orders(Latest(r, n)) :
           Nth(SubSeq(b, 1, n), k) = Latest(r, n)[p[k + 1]]
<1> DEFINE s == SubSeq(b, 1, n)
           w == Latest(r, n)
           N == 1 .. n
           h == [x \in N |-> IF x <= i THEN x + n - i ELSE x - i]
<1>0. Len(b) \in Nat /\ Len(r) \in Nat /\ n \in Nat /\ i \in Nat /\ i <= n /\ k + 1 \in N
  BY LenProperties
<1>1. s \in Seq(Int) /\ Len(s) = n /\ DOMAIN s = N /\ \A x \in N : s[x] = b[x]
  <2>1. \A x \in 1 .. n : b[x] \in Int
    BY <1>0, ElementOfSeq
  <2>2. /\ s \in Seq(Int) /\ Len(s) = IF 1 <= n THEN n - 1 + 1 ELSE 0
        /\ \A x \in 1 .. n - 1 + 1 : s[x] = b[1 + x - 1]
    BY <1>0, <2>1, SubSeqProperties
  <2> HIDE DEF s
  <2>3. n - 1 + 1 = n /\ \A x \in N : 1 + x - 1 = x
    BY <1>0
  <2> QED
    BY <1>0, <2>2, <2>3
<1>2. /\ w \in Seq(Int) /\ Len(w) = n /\ DOMAIN w = N
      /\ \A x \in N : w[x] = r[Len(r) - n + x]
  BY <1>0, LatestEntries
<1> HIDE DEF s, w
<1>3. h \in [N -> N]
  <2>1. ASSUME NEW x \in N PROVE (IF x <= i THEN x + n - i ELSE x - i) \in N
    BY <1>0
  <2> QED
    BY <2>1
<1>4. \A x \in N : h[x] = IF x <= i THEN x + n - i ELSE x - i
  OBVIOUS
<1> HIDE DEF h
<1>5. \A x, y \in N : h[x] = h[y] => x = y
  <2> SUFFICES ASSUME NEW x \in N, NEW y \in N, h[x] = h[y] PROVE x = y
    OBVIOUS
  <2>1. CASE x <= i /\ y <= i
    BY <1>0, <1>4, <2>1
  <2>2. CASE x <= i /\ ~(y <= i)
    BY <1>0, <1>4, <2>2
  <2>3. CASE ~(x <= i) /\ y <= i
    BY <1>0, <1>4, <2>3
  <2>4. CASE ~(x <= i) /\ ~(y <= i)
    BY <1>0, <1>4, <2>4
  <2> QED
    BY <2>1, <2>2, <2>3, <2>4
<1>6. h \in Bijection(N, N)
  <2>1. h \in Injection(N, N)
    BY <1>3, <1>5 DEF Injection, IsInjective
  <2>2. IsFiniteSet(N)
    BY <1>0, Counting
  <2> HIDE DEF N
  <2>3. h \in Surjection(N, N)
    BY <2>1, <2>2, FS_Injection
  <2> QED
    BY <2>1, <2>3 DEF Bijection
<1>7. ASSUME NEW x \in N
      PROVE  s[x] = w[h[x]]
  <2>1. PICK d \in 1 .. n : d = IF x <= i THEN i + 1 - x ELSE n + 1 - x + i
    <3>1. (IF x <= i THEN i + 1 - x ELSE n + 1 - x + i) \in 1 .. n
      BY <1>0
    <3> QED
      BY <3>1
  <2>2. Place(Len(b), i, d) = x
    BY <1>0, <2>1 DEF Place
  <2>3. Len(r) - n + h[x] = Len(r) + 1 - d
    <3>1. h[x] = n + 1 - d
      <4>1. h[x] = IF x <= i THEN x + n - i ELSE x - i
        BY <1>4
      <4> QED
        BY <1>0, <2>1, <4>1
    <3> QED
      BY <1>0, <3>1
  <2>4. b[x] = r[Len(r) + 1 - d]
    BY <2>2 DEF Holds
  <2> QED
    BY <1>1, <1>2, <1>3, <2>3, <2>4
<1>8. PICK q \in Orders(s) : TRUE
  BY <1>1, OrderExists
<1> DEFINE p == [x \in N |-> h[q[x]]]
<1>9. q \in Bijection(N, N) /\ \A x, y \in N : x <= y => s[q[x]] <= s[q[y]]
  BY <1>1 DEF Orders
<1>10. p \in Bijection(N, N)
  <2> HIDE DEF N
  <2> QED
    BY <1>6, <1>9, Fun_BijTransitive
<1>11. \A x \in N : q[x] \in N /\ w[p[x]] = s[q[x]]
  <2>1. \A x \in N : q[x] \in N
    <3> HIDE DEF N
    <3> QED
      BY <1>9, Fun_BijectionProperties
  <2> QED
    BY <1>7, <2>1
<1> HIDE DEF p
<1>12. p \in Orders(w)
  BY <1>2, <1>9, <1>10, <1>11 DEF Orders
<1>13. Nth(s, k) = s[q[k + 1]]
  BY <1>1, NthInOrder
<1>14. Nth(s, k) = w[p[k + 1]]
  BY <1>0, <1>11, <1>13
<1> QED
  BY <1>12, <1>14 DEF s, w

\* What the last update returned, as long as no resize emptied the window.
MedianInv ==
  (filter = "median" /\ filled > 0) =>
    out = <<Nth(SubSeq(buffer, 1, filled), filled \div 2), 1>>

\* The filtered position is the upper median of the samples the window was
\* given last, as many as were written since it was sized: no entry that was
\* never written takes part, and the order in which the ring holds them does
\* not matter.
THEOREM MedianIsOfLatest == FSpec => []MedianOfWindow
<1>1. FInit => MedianInv
  BY DEF FInit, MedianInv
<1>2. MedianInv /\ [FNext]_fvars => MedianInv'
  <2> SUFFICES ASSUME MedianInv, [FNext]_fvars PROVE MedianInv'
    OBVIOUS
  <2>1. ASSUME NEW v \in Samples, MedianUpdate(v) PROVE MedianInv'
    BY <2>1 DEF MedianUpdate, MedianInv
  <2>2. ASSUME NEW v \in Samples, AverageUpdate(v) PROVE MedianInv'
    BY <2>2 DEF AverageUpdate, MedianInv
  <2>3. ASSUME NEW n \in 0 .. MaxSize, MedianResize(n) PROVE MedianInv'
    BY <2>3 DEF MedianResize, MedianInv
  <2>4. ASSUME NEW n \in 0 .. MaxSize, AverageResize(n) PROVE MedianInv'
    BY <2>4 DEF AverageResize, MedianInv
  <2>5. CASE UNCHANGED fvars
    BY <2>5 DEF fvars, MedianInv
  <2> QED
    BY <2>1, <2>2, <2>3, <2>4, <2>5 DEF FNext
<1>3. FTypes /\ WindowInv /\ MedianInv => MedianOfWindow
  <2> SUFFICES ASSUME FTypes, WindowInv, MedianInv, filter = "median", filled > 0
               PROVE  \E p \in Orders(Latest(recent, filled)) :
                        out = <<Latest(recent, filled)[p[filled \div 2 + 1]], 1>>
    BY DEF MedianOfWindow
  <2>1. /\ buffer \in Seq(Int) /\ Len(buffer) \in Nat /\ filled \in 1 .. Len(buffer)
        /\ index \in 0 .. filled /\ (filled < Len(buffer) => index = filled)
        /\ filled <= Len(recent)
    BY Sizes DEF FTypes
  <2>2. recent \in Seq(Int)
    BY FilterAssumption, SeqMonotonic DEF FTypes
  <2>3. Holds(buffer, index, recent, filled)
    BY DEF WindowInv
  <2>4. filled \div 2 \in 0 .. filled - 1
    BY <2>1
  <2>5. \E p \in Orders(Latest(recent, filled)) :
          Nth(SubSeq(buffer, 1, filled), filled \div 2)
            = Latest(recent, filled)[p[filled \div 2 + 1]]
    BY <2>1, <2>2, <2>3, <2>4, NthOfWindow
  <2> QED
    BY <2>5 DEF MedianInv
<1>4. FTypes /\ WindowInv /\ [FNext]_fvars => (FTypes /\ WindowInv)'
  BY FTypesStep, WindowStep
<1> QED
  BY <1>1, <1>2, <1>3, <1>4, FTypesInit, WindowInit, PTL DEF FSpec
=============================================================================
