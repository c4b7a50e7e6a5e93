-------------------------- MODULE ChainScanProofs --------------------------
(***************************************************************************)
(* Proofs about scans: that the ranges asked for, sorted, merged and cut   *)
(* to the records they touch, still hold the same events; and that however *)
(* the records fall to the workers, the scan visits what was asked for.    *)
(***************************************************************************)
EXTENDS ChainScan, ChainProofs
-----------------------------------------------------------------------------
(***************************************************************************)
(* The ranges of for_each_ranges.                                          *)
(***************************************************************************)
ARange == [lo: Nat, hi: Nat]

(* Two ranges are one when neither comes before the other.                 *)
LEMMA BeforeIsTotal ==
  ASSUME NEW r \in ARange, NEW s \in ARange
  PROVE  r = s \/ Before(r, s) \/ Before(s, r)
<1>1. r.lo \in Nat /\ r.hi \in Nat /\ s.lo \in Nat /\ s.hi \in Nat
  BY DEF ARange
<1>2. r.lo = s.lo /\ r.hi = s.hi => r = s
  BY DEF ARange
<1> QED BY <1>1, <1>2 DEF Before

(* A set of ranges that is not empty has one that comes before the others. *)
LEMMA FirstRange ==
  ASSUME NEW S \in SUBSET ARange, S # {}
  PROVE  \E m \in S : \A r \in S : r = m \/ Before(m, r)
<1>1. \A r \in ARange : r.lo \in Nat /\ r.hi \in Nat
  BY DEF ARange
<1> DEFINE los == {r.lo : r \in S}
<1>2. los \in SUBSET Nat /\ los # {}
  BY <1>1
<1>3. PICK lo \in los : \A k \in los : lo <= k
  <2> HIDE DEF los
  <2> QED BY <1>2, Least
<1> DEFINE his == {r.hi : r \in {s \in S : s.lo = lo}}
<1>4. his \in SUBSET Nat /\ his # {}
  BY <1>1, <1>3
<1>5. PICK hi \in his : \A k \in his : hi <= k
  <2> HIDE DEF his
  <2> QED BY <1>4, Least
<1>6. PICK m \in S : m.lo = lo /\ m.hi = hi
  BY <1>5
<1>7. ASSUME NEW r \in S PROVE r = m \/ Before(m, r)
  <2>1. ~Before(r, m)
    <3>1. lo <= r.lo
      BY <1>3
    <3>2. r.lo = lo => hi <= r.hi
      BY <1>5
    <3>3. r.lo \in Nat /\ r.hi \in Nat /\ m.lo \in Nat /\ m.hi \in Nat
      BY <1>1
    <3> QED BY ONLY <1>6, <3>1, <3>2, <3>3 DEF Before
  <2> QED BY <2>1, BeforeIsTotal
<1> QED BY <1>7

Arranges(s, S) ==
  /\ s \in [1..Cardinality(S) -> S]
  /\ \A i, j \in DOMAIN s : i < j => Before(s[i], s[j])

(* Any finite set of ranges can be sorted.                                 *)
LEMMA SortedExists ==
  ASSUME NEW S \in SUBSET ARange, IsFiniteSet(S)
  PROVE  \E s : Arranges(s, S)
<1> DEFINE N == {n \in Nat : \A T \in SUBSET ARange :
                   IsFiniteSet(T) /\ Cardinality(T) = n => \E s : Arranges(s, T)}
<1>1. 0 \in N
  <2> SUFFICES ASSUME NEW T \in SUBSET ARange, IsFiniteSet(T), Cardinality(T) = 0
               PROVE  \E s : Arranges(s, T)
    OBVIOUS
  <2> DEFINE s == [i \in 1..0 |-> CHOOSE r \in T : TRUE]
  <2>1. s \in [1..0 -> T] /\ DOMAIN s = {}
    OBVIOUS
  <2> HIDE DEF s
  <2>2. Arranges(s, T)
    BY <2>1 DEF Arranges
  <2> QED BY <2>2
<1>2. ASSUME NEW n \in Nat, n \in N PROVE n + 1 \in N
  <2> SUFFICES ASSUME NEW T \in SUBSET ARange, IsFiniteSet(T), Cardinality(T) = n + 1
               PROVE  \E s : Arranges(s, T)
    OBVIOUS
  <2>1. T # {}
    BY FS_EmptySet
  <2>2. PICK m \in T : \A r \in T : r = m \/ Before(m, r)
    BY <2>1, FirstRange
  <2> DEFINE U == T \ {m}
  <2>3. IsFiniteSet(U) /\ Cardinality(U) = n /\ U \in SUBSET ARange
    <3>1. IsFiniteSet(U) /\ Cardinality(U) = Cardinality(T) - 1
      BY FS_RemoveElement
    <3> QED BY <3>1
  <2>4. PICK u : Arranges(u, U)
    BY <1>2, <2>3
  <2> DEFINE s == [i \in 1..n + 1 |-> IF i = 1 THEN m ELSE u[i - 1]]
  <2>5. u \in [1..n -> U] /\ \A i, j \in 1..n : i < j => Before(u[i], u[j])
    BY <2>3, <2>4 DEF Arranges
  <2>6. \A i \in 1..n + 1 : s[i] = IF i = 1 THEN m ELSE u[i - 1]
    OBVIOUS
  <2>7. \A i \in 1..n + 1 : i # 1 => i - 1 \in 1..n /\ u[i - 1] \in U
    BY <2>5
  <2>8. s \in [1..n + 1 -> T] /\ DOMAIN s = 1..n + 1
    BY <2>6, <2>7
  <2> HIDE DEF s
  <2>9. ASSUME NEW i \in 1..n + 1, NEW j \in 1..n + 1, i < j
        PROVE  Before(s[i], s[j])
    <3>1. j # 1 /\ j - 1 \in 1..n /\ s[j] = u[j - 1] /\ s[j] \in U
      BY <2>6, <2>7, <2>9
    <3>2. CASE i = 1
      BY <2>2, <2>6, <3>1, <3>2
    <3>3. CASE i # 1
      <4>1. i - 1 \in 1..n /\ s[i] = u[i - 1] /\ i - 1 < j - 1
        BY <2>6, <2>7, <2>9, <3>3
      <4> QED BY <2>5, <3>1, <4>1
    <3> QED BY <3>2, <3>3
  <2>10. Arranges(s, T)
    BY <2>8, <2>9 DEF Arranges
  <2> QED BY <2>10
<1>3. Cardinality(S) \in Nat
  BY FS_CardinalityType
<1> HIDE DEF N
<1>4. Cardinality(S) \in N
  BY <1>1, <1>2, <1>3, Induction
<1> QED BY <1>4 DEF N

(* wanted.sort_unstable(): each of the ranges, in order.                   *)
LEMMA SortedIs ==
  ASSUME NEW S \in SUBSET ARange, IsFiniteSet(S)
  PROVE  /\ Cardinality(S) \in Nat
         /\ Sorted(S) \in Seq(S) /\ Len(Sorted(S)) = Cardinality(S)
         /\ \A i, j \in 1..Cardinality(S) : i < j => Before(Sorted(S)[i], Sorted(S)[j])
         /\ \A r \in S : \E i \in 1..Cardinality(S) : Sorted(S)[i] = r
<1> DEFINE n == Cardinality(S)
           s == Sorted(S)
<1>1. n \in Nat
  BY FS_CardinalityType
<1>2. \E t \in [1..n -> S] : \A i, j \in DOMAIN t : i < j => Before(t[i], t[j])
  BY SortedExists DEF Arranges
<1>3. s \in [1..n -> S] /\ \A i, j \in DOMAIN s : i < j => Before(s[i], s[j])
  BY <1>2 DEF Sorted
<1> HIDE DEF s, n
<1>4. s \in Injection(1..n, S)
  <2>1. ASSUME NEW i \in 1..n, NEW j \in 1..n, s[i] = s[j] PROVE i = j
    <3>1. \A r \in ARange : ~Before(r, r)
      BY DEF Before, ARange
    <3>2. s[i] \in ARange /\ s[j] \in ARange
      BY <1>3
    <3>3. ~(i < j) /\ ~(j < i)
      BY <1>3, <2>1, <3>1, <3>2
    <3> QED BY <1>1, <3>3
  <2> QED BY <1>3, <2>1 DEF Injection, IsInjective
<1>5. Cardinality(1..n) = n /\ IsFiniteSet(1..n)
  BY <1>1, FS_Interval
<1>6. s \in Surjection(1..n, S)
  BY <1>4, <1>5, FS_Injection DEF n
<1>7. \A r \in S : \E i \in 1..n : s[i] = r
  BY <1>6 DEF Surjection
<1>8. s \in Seq(S) /\ Len(s) = n
  BY <1>1, <1>3, FunctionIsSeq
<1> QED BY <1>1, <1>3, <1>7, <1>8 DEF s, n

(* f[i] is the first i of the ranges w merged, as the recursive definition *)
(* in Merged states it.                                                    *)
IsMerging(f, w, n) == f = [i \in 0..n |-> IF i = 0 THEN << >> ELSE MergeInto(f[i - 1], w[i])]

(* There is such a function for any ranges.                                *)
LEMMA MergingExists ==
  ASSUME NEW n \in Nat, NEW w
  PROVE  \E f : IsMerging(f, w, n)
<1> DEFINE T == {m \in Nat : m <= n => \E f : IsMerging(f, w, m)}
<1>1. 0 \in T
  <2> DEFINE f0 == [i \in 0..0 |-> << >>]
  <2>1. f0 = [i \in 0..0 |-> IF i = 0 THEN << >> ELSE MergeInto(f0[i - 1], w[i])]
    OBVIOUS
  <2> HIDE DEF f0
  <2> QED BY <2>1 DEF IsMerging
<1>2. ASSUME NEW m \in Nat, m \in T PROVE m + 1 \in T
  <2> SUFFICES ASSUME m + 1 <= n PROVE \E f : IsMerging(f, w, m + 1)
    OBVIOUS
  <2>1. PICK f : IsMerging(f, w, m)
    BY <1>2
  <2> DEFINE h == [i \in 0..m + 1 |-> IF i = m + 1 THEN MergeInto(f[m], w[m + 1]) ELSE f[i]]
  <2>2. ASSUME NEW i \in 0..m + 1
        PROVE  h[i] = IF i = 0 THEN << >> ELSE MergeInto(h[i - 1], w[i])
    <3>1. CASE i = m + 1
      <4>1. i # 0 /\ i - 1 = m /\ m \in 0..m + 1 /\ m # m + 1
        BY <3>1
      <4>2. h[m] = f[m]
        BY <4>1
      <4>3. h[i] = MergeInto(f[m], w[m + 1])
        BY <3>1
      <4> HIDE DEF h
      <4> QED BY <3>1, <4>1, <4>2, <4>3
    <3>2. CASE i # m + 1
      <4>1. i \in 0..m
        BY <3>2
      <4>2. f[i] = IF i = 0 THEN << >> ELSE MergeInto(f[i - 1], w[i])
        BY <2>1, <4>1 DEF IsMerging
      <4>3. h[i] = f[i]
        BY <3>2
      <4>4. i # 0 => h[i - 1] = f[i - 1]
        BY <4>1
      <4> HIDE DEF h
      <4> QED BY <4>2, <4>3, <4>4
    <3> QED BY <3>1, <3>2
  <2>3. h = [i \in 0..m + 1 |-> h[i]]
    OBVIOUS
  <2> HIDE DEF h
  <2>4. IsMerging(h, w, m + 1)
    BY <2>2, <2>3 DEF IsMerging
  <2> QED BY <2>4
<1> HIDE DEF T
<1>3. n \in T
  BY <1>1, <1>2, Induction
<1> QED BY <1>3 DEF T

(* Ranges that hold the same events as the first n of w, in order and      *)
(* apart from each other, none of them beginning after the last of the n.  *)
Apart(m, w, n) ==
  /\ m \in Seq(ARange)
  /\ n = 0 => m = << >>
  /\ n # 0 => Len(m) # 0 /\ m[Len(m)].lo <= w[n].lo
  /\ \A k \in 1..Len(m) : m[k].lo < m[k].hi
  /\ \A a, b \in 1..Len(m) : a < b => m[a].hi < m[b].lo
  /\ \A g \in Nat : InRanges(m, g) <=> \E i \in 1..n : w[i].lo <= g /\ g < w[i].hi

(* One more range merged in keeps them so.                                 *)
LEMMA MergeOne ==
  ASSUME NEW m, NEW L \in Nat, NEW w \in [1..L -> ARange], NEW n \in Nat, n + 1 <= L,
         \A i \in 1..L : w[i].lo < w[i].hi,
         \A i, j \in 1..L : i < j => Before(w[i], w[j]),
         Apart(m, w, n)
  PROVE  Apart(MergeInto(m, w[n + 1]), w, n + 1)
<1> DEFINE r == w[n + 1]
           l == Len(m)
           d == MergeInto(m, r)
<1>0. /\ m \in Seq(ARange)
      /\ n # 0 => l # 0 /\ m[l].lo <= w[n].lo
      /\ n = 0 => m = << >>
      /\ \A k \in 1..l : m[k].lo < m[k].hi
      /\ \A a, b \in 1..l : a < b => m[a].hi < m[b].lo
  BY DEF Apart
<1>s. m \in Seq(ARange)
  BY <1>0
<1>1. /\ l \in Nat /\ DOMAIN m = 1..l
      /\ \A k \in 1..l : m[k] \in ARange /\ m[k].lo \in Nat /\ m[k].hi \in Nat
  <2>1. l \in Nat /\ DOMAIN m = 1..l /\ \A k \in 1..l : m[k] \in ARange
    BY <1>s, SeqIsFunction
  <2> QED BY <2>1 DEF ARange
<1>o. /\ \A k \in 1..l : m[k].lo < m[k].hi
      /\ \A a, b \in 1..l : a < b => m[a].hi < m[b].lo
  BY <1>0
<1> HIDE DEF l
<1>2. r \in ARange /\ r.lo \in Nat /\ r.hi \in Nat /\ r.lo < r.hi
  BY DEF ARange
<1>3. l # 0 => m[l].lo <= r.lo
  <2>1. CASE n = 0
    <3>1. l = 0
      BY <1>0, <2>1 DEF l
    <3> QED BY <3>1
  <2>2. CASE n # 0
    <3>1. n \in 1..L /\ n + 1 \in 1..L /\ n < n + 1
      BY <2>2
    <3>2. w[n].lo \in Nat /\ w[n].lo <= r.lo
      BY <1>2, <3>1 DEF Before, ARange
    <3>3. l \in 1..l /\ m[l].lo <= w[n].lo
      BY <1>0, <1>1, <2>2
    <3> QED BY ONLY <1>1, <1>2, <3>2, <3>3
  <2> QED BY <2>1, <2>2
<1>4. \A g \in Nat : (\E i \in 1..n + 1 : w[i].lo <= g /\ g < w[i].hi)
                       <=> InRanges(m, g) \/ (r.lo <= g /\ g < r.hi)
  <2>1. \A i \in 1..n + 1 : i \in 1..n \/ i = n + 1
    OBVIOUS
  <2>2. 1..n \subseteq 1..n + 1 /\ n + 1 \in 1..n + 1
    OBVIOUS
  <2>3. \A g \in Nat : InRanges(m, g) <=> \E i \in 1..n : w[i].lo <= g /\ g < w[i].hi
    BY DEF Apart
  <2> QED BY <2>1, <2>2, <2>3
<1>5. ASSUME l # 0 /\ r.lo <= m[l].hi
      PROVE  Apart(d, w, n + 1)
  <2> DEFINE last == [lo |-> m[l].lo, hi |-> HighOf(m[l].hi, r.hi)]
  <2>1. d = [m EXCEPT ![l] = last]
    BY <1>1, <1>5 DEF MergeInto, l
  <2>2. l \in 1..l /\ last \in ARange /\ last.lo = m[l].lo /\ last.lo < last.hi
    <3>1. l \in 1..l
      BY <1>1, <1>5
    <3>2. m[l].lo < m[l].hi
      BY <1>o, <3>1
    <3>3. last.lo = m[l].lo /\ last.hi = HighOf(m[l].hi, r.hi)
      OBVIOUS
    <3>4. HighOf(m[l].hi, r.hi) \in Nat /\ m[l].lo < HighOf(m[l].hi, r.hi)
      BY <1>1, <1>2, <3>1, <3>2 DEF HighOf
    <3>5. last \in ARange
      BY <1>1, <3>1, <3>4 DEF ARange
    <3> QED BY <3>1, <3>3, <3>4, <3>5
  <2>3. last.hi = HighOf(m[l].hi, r.hi)
    OBVIOUS
  <2> HIDE DEF last
  <2>4. /\ d \in Seq(ARange) /\ Len(d) = l /\ DOMAIN d = 1..l
        /\ d[l] = last /\ \A k \in 1..l : k # l => d[k] = m[k]
    BY ONLY <1>1, <1>s, <2>1, <2>2 DEF l
  <2> HIDE DEF d
  <2>5. \A k \in 1..l : d[k].lo < d[k].hi /\ d[k].lo = m[k].lo
    BY <1>o, <2>2, <2>4
  <2>6. \A a, b \in 1..l : a < b => d[a].hi < d[b].lo
    <3> SUFFICES ASSUME NEW a \in 1..l, NEW b \in 1..l, a < b PROVE d[a].hi < d[b].lo
      OBVIOUS
    <3>1. a # l /\ d[a] = m[a] /\ d[b].lo = m[b].lo
      BY <1>1, <2>4, <2>5
    <3> QED BY <1>o, <3>1
  <2>7. \A g \in Nat : InRanges(d, g) <=> InRanges(m, g) \/ (r.lo <= g /\ g < r.hi)
    <3> SUFFICES ASSUME NEW g \in Nat
                 PROVE  InRanges(d, g) <=> InRanges(m, g) \/ (r.lo <= g /\ g < r.hi)
      OBVIOUS
    <3>1. (last.lo <= g /\ g < last.hi) <=> (m[l].lo <= g /\ g < m[l].hi) \/ (r.lo <= g /\ g < r.hi)
      <4> DEFINE x == m[l].lo
                 y == m[l].hi
                 z == r.lo
                 v == r.hi
      <4>1. x \in Nat /\ y \in Nat /\ z \in Nat /\ v \in Nat /\ x <= z /\ z <= y /\ x < y /\ z < v
        BY <1>o, <1>1, <1>2, <1>3, <1>5, <2>2
      <4>2. last.lo = x /\ last.hi = HighOf(y, v)
        BY <2>2, <2>3
      <4> HIDE DEF x, y, z, v
      <4>3. (x <= g /\ g < HighOf(y, v)) <=> (x <= g /\ g < y) \/ (z <= g /\ g < v)
        BY <4>1 DEF HighOf
      <4> QED BY <4>2, <4>3 DEF x, y, z, v
    <3>2. InRanges(d, g) <=> \E k \in 1..l : d[k].lo <= g /\ g < d[k].hi
      BY <2>4 DEF InRanges
    <3>3. InRanges(m, g) <=> \E k \in 1..l : m[k].lo <= g /\ g < m[k].hi
      BY <1>1 DEF InRanges
    <3> QED BY <2>2, <2>4, <3>1, <3>2, <3>3
  <2>8. Len(d) # 0 /\ d[Len(d)].lo <= w[n + 1].lo
    BY <1>3, <1>5, <2>2, <2>4
  <2>9. n + 1 # 0
    OBVIOUS
  <2>10. \A g \in Nat : InRanges(d, g) <=> \E i \in 1..n + 1 : w[i].lo <= g /\ g < w[i].hi
    BY <1>4, <2>7
  <2> QED BY ONLY <2>4, <2>5, <2>6, <2>8, <2>9, <2>10 DEF Apart
<1>6. ASSUME ~(l # 0 /\ r.lo <= m[l].hi)
      PROVE  Apart(d, w, n + 1)
  <2>1. d = Append(m, r)
    BY <1>6 DEF MergeInto, l
  <2>2. /\ d \in Seq(ARange) /\ Len(d) = l + 1 /\ DOMAIN d = 1..l + 1
        /\ d[l + 1] = r /\ \A k \in 1..l : d[k] = m[k]
    BY ONLY <1>1, <1>s, <1>2, <2>1 DEF l
  <2> HIDE DEF d
  <2>3. \A k \in 1..l + 1 : k \in 1..l \/ k = l + 1
    BY <1>1
  <2>4. \A k \in 1..l + 1 : d[k].lo < d[k].hi
    BY <1>o, <1>2, <2>2, <2>3
  <2>5. \A a, b \in 1..l + 1 : a < b => d[a].hi < d[b].lo
    <3> SUFFICES ASSUME NEW a \in 1..l + 1, NEW b \in 1..l + 1, a < b PROVE d[a].hi < d[b].lo
      OBVIOUS
    <3>1. a \in 1..l
      BY <1>1
    <3>2. CASE b \in 1..l
      BY <1>o, <2>2, <3>1, <3>2
    <3>3. CASE b = l + 1
      <4>1. l \in 1..l /\ a <= l
        BY <1>1, <3>1
      <4>2. m[l].hi < r.lo
        BY <1>1, <1>2, <1>6, <4>1
      <4>3. a # l => m[a].hi < m[l].lo /\ m[l].lo < m[l].hi
        BY <1>o, <1>1, <3>1, <4>1
      <4>4. m[a].hi \in Nat /\ m[l].lo \in Nat /\ m[l].hi \in Nat
        BY <1>1, <3>1, <4>1
      <4>5. m[a].hi < r.lo
        BY ONLY <1>2, <4>2, <4>3, <4>4
      <4> QED BY <2>2, <3>1, <3>3, <4>5
    <3> QED BY <2>3, <3>2, <3>3
  <2>6. \A g \in Nat : InRanges(d, g) <=> InRanges(m, g) \/ (r.lo <= g /\ g < r.hi)
    <3> SUFFICES ASSUME NEW g \in Nat
                 PROVE  InRanges(d, g) <=> InRanges(m, g) \/ (r.lo <= g /\ g < r.hi)
      OBVIOUS
    <3>1. InRanges(d, g) <=> \E k \in 1..l + 1 : d[k].lo <= g /\ g < d[k].hi
      BY <2>2 DEF InRanges
    <3>2. InRanges(m, g) <=> \E k \in 1..l : m[k].lo <= g /\ g < m[k].hi
      BY <1>1 DEF InRanges
    <3>3. 1..l \subseteq 1..l + 1 /\ l + 1 \in 1..l + 1
      BY <1>1
    <3> QED BY <2>2, <2>3, <3>1, <3>2, <3>3
  <2>7. Len(d) # 0 /\ d[Len(d)].lo <= w[n + 1].lo
    BY <1>1, <1>2, <2>2
  <2>8. n + 1 # 0
    OBVIOUS
  <2>9. \A g \in Nat : InRanges(d, g) <=> \E i \in 1..n + 1 : w[i].lo <= g /\ g < w[i].hi
    BY <1>4, <2>6
  <2> QED BY ONLY <2>2, <2>4, <2>5, <2>7, <2>8, <2>9 DEF Apart
<1> QED BY <1>5, <1>6

(* Merged, the ranges are in order, apart, and hold the events they held.  *)
LEMMA MergedIs ==
  ASSUME NEW ranges, NEW S, S = Clamped(ranges), S \in SUBSET ARange, IsFiniteSet(S)
  PROVE  /\ Merged(ranges) \in Seq(ARange)
         /\ \A k \in 1..Len(Merged(ranges)) : Merged(ranges)[k].lo < Merged(ranges)[k].hi
         /\ \A a, b \in 1..Len(Merged(ranges)) : a < b => Merged(ranges)[a].hi < Merged(ranges)[b].lo
         /\ \A g \in Nat : InRanges(Merged(ranges), g) <=> \E r \in S : r.lo <= g /\ g < r.hi
<1> DEFINE w == Sorted(S)
           n == Len(w)
           f == CHOOSE h : IsMerging(h, w, n)
<1>1. /\ n \in Nat /\ w \in Seq(S) /\ n = Cardinality(S)
      /\ \A i, j \in 1..n : i < j => Before(w[i], w[j])
      /\ \A r \in S : \E i \in 1..n : w[i] = r
  BY SortedIs
<1>2. \A i \in 1..n : w[i] \in S
  BY <1>1, SeqIsFunction
<1>3. w \in [1..n -> ARange]
  <2>1. w \in [1..n -> S]
    BY <1>1
  <2> QED BY <2>1
<1>4. \A r \in S : r.lo < r.hi
  BY DEF Clamped
<1>5. \A i \in 1..n : w[i].lo < w[i].hi
  BY <1>2, <1>4
<1>6. Merged(ranges) = f[n]
  BY DEF Merged, IsMerging
<1> HIDE DEF w, n
<1>7. IsMerging(f, w, n)
  BY <1>1, MergingExists
<1> HIDE DEF f
<1>8. f[0] = << >> /\ \A i \in 1..n : f[i] = MergeInto(f[i - 1], w[i])
  BY <1>1, <1>7 DEF IsMerging
<1> DEFINE A == {m \in Nat : m <= n => Apart(f[m], w, m)}
<1>9. 0 \in A
  <2> DEFINE e == << >>
  <2>1. e \in Seq(ARange) /\ Len(e) = 0 /\ DOMAIN e = 1..0
    OBVIOUS
  <2>2. f[0] = e
    BY <1>8
  <2> HIDE DEF e
  <2>3. Apart(e, w, 0)
    <3>1. \A g \in Nat : ~InRanges(e, g)
      BY <2>1 DEF InRanges
    <3>2. e = << >>
      BY <1>8, <2>2
    <3> QED BY <2>1, <3>1, <3>2 DEF Apart
  <2> QED BY <2>2, <2>3
<1>10. ASSUME NEW m \in Nat, m \in A PROVE m + 1 \in A
  <2> SUFFICES ASSUME m + 1 <= n PROVE Apart(f[m + 1], w, m + 1)
    OBVIOUS
  <2>1. Apart(f[m], w, m)
    BY <1>1, <1>10
  <2>2. Apart(MergeInto(f[m], w[m + 1]), w, m + 1)
    BY <1>1, <1>3, <1>5, <2>1, MergeOne
  <2>3. f[m + 1] = MergeInto(f[m], w[m + 1])
    BY <1>1, <1>8
  <2> QED BY <2>2, <2>3
<1>11. Apart(f[n], w, n)
  <2> HIDE DEF A
  <2>1. n \in A
    BY <1>1, <1>9, <1>10, Induction
  <2> QED BY <1>1, <2>1 DEF A
<1>12. \A g \in Nat : (\E i \in 1..n : w[i].lo <= g /\ g < w[i].hi) <=> \E r \in S : r.lo <= g /\ g < r.hi
  BY <1>1, <1>2
<1> QED BY ONLY <1>6, <1>11, <1>12 DEF Apart

(* Clamped to the chain, they hold the events of the chain they held.      *)
LEMMA ClampedIs ==
  ASSUME NEW ranges \in Seq(ARange)
  PROVE  /\ Clamped(ranges) \in SUBSET ARange /\ IsFiniteSet(Clamped(ranges))
         /\ \A g \in Nat : g < Total =>
              (InRanges(ranges, g) <=> \E r \in Clamped(ranges) : r.lo <= g /\ g < r.hi)
<1> DEFINE n == Len(ranges)
           C(i) == [lo |-> LowOf(ranges[i].lo, Total), hi |-> LowOf(ranges[i].hi, Total)]
           all == {C(i) : i \in 1..n}
<1>1. /\ n \in Nat /\ DOMAIN ranges = 1..n
      /\ \A i \in 1..n : ranges[i] \in ARange /\ ranges[i].lo \in Nat /\ ranges[i].hi \in Nat
  <2>1. n \in Nat /\ DOMAIN ranges = 1..n /\ \A i \in 1..n : ranges[i] \in ARange
    BY SeqIsFunction
  <2> QED BY <2>1 DEF ARange
<1>2. Total \in Nat
  BY OffsetSteps
<1>3. Clamped(ranges) = {r \in all : r.lo < r.hi}
  BY <1>1 DEF Clamped
<1>4. \A i \in 1..n : C(i) \in ARange
  BY <1>1, <1>2 DEF ARange, LowOf
<1>5. IsFiniteSet(1..n)
  <2>1. n \in Int
    BY <1>1
  <2> HIDE DEF n
  <2> QED BY <2>1, FS_Interval
<1>6. IsFiniteSet(all)
  <2> DEFINE c == [i \in 1..n |-> C(i)]
  <2> HIDE DEF C, n
  <2>1. c \in Surjection(1..n, all)
    BY DEF Surjection
  <2> HIDE DEF c, all
  <2> QED BY <1>5, <2>1, FS_Surjection
<1>7. IsFiniteSet(Clamped(ranges))
  <2>1. {r \in all : r.lo < r.hi} \in SUBSET all
    OBVIOUS
  <2> HIDE DEF all
  <2> QED BY <1>3, <1>6, <2>1, FS_Subset
<1>8. Clamped(ranges) \in SUBSET ARange
  BY <1>3, <1>4
<1>9. ASSUME NEW g \in Nat, g < Total
      PROVE  InRanges(ranges, g) <=> \E r \in Clamped(ranges) : r.lo <= g /\ g < r.hi
  <2>1. ASSUME NEW i \in 1..n
        PROVE  (ranges[i].lo <= g /\ g < ranges[i].hi) <=>
                 (C(i).lo <= g /\ g < C(i).hi /\ C(i).lo < C(i).hi)
    <3> DEFINE x == ranges[i].lo
               y == ranges[i].hi
    <3>1. x \in Nat /\ y \in Nat
      BY <1>1
    <3>2. C(i).lo = LowOf(x, Total) /\ C(i).hi = LowOf(y, Total)
      OBVIOUS
    <3> HIDE DEF x, y, C
    <3>3. (x <= g /\ g < y) <=>
            (LowOf(x, Total) <= g /\ g < LowOf(y, Total) /\ LowOf(x, Total) < LowOf(y, Total))
      BY <1>2, <1>9, <3>1 DEF LowOf
    <3> QED BY <3>2, <3>3 DEF x, y
  <2>2. InRanges(ranges, g) <=> \E i \in 1..n : ranges[i].lo <= g /\ g < ranges[i].hi
    BY <1>1 DEF InRanges
  <2> HIDE DEF C
  <2> QED BY <1>3, <2>1, <2>2
<1> QED BY <1>7, <1>8, <1>9

(* What a predicate says of the first few only is found by counting.       *)
LEMMA PartitionPointDivides ==
  ASSUME NEW n \in Nat, NEW p, DOMAIN p = 1..n, \A a, b \in 1..n : a < b /\ p[b] => p[a]
  PROVE  PartitionPoint(p) \in 0..n /\ \A i \in 1..n : p[i] <=> i <= PartitionPoint(p)
<1> DEFINE T == {i \in 1..n : ~p[i]}
<1>1. \E k \in 0..n : \A i \in 1..n : p[i] <=> i <= k
  <2>1. CASE T = {}
    <3>1. \A i \in 1..n : p[i] <=> i <= n
      BY <2>1
    <3> QED BY <3>1
  <2>2. CASE T # {}
    <3>1. T \in SUBSET Nat
      OBVIOUS
    <3>2. PICK m \in T : \A k \in T : m <= k
      <4> HIDE DEF T
      <4> QED BY <2>2, <3>1, Least
    <3>3. m - 1 \in 0..n
      BY <3>2
    <3>4. \A i \in 1..n : p[i] <=> i <= m - 1
      BY <3>2
    <3> QED BY <3>3, <3>4
  <2> QED BY <2>1, <2>2
<1>2. PICK k \in 0..n : \A i \in 1..n : p[i] <=> i <= k
  BY <1>1
<1>3. PartitionPoint(p) = k
  BY <1>2, PartitionPointIs
<1> QED BY <1>2, <1>3

(* The slice of the merged ranges a record is given holds the same of its  *)
(* events as the ranges that were asked for, however those overlap.        *)
LEMMA WindowHolds ==
  ASSUME NEW ranges \in Seq(ARange), NEW i, RecStart(i) \in Nat, RecEnd(i) \in Nat, RecEnd(i) <= Total
  PROVE  /\ Window(i, ranges) \in Seq(ARange)
         /\ \A g \in Nat : RecStart(i) <= g /\ g < RecEnd(i) =>
              (InRanges(Window(i, ranges), g) <=> InRanges(ranges, g))
<1> DEFINE m == Merged(ranges)
           n == Len(m)
           ended == [k \in DOMAIN m |-> m[k].hi <= RecStart(i)]
           begun == [k \in DOMAIN m |-> m[k].lo < RecEnd(i)]
           e == PartitionPoint(ended)
           b == PartitionPoint(begun)
<1>1. /\ m \in Seq(ARange)
      /\ \A k \in 1..n : m[k].lo < m[k].hi
      /\ \A c, d \in 1..n : c < d => m[c].hi < m[d].lo
      /\ \A g \in Nat : InRanges(m, g) <=> \E r \in Clamped(ranges) : r.lo <= g /\ g < r.hi
  BY ClampedIs, MergedIs
<1>2. \A g \in Nat : g < Total => (InRanges(m, g) <=> InRanges(ranges, g))
  BY <1>1, ClampedIs
<1>3. Window(i, ranges) = SubSeq(m, e + 1, b)
  BY DEF Window
<1> HIDE DEF m
<1>4. n \in Nat /\ DOMAIN m = 1..n /\ \A k \in 1..n : m[k] \in ARange /\ m[k].lo \in Nat /\ m[k].hi \in Nat
  <2>1. n \in Nat /\ DOMAIN m = 1..n /\ \A k \in 1..n : m[k] \in ARange
    BY <1>1, SeqIsFunction
  <2> QED BY <2>1 DEF ARange
<1>5. e \in 0..n /\ \A k \in 1..n : m[k].hi <= RecStart(i) <=> k <= e
  <2>1. DOMAIN ended = 1..n /\ \A k \in 1..n : ended[k] <=> m[k].hi <= RecStart(i)
    BY <1>4
  <2>2. \A c, d \in 1..n : c < d /\ ended[d] => ended[c]
    <3> SUFFICES ASSUME NEW c \in 1..n, NEW d \in 1..n, c < d, ended[d] PROVE ended[c]
      OBVIOUS
    <3>1. m[c].hi < m[d].lo /\ m[d].lo < m[d].hi /\ m[d].hi <= RecStart(i)
      BY <1>1, <2>1
    <3>2. m[c].hi \in Nat /\ m[d].lo \in Nat /\ m[d].hi \in Nat
      BY <1>4
    <3>3. m[c].hi <= RecStart(i)
      BY ONLY <3>1, <3>2, RecStart(i) \in Nat
    <3> QED BY <2>1, <3>3
  <2> HIDE DEF ended, n
  <2> QED BY <1>4, <2>1, <2>2, PartitionPointDivides
<1>6. b \in 0..n /\ \A k \in 1..n : m[k].lo < RecEnd(i) <=> k <= b
  <2>1. DOMAIN begun = 1..n /\ \A k \in 1..n : begun[k] <=> m[k].lo < RecEnd(i)
    BY <1>4
  <2>2. \A c, d \in 1..n : c < d /\ begun[d] => begun[c]
    <3> SUFFICES ASSUME NEW c \in 1..n, NEW d \in 1..n, c < d, begun[d] PROVE begun[c]
      OBVIOUS
    <3>1. m[c].lo < m[c].hi /\ m[c].hi < m[d].lo /\ m[d].lo < RecEnd(i)
      BY <1>1, <2>1
    <3>2. m[c].lo \in Nat /\ m[c].hi \in Nat /\ m[d].lo \in Nat
      BY <1>4
    <3>3. m[c].lo < RecEnd(i)
      BY ONLY <3>1, <3>2, RecEnd(i) \in Nat
    <3> QED BY <2>1, <3>3
  <2> HIDE DEF begun, n
  <2> QED BY <1>4, <2>1, <2>2, PartitionPointDivides
<1> DEFINE s == SubSeq(m, e + 1, b)
<1>7. s \in Seq(ARange)
  <2> HIDE DEF e, b
  <2> QED BY <1>1, <1>5, <1>6
<1>8. /\ Len(s) \in Nat /\ DOMAIN s = 1..Len(s) /\ Len(s) = IF e + 1 <= b THEN b - e ELSE 0
      /\ \A k \in 1..Len(s) : s[k] = m[e + k]
  <2>1. e \in Nat /\ b \in Nat /\ e <= n /\ b <= n
    BY <1>4, <1>5, <1>6
  <2> HIDE DEF e, b
  <2> QED BY ONLY <1>1, <1>4, <2>1
<1> HIDE DEF e, b, s
<1>9. Window(i, ranges) = s
  BY <1>3 DEF s
<1>10. ASSUME NEW g \in Nat, RecStart(i) <= g, g < RecEnd(i)
       PROVE  InRanges(s, g) <=> InRanges(m, g)
  <2>1. ASSUME NEW k \in 1..Len(s) PROVE e + k \in 1..n /\ s[k] = m[e + k]
    BY <1>4, <1>5, <1>6, <1>8
  <2>2. ASSUME NEW k \in 1..n, m[k].lo <= g, g < m[k].hi
        PROVE  k - e \in 1..Len(s) /\ s[k - e] = m[k]
    <3>1. ~(m[k].hi <= RecStart(i)) /\ m[k].lo < RecEnd(i)
      BY ONLY <1>4, <1>10, <2>2, RecStart(i) \in Nat, RecEnd(i) \in Nat
    <3>2. ~(k <= e) /\ k <= b
      BY <1>5, <1>6, <3>1
    <3>3. k - e \in 1..Len(s) /\ e + (k - e) = k
      BY <1>4, <1>5, <1>6, <1>8, <3>2
    <3> QED BY <1>8, <3>3
  <2>3. InRanges(s, g) <=> \E k \in 1..Len(s) : s[k].lo <= g /\ g < s[k].hi
    BY <1>8 DEF InRanges
  <2>4. InRanges(m, g) <=> \E k \in 1..n : m[k].lo <= g /\ g < m[k].hi
    BY <1>4 DEF InRanges
  <2> QED BY <2>1, <2>2, <2>3, <2>4
<1>11. ASSUME NEW g \in Nat, RecStart(i) <= g, g < RecEnd(i)
       PROVE  InRanges(s, g) <=> InRanges(ranges, g)
  <2>1. g < Total
    BY <1>11, OffsetSteps
  <2> QED BY <1>2, <1>10, <1>11, <2>1
<1> QED BY <1>7, <1>9, <1>11

-----------------------------------------------------------------------------
(***************************************************************************)
(* The records of the chain, one after the other.                          *)
(***************************************************************************)
(* Each record's events follow those of the records before it, without a   *)
(* gap, and have the numbers the count through the files gives them.       *)
LEMMA RecordsInLine ==
  /\ Len(AllRecords) \in Nat /\ DOMAIN AllRecords = 1..Len(AllRecords) /\ Total \in Nat
  /\ \A i \in 1..Len(AllRecords) :
       /\ RecordOf(i) \in Record
       /\ RecStart(i) \in Nat /\ RecEnd(i) \in Nat
       /\ RecordOf(i).event_count \in Nat
       /\ RecEnd(i) = RecStart(i) + RecordOf(i).event_count /\ RecEnd(i) <= Total
       /\ \A k \in 1..RecordOf(i).event_count :
            Numbering[RecStart(i) + k] = [file |-> AllRecords[i][1], record |-> AllRecords[i][2], event |-> k]
  /\ \A i, j \in 1..Len(AllRecords) : i < j => RecEnd(i) <= RecStart(j)
  /\ \A g \in Nat : g < Total =>
       \E i \in 1..Len(AllRecords) : RecStart(i) <= g /\ g < RecEnd(i)
<1> DEFINE m == Len(AllRecords)
<1>1. PICK ro : RecordsBegin(ro)
  BY AllRecordsAre
<1>2. m \in Nat /\ DOMAIN AllRecords = 1..m /\ Total \in Nat
  BY RecordsExist, OffsetSteps
<1>3. ASSUME NEW i \in 1..m
      PROVE  /\ RecordOf(i) \in Record /\ RecordOf(i).event_count \in Nat
             /\ EventListCounts[i] = RecordOf(i).event_count
  <2>1. RecordOf(i) \in Record
    BY RecordsExist, FilesShape DEF RecordOf, RecordAt
  <2> QED BY <2>1 DEF EventListCounts, RecordOf, Record
<1>4. EventListCounts \in [1..m -> Nat]
  BY <1>3 DEF EventListCounts, RecordOf
<1>5. PICK no : IsTotal(no, EventListCounts, m)
  <2> HIDE DEF m
  <2> QED BY <1>2, <1>4, TotalExists
<1>6. /\ no \in [1..m + 1 -> Nat] /\ \A i \in 1..m : no[i + 1] = no[i] + EventListCounts[i]
  <2> HIDE DEF m
  <2> QED BY <1>2, <1>4, <1>5, TotalSteps
<1>7. /\ no[m + 1] = Total
      /\ \A fi \in 1..Len(Files) : \A ri \in 1..Len(Files[fi]) :
           no[ro[fi] + ri] = file_event_offsets[fi] + FirstEvent[fi][ri]
  BY <1>1, <1>5, Aligned
<1>8. ASSUME NEW i \in 1..m PROVE RecStart(i) = no[i]
  <2>1. PICK fi \in 1..Len(Files) : \E ri \in 1..Len(Files[fi]) :
          i = ro[fi] + ri /\ AllRecords[i] = <<fi, ri>>
    BY <1>1, RecordPlaces
  <2>2. PICK ri \in 1..Len(Files[fi]) : i = ro[fi] + ri /\ AllRecords[i] = <<fi, ri>>
    BY <2>1
  <2> QED BY <1>7, <2>2 DEF RecStart
<1>9. ASSUME NEW i \in 1..m
      PROVE  /\ RecStart(i) \in Nat /\ RecEnd(i) \in Nat
             /\ RecEnd(i) = RecStart(i) + RecordOf(i).event_count
             /\ RecEnd(i) = no[i + 1]
  <2>1. i \in 1..m + 1 /\ i + 1 \in 1..m + 1
    BY <1>2
  <2>2. no[i] \in Nat /\ no[i + 1] \in Nat /\ no[i + 1] = no[i] + RecordOf(i).event_count
    BY <1>3, <1>6, <2>1
  <2> QED BY <1>8, <2>2 DEF RecEnd
<1>10. ASSUME NEW i \in 1..m, NEW j \in 1..m + 1, i < j PROVE no[i + 1] <= no[j]
  <2>1. i + 1 \in 1..m + 1 /\ i + 1 <= j
    BY <1>2, <1>10
  <2> HIDE DEF m
  <2> QED BY <1>2, <1>4, <1>5, <2>1, TotalMonotone
<1>11. \A i \in 1..m : RecEnd(i) <= Total
  <2> TAKE i \in 1..m
  <2>1. m + 1 \in 1..m + 1 /\ i < m + 1
    BY <1>2
  <2> QED BY <1>7, <1>9, <1>10, <2>1
<1>12. \A i, j \in 1..m : i < j => RecEnd(i) <= RecStart(j)
  <2> TAKE i, j \in 1..m
  <2>1. j \in 1..m + 1
    BY <1>2
  <2> QED BY <1>8, <1>9, <1>10, <2>1
<1>13. ASSUME NEW g \in Nat, g < Total
       PROVE  \E i \in 1..m : RecStart(i) <= g /\ g < RecEnd(i)
  <2>1. PICK i \in 1..m : no[i] <= g /\ g < no[i] + EventListCounts[i]
    <3>1. g < no[m + 1]
      BY <1>7, <1>13
    <3> HIDE DEF m
    <3> QED BY <1>2, <1>4, <1>5, <3>1, Within
  <2> QED BY <1>3, <1>8, <1>9, <2>1
<1>14. ASSUME NEW i \in 1..m, NEW k \in 1..RecordOf(i).event_count
       PROVE  Numbering[RecStart(i) + k] = [file |-> AllRecords[i][1], record |-> AllRecords[i][2], event |-> k]
  BY RecordsExist, NumberingIs DEF RecStart, RecordOf, RecordAt
<1> QED BY <1>2, <1>3, <1>9, <1>11, <1>12, <1>13, <1>14

(* for_each_ranges: for every list of ranges, whether they overlap, touch, *)
(* are empty, inverted or past the end, and every record, the slice of the *)
(* merged ranges that goes with the record holds just those of its events  *)
(* that the list does.                                                     *)
THEOREM WindowsLoseNothing ==
  ASSUME NEW ranges \in Seq([lo: Nat, hi: Nat]),
         NEW i \in DOMAIN AllRecords, NEW k \in 1..RecordOf(i).event_count
  PROVE  InRanges(Window(i, ranges), RecStart(i) + k - 1) <=> InRanges(ranges, RecStart(i) + k - 1)
<1> DEFINE a == RecStart(i)
           c == RecordOf(i).event_count
           b == RecEnd(i)
           g == a + k - 1
<1>1. a \in Nat /\ c \in Nat /\ b \in Nat /\ b = a + c /\ b <= Total
  BY RecordsInLine
<1>2. ranges \in Seq(ARange)
  BY DEF ARange
<1>3. \A x \in Nat : a <= x /\ x < b => (InRanges(Window(i, ranges), x) <=> InRanges(ranges, x))
  BY <1>1, <1>2, WindowHolds
<1>4. k \in 1..c
  OBVIOUS
<1> HIDE DEF a, c, b
<1>5. g \in Nat /\ a <= g /\ g < b
  BY ONLY <1>1, <1>4
<1> HIDE DEF g
<1>6. InRanges(Window(i, ranges), g) <=> InRanges(ranges, g)
  BY <1>3, <1>5
<1> QED BY <1>6 DEF g, a

(* A request, spelled out.                                                 *)
LEMMA RequestShape ==
  ASSUME NEW r \in Request
  PROVE  /\ r.ranges \in Seq(ARange) /\ Len(r.ranges) \in Nat /\ DOMAIN r.ranges = 1..Len(r.ranges)
         /\ r.threads \in 1..MaxThreads /\ MaxThreads \in Nat
         /\ r.kind \in {"for_each", "ranges", "columns"}
         /\ r.kind = "columns" => Len(r.ranges) <= 1
         /\ r.kind = "for_each" => r.ranges = << >>
         /\ r.ranges = << >> <=> Len(r.ranges) = 0
<1>1. /\ r \in [kind: {"for_each", "ranges", "columns"}, record_tags: SUBSET Nat,
                ranges: Seq(ARange), threads: 1..MaxThreads]
      /\ r.kind = "columns" => Len(r.ranges) <= 1
      /\ r.kind = "for_each" => r.ranges = << >>
      /\ MaxThreads \in Nat
  BY ChainScanAssumption DEF ARange
<1>2. /\ r.ranges \in Seq(ARange) /\ r.threads \in 1..MaxThreads
      /\ r.kind \in {"for_each", "ranges", "columns"}
  BY <1>1
<1>3. \A s \in Seq(ARange) : Len(s) \in Nat /\ DOMAIN s = 1..Len(s) /\ (s = << >> <=> Len(s) = 0)
  OBVIOUS
<1> QED BY <1>1, <1>2, <1>3

(* No range, no window.                                                    *)
LEMMA NoWindow ==
  ASSUME NEW i, RecStart(i) \in Nat, RecEnd(i) \in Nat
  PROVE  Window(i, << >>) = << >>
<1> DEFINE m == Merged(<< >>)
<1>1. Clamped(<< >>) = {}
  BY DEF Clamped
<1>2. {} \in SUBSET ARange /\ IsFiniteSet({})
  BY FS_EmptySet
<1>3. /\ m \in Seq(ARange)
      /\ \A k \in 1..Len(m) : m[k].lo < m[k].hi
      /\ \A g \in Nat : ~InRanges(m, g)
  BY <1>1, <1>2, MergedIs
<1> HIDE DEF m
<1>4. Len(m) \in Nat /\ DOMAIN m = 1..Len(m) /\ \A k \in 1..Len(m) : m[k] \in ARange
  BY <1>3, SeqIsFunction
<1>5. 1..Len(m) = {}
  <2> SUFFICES ASSUME NEW k \in 1..Len(m) PROVE FALSE
    OBVIOUS
  <2>1. m[k].lo \in Nat
    BY <1>4 DEF ARange
  <2>2. InRanges(m, m[k].lo)
    BY <1>3, <1>4, <2>1 DEF InRanges
  <2> QED BY <1>3, <2>1, <2>2
<1>6. Len(m) = 0 /\ DOMAIN m = {}
  BY <1>4, <1>5
<1>7. \A p : DOMAIN p = DOMAIN m => PartitionPoint(p) = 0
  BY <1>6, FS_EmptySet DEF PartitionPoint
<1>8. Window(i, << >>) = SubSeq(m, 0 + 1, 0)
  BY <1>7 DEF Window, m
<1>9. SubSeq(m, 1, 0) = << >>
  BY ONLY <1>3
<1> QED BY <1>8, <1>9

(* The tasks of a request: the records of the tags asked for, but those no *)
(* range touches, each with ranges that hold the same of its events.       *)
LEMMA TasksAre ==
  ASSUME NEW r \in Request
  PROVE  LET ts == TasksOf(r) IN
         /\ DOMAIN ts \subseteq 1..Len(AllRecords) /\ ts \in [DOMAIN ts -> Seq(ARange)]
         /\ \A i \in DOMAIN ts : Matches(RecordOf(i), r.record_tags)
         /\ \A i \in DOMAIN ts : \A g \in Nat : RecStart(i) <= g /\ g < RecEnd(i) =>
              ((r.ranges # << >> => InRanges(ts[i], g))
                 <=> (r.kind = "ranges" \/ r.ranges # << >> => InRanges(r.ranges, g)))
         /\ \A i \in 1..Len(AllRecords) : i \notin DOMAIN ts /\ Matches(RecordOf(i), r.record_tags) =>
              r.kind = "ranges" /\ \A g \in Nat : RecStart(i) <= g /\ g < RecEnd(i) => ~InRanges(r.ranges, g)
<1> DEFINE m == Len(AllRecords)
           ts == TasksOf(r)
           D == Touched(r)
<1>1. DOMAIN AllRecords = 1..m
  BY RecordsInLine
<1>2. ts = [i \in D |-> RangesFor(i, r)]
  BY DEF TasksOf
<1>3. r.ranges \in Seq(ARange)
  BY RequestShape
<1>4. \A i \in 1..m : RecStart(i) \in Nat /\ RecEnd(i) \in Nat /\ RecEnd(i) <= Total
  BY RecordsInLine
<1>5. \A i : RangesFor(i, r) = IF r.kind = "ranges" THEN Window(i, r.ranges) ELSE r.ranges
  BY DEF RangesFor
<1>6. \A i \in 1..m : Window(i, r.ranges) \in Seq(ARange)
  BY <1>3, <1>4, WindowHolds
<1>7. \A i \in 1..m : RangesFor(i, r) \in Seq(ARange)
  BY <1>3, <1>5, <1>6
<1>8. D \subseteq 1..m /\ DOMAIN ts = D /\ \A i \in D : ts[i] = RangesFor(i, r)
  BY <1>1, <1>2 DEF Touched
<1>9. \A i \in 1..m : i \in D <=> /\ Matches(RecordOf(i), r.record_tags)
                                  /\ r.kind = "ranges" => RangesFor(i, r) # << >>
  BY <1>1 DEF Touched
<1> HIDE DEF D, ts
<1>10. ts \in [D -> Seq(ARange)]
  BY <1>2, <1>7, <1>8
<1>11. ASSUME NEW i \in D, NEW g \in Nat, RecStart(i) <= g, g < RecEnd(i)
       PROVE  (r.ranges # << >> => InRanges(ts[i], g))
                <=> (r.kind = "ranges" \/ r.ranges # << >> => InRanges(r.ranges, g))
  <2>1. i \in 1..m
    BY <1>8
  <2>2. CASE r.kind = "ranges"
    <3>1. ts[i] = Window(i, r.ranges) /\ Window(i, r.ranges) # << >>
      BY <1>5, <1>8, <1>9, <2>1, <2>2
    <3>2. r.ranges # << >>
      BY <1>4, <2>1, <3>1, NoWindow
    <3>3. InRanges(ts[i], g) <=> InRanges(r.ranges, g)
      BY <1>3, <1>4, <1>11, <2>1, <3>1, WindowHolds
    <3> QED BY <2>2, <3>2, <3>3
  <2>3. CASE r.kind # "ranges"
    <3>1. ts[i] = r.ranges
      BY <1>5, <1>8, <2>1, <2>3
    <3> QED BY <2>3, <3>1
  <2> QED BY <2>2, <2>3
<1>12. ASSUME NEW i \in 1..m, i \notin D, Matches(RecordOf(i), r.record_tags)
       PROVE  r.kind = "ranges" /\ \A g \in Nat : RecStart(i) <= g /\ g < RecEnd(i) => ~InRanges(r.ranges, g)
  <2>1. r.kind = "ranges" /\ Window(i, r.ranges) = << >>
    BY <1>5, <1>9, <1>12
  <2>2. \A g : ~InRanges(<< >>, g)
    BY DEF InRanges
  <2>3. \A g \in Nat : RecStart(i) <= g /\ g < RecEnd(i) =>
          (InRanges(Window(i, r.ranges), g) <=> InRanges(r.ranges, g))
    BY <1>3, <1>4, WindowHolds
  <2> QED BY <2>1, <2>2, <2>3
<1> QED BY <1>8, <1>9, <1>10, <1>11, <1>12 DEF ts
-----------------------------------------------------------------------------
(***************************************************************************)
(* The inductive invariant.                                                *)
(***************************************************************************)
EventsIn(i) == 1..Len(RecordOf(i).passes)
NumberOf(i, k) == RecStart(i) + k - 1
Chosen(i, k) == Holds(i, k) /\ RecordOf(i).passes[k]

(* The records taken, and of those the unreadable ones and the ones that   *)
(* have been read and that no worker is in any more.                       *)
Begun == DOMAIN tasks \ todo
Failing(i) == ~PassedOver(i) /\ ~Readable(RecordOf(i))
Read(i) == i \in Begun /\ ~PassedOver(i) /\ Readable(RecordOf(i))
Done(i) == Read(i) /\ \A w \in Worker : at[w] # i

(* Event k of record i has been gone through.                              *)
Gone(i, k) == Read(i) /\ \A w \in Worker : at[w] = i => k < next_event[w]

(* A worker is in a record it has read, alone, and not past its end.       *)
AtWork ==
  /\ \A w \in Worker : at[w] # 0 =>
       /\ outcome = "running" /\ w <= request.threads
       /\ Read(at[w])
       /\ next_event[w] \in 1..Len(RecordIn(w).passes) + 1
  /\ \A w, v \in Worker : at[w] # 0 /\ at[w] = at[v] => w = v

(* f has been called once, in order, with those of the events gone through *)
(* that were asked for.                                                    *)
VisitsAre ==
  \A i \in DOMAIN AllRecords :
    /\ \A a, b \in DOMAIN visits[i] : a < b => visits[i][a] < visits[i][b]
    /\ \A k : (\E a \in DOMAIN visits[i] : visits[i][a] = k)
                <=> k \in EventsIn(i) /\ Gone(i, k) /\ Chosen(i, k)

(* Whether the scan has failed, and that it is over when it says so.       *)
Outcomes ==
  /\ failed <=> \E i \in Begun : Failing(i)
  /\ outcome = "ok" => ~failed /\ todo = {} /\ \A w \in Worker : at[w] = 0

(* On one thread the records are taken in order, and none after an         *)
(* unreadable one.                                                         *)
InOrder ==
  request.threads = 1 =>
    \A i \in Begun :
      /\ \A j \in todo : i < j
      /\ \A w \in Worker : at[w] # 0 => i <= at[w]
      /\ Failing(i) => \A j \in Begun : j <= i

ScanInv ==
  /\ TypeOK /\ tasks = TasksOf(request)
  /\ AtWork /\ VisitsAre /\ Outcomes /\ InOrder
-----------------------------------------------------------------------------
(***************************************************************************)
(* What is asked for.                                                      *)
(***************************************************************************)
CountOf(i) == RecordOf(i).event_count

(* The events of a record have numbers of their own.                       *)
LEMMA NumbersApart ==
  ASSUME NEW i \in 1..Len(AllRecords), NEW k \in 1..CountOf(i)
  PROVE  /\ NumberOf(i, k) \in Nat /\ NumberOf(i, k) < Total
         /\ RecStart(i) <= NumberOf(i, k) /\ NumberOf(i, k) < RecEnd(i)
         /\ NumberOf(i, k) + 1 = RecStart(i) + k
         /\ \A j \in 1..Len(AllRecords) : \A l \in 1..CountOf(j) :
              /\ NumberOf(i, k) = NumberOf(j, l) => i = j /\ k = l
              /\ i < j => NumberOf(i, k) < NumberOf(j, l)
<1>1. ASSUME NEW j \in 1..Len(AllRecords), NEW l \in 1..CountOf(j)
      PROVE  /\ NumberOf(j, l) = RecStart(j) + l - 1 /\ RecStart(j) \in Nat /\ RecEnd(j) \in Nat
             /\ NumberOf(j, l) \in Nat /\ NumberOf(j, l) < Total
             /\ RecStart(j) <= NumberOf(j, l) /\ NumberOf(j, l) < RecEnd(j)
             /\ NumberOf(j, l) + 1 = RecStart(j) + l
  <2> DEFINE a == RecStart(j)
             c == CountOf(j)
             b == RecEnd(j)
  <2>1. a \in Nat /\ c \in Nat /\ b = a + c /\ b <= Total /\ Total \in Nat
    BY RecordsInLine DEF CountOf
  <2> HIDE DEF a, c, b
  <2>2. l \in Nat /\ 1 <= l /\ l <= c
    BY <2>1 DEF c
  <2>3. /\ b \in Nat /\ a + l - 1 \in Nat /\ a + l - 1 < Total
        /\ a <= a + l - 1 /\ a + l - 1 < b /\ (a + l - 1) + 1 = a + l
    BY ONLY <2>1, <2>2
  <2> QED BY <2>1, <2>3 DEF NumberOf, a, b
<1>2. ASSUME NEW j \in 1..Len(AllRecords), NEW l \in 1..CountOf(j)
      PROVE  /\ NumberOf(i, k) = NumberOf(j, l) => i = j /\ k = l
             /\ i < j => NumberOf(i, k) < NumberOf(j, l)
  <2>1. i \in Nat /\ j \in Nat /\ k \in Nat /\ l \in Nat
    BY RecordsInLine DEF CountOf
  <2>2. i < j => NumberOf(i, k) < NumberOf(j, l)
    <3>1. i < j => RecEnd(i) <= RecStart(j)
      BY RecordsInLine
    <3> QED BY <1>1, <3>1
  <2>3. j < i => NumberOf(j, l) < NumberOf(i, k)
    <3>1. j < i => RecEnd(j) <= RecStart(i)
      BY RecordsInLine
    <3> QED BY <1>1, <3>1
  <2>4. i = j /\ NumberOf(i, k) = NumberOf(j, l) => k = l
    BY <1>1, <2>1 DEF NumberOf
  <2>5. NumberOf(i, k) \in Nat /\ NumberOf(j, l) \in Nat
    BY <1>1
  <2> QED BY ONLY <2>1, <2>2, <2>3, <2>4, <2>5
<1> QED BY <1>1, <1>2

(* Every number of the chain is that of an event of a record, the one the  *)
(* count through the files gives it.                                       *)
LEMMA Numbered ==
  ASSUME NEW g \in Nat, g < Total
  PROVE  \E i \in 1..Len(AllRecords) : \E k \in 1..CountOf(i) :
           /\ g = NumberOf(i, k)
           /\ RecordAt(Numbering[g + 1].file, Numbering[g + 1].record) = RecordOf(i)
           /\ Numbering[g + 1].event = k
<1>1. PICK i \in 1..Len(AllRecords) : RecStart(i) <= g /\ g < RecEnd(i)
  BY RecordsInLine
<1> DEFINE a == RecStart(i)
           c == CountOf(i)
           b == RecEnd(i)
           k == g - a + 1
<1>2. a \in Nat /\ c \in Nat /\ b = a + c
  BY RecordsInLine DEF CountOf
<1>3. a <= g /\ g < b
  BY <1>1
<1> HIDE DEF a, c, b
<1>4. k \in 1..c /\ g = a + k - 1 /\ g + 1 = a + k
  BY ONLY <1>2, <1>3, g \in Nat
<1> HIDE DEF k
<1>5. Numbering[a + k] = [file |-> AllRecords[i][1], record |-> AllRecords[i][2], event |-> k]
  BY <1>4, RecordsInLine DEF a, c, CountOf
<1>6. /\ Numbering[g + 1].file = AllRecords[i][1]
      /\ Numbering[g + 1].record = AllRecords[i][2]
      /\ Numbering[g + 1].event = k
  BY <1>4, <1>5
<1> QED BY <1>4, <1>6 DEF NumberOf, RecordOf, a, c

(* The events counted and wanted are those of the tasks that the windows   *)
(* hold; a record that read_columns passes over has none.                  *)
LEMMA AskedIs ==
  ASSUME request \in Request, tasks = TasksOf(request), TagsReadable
  PROVE  /\ \A g \in Nat : g < Total =>
              /\ g \in Counted[request] <=>
                   \E i \in DOMAIN tasks : \E k \in 1..CountOf(i) : g = NumberOf(i, k) /\ Holds(i, k)
              /\ g \in Wanted[request] <=>
                   \E i \in DOMAIN tasks : \E k \in 1..CountOf(i) : g = NumberOf(i, k) /\ Chosen(i, k)
         /\ \A i \in DOMAIN tasks : PassedOver(i) => \A k \in 1..CountOf(i) : ~Holds(i, k)
<1> DEFINE m == Len(AllRecords)
           asked(g) == request.kind = "ranges" \/ request.ranges # << >> => InRanges(request.ranges, g)
           tags == request.record_tags
<1>1. DOMAIN tasks \subseteq 1..m
  BY TasksAre
<1>2. ASSUME NEW i \in DOMAIN tasks, NEW k \in 1..CountOf(i)
      PROVE  Holds(i, k) <=> asked(NumberOf(i, k))
  <2>1. /\ NumberOf(i, k) \in Nat /\ RecStart(i) <= NumberOf(i, k) /\ NumberOf(i, k) < RecEnd(i)
    BY <1>1, NumbersApart
  <2>2. (request.ranges # << >> => InRanges(tasks[i], NumberOf(i, k))) <=> asked(NumberOf(i, k))
    BY <2>1, TasksAre
  <2> QED BY <2>2 DEF Holds, NumberOf
<1>3. ASSUME NEW i \in 1..m
      PROVE  Matches(RecordOf(i), tags) <=> (tags = {} \/ RecordOf(i).user_word \in tags)
  <2>1. tags # {} => RecordOf(i).header_ok
    BY RecordsInLine DEF TagsReadable
  <2> QED BY <2>1 DEF Matches
<1>4. ASSUME NEW i \in 1..m, NEW k \in 1..CountOf(i), i \notin DOMAIN tasks,
             Matches(RecordOf(i), tags)
      PROVE  ~asked(NumberOf(i, k))
  <2>1. /\ NumberOf(i, k) \in Nat /\ RecStart(i) <= NumberOf(i, k) /\ NumberOf(i, k) < RecEnd(i)
    BY NumbersApart
  <2> QED BY <1>4, <2>1, TasksAre
<1>5. \A i \in DOMAIN tasks : Matches(RecordOf(i), tags)
  BY TasksAre
<1>6. ASSUME NEW g \in Nat, g < Total
      PROVE  /\ g \in Counted[request] <=>
                  \E i \in DOMAIN tasks : \E k \in 1..CountOf(i) : g = NumberOf(i, k) /\ Holds(i, k)
             /\ g \in Wanted[request] <=>
                  \E i \in DOMAIN tasks : \E k \in 1..CountOf(i) : g = NumberOf(i, k) /\ Chosen(i, k)
  <2>1. PICK i \in 1..m : \E k \in 1..CountOf(i) :
          /\ g = NumberOf(i, k)
          /\ RecordAt(Numbering[g + 1].file, Numbering[g + 1].record) = RecordOf(i)
          /\ Numbering[g + 1].event = k
    BY <1>6, Numbered
  <2>2. PICK k \in 1..CountOf(i) :
          /\ g = NumberOf(i, k)
          /\ RecordAt(Numbering[g + 1].file, Numbering[g + 1].record) = RecordOf(i)
          /\ Numbering[g + 1].event = k
    BY <2>1
  <2>3. InRequest(request, g) <=> Matches(RecordOf(i), tags) /\ asked(g)
    BY <1>3, <2>2 DEF InRequest
  <2>4. Passes(g) = RecordOf(i).passes[k]
    BY <2>2 DEF Passes
  <2>5. g \in 0..Total - 1
    BY <1>6, RecordsInLine
  <2>6. /\ g \in Counted[request] <=> InRequest(request, g)
        /\ g \in Wanted[request] <=> InRequest(request, g) /\ Passes(g)
    BY <2>5 DEF Counted, Wanted
  <2>7. \A j \in DOMAIN tasks : \A l \in 1..CountOf(j) : g = NumberOf(j, l) => j = i /\ l = k
    <3>1. \A j \in 1..m : \A l \in 1..CountOf(j) : NumberOf(i, k) = NumberOf(j, l) => i = j /\ k = l
      BY NumbersApart
    <3> QED BY <1>1, <2>2, <3>1
  <2>8. InRequest(request, g) <=> i \in DOMAIN tasks /\ Holds(i, k)
    <3>1. CASE i \in DOMAIN tasks
      BY <1>2, <1>5, <2>2, <2>3, <3>1
    <3>2. CASE i \notin DOMAIN tasks
      BY <1>4, <2>2, <2>3, <3>2
    <3> QED BY <3>1, <3>2
  <2> HIDE DEF asked, m
  <2> QED BY <2>2, <2>4, <2>6, <2>7, <2>8 DEF Chosen
<1>7. ASSUME NEW i \in DOMAIN tasks, PassedOver(i), NEW k \in 1..CountOf(i)
      PROVE  ~Holds(i, k)
  <2>1. /\ request.kind = "columns" /\ request.ranges # << >>
        /\ RecEnd(i) <= request.ranges[1].lo \/ RecStart(i) >= request.ranges[1].hi
    BY <1>7 DEF PassedOver
  <2>2. /\ Len(request.ranges) = 1 /\ DOMAIN request.ranges = 1..1 /\ request.ranges[1] \in ARange
    <3> DEFINE s == request.ranges
    <3>1. s \in Seq(ARange) /\ Len(s) \in Nat /\ Len(s) <= 1 /\ Len(s) # 0 /\ DOMAIN s = 1..Len(s)
      BY <2>1, RequestShape
    <3>2. \A j \in 1..Len(s) : s[j] \in ARange
      BY <3>1, SeqIsFunction
    <3> HIDE DEF s
    <3>3. Len(s) = 1
      BY <3>1
    <3> QED BY <3>1, <3>2, <3>3 DEF s
  <2>3. InRanges(request.ranges, NumberOf(i, k)) =>
          request.ranges[1].lo <= NumberOf(i, k) /\ NumberOf(i, k) < request.ranges[1].hi
    BY <2>2 DEF InRanges
  <2>4. /\ NumberOf(i, k) \in Nat /\ RecStart(i) <= NumberOf(i, k) /\ NumberOf(i, k) < RecEnd(i)
        /\ RecStart(i) \in Nat /\ RecEnd(i) \in Nat
    BY <1>1, NumbersApart, RecordsInLine
  <2>5. request.ranges[1].lo \in Nat /\ request.ranges[1].hi \in Nat
    BY <2>2 DEF ARange
  <2>6. ~InRanges(request.ranges, NumberOf(i, k))
    BY ONLY <2>1, <2>3, <2>4, <2>5
  <2> QED BY <1>2, <2>1, <2>6
<1> QED BY <1>6, <1>7
-----------------------------------------------------------------------------
(***************************************************************************)
(* The invariant is inductive.                                             *)
(***************************************************************************)
(* The shape of the state, in the terms the steps need it.                 *)
LEMMA ScanShape ==
  ASSUME ScanInv
  PROVE  /\ request \in Request /\ MaxThreads \in Nat
         /\ DOMAIN AllRecords = 1..Len(AllRecords) /\ Len(AllRecords) \in Nat
         /\ DOMAIN tasks \subseteq 1..Len(AllRecords) /\ 0 \notin DOMAIN tasks
         /\ todo \subseteq DOMAIN tasks
         /\ \A w \in Worker : /\ (at[w] = 0 \/ at[w] \in Begun)
                              /\ next_event[w] \in Nat /\ next_event[w] >= 1
         /\ \A i \in 1..Len(AllRecords) : /\ Len(RecordOf(i).passes) \in Nat
                                          /\ \A k \in EventsIn(i) : RecordOf(i).passes[k] \in BOOLEAN
<1>1. /\ DOMAIN AllRecords = 1..Len(AllRecords) /\ Len(AllRecords) \in Nat
      /\ \A i \in 1..Len(AllRecords) : RecordOf(i) \in Record
  BY RecordsInLine
<1>2. request \in Request /\ todo \subseteq DOMAIN tasks /\ DOMAIN tasks \subseteq DOMAIN AllRecords
  BY DEF ScanInv, TypeOK
<1>3. MaxThreads \in Nat
  BY ChainScanAssumption
<1>4. \A w \in Worker : /\ at[w] = 0 \/ at[w] \in Begun
                        /\ next_event[w] \in Nat /\ next_event[w] >= 1
  BY DEF ScanInv, TypeOK, Begun
<1>5. ASSUME NEW i \in 1..Len(AllRecords)
      PROVE  /\ Len(RecordOf(i).passes) \in Nat
             /\ \A k \in EventsIn(i) : RecordOf(i).passes[k] \in BOOLEAN
  <2>1. RecordOf(i).passes \in Seq(BOOLEAN)
    BY <1>1 DEF Record
  <2> QED BY <2>1, SeqIsFunction DEF EventsIn
<1> QED BY <1>1, <1>2, <1>3, <1>4, <1>5

(* Nothing has been taken at first.                                        *)
LEMMA InitEstablishes == Init => ScanInv
<1> SUFFICES ASSUME Init PROVE ScanInv
  OBVIOUS
<1>1. /\ request \in Request /\ tasks = TasksOf(request) /\ todo = DOMAIN tasks
      /\ at = [w \in Worker |-> 0] /\ next_event = [w \in Worker |-> 1]
      /\ visits = [i \in DOMAIN AllRecords |-> << >>]
      /\ local_in = [w \in Worker |-> 0] /\ local_out = [w \in Worker |-> 0]
      /\ events_in = 0 /\ events_yielded = 0 /\ failed = FALSE /\ outcome = "running"
  BY DEF Init
<1>2. DOMAIN tasks \subseteq DOMAIN AllRecords /\ tasks \in [DOMAIN tasks -> Seq(ARange)]
  BY <1>1, TasksAre, RecordsInLine
<1>3. Begun = {} /\ \A w \in Worker : at[w] = 0
  BY <1>1 DEF Begun
<1>4. TypeOK
  <2>1. at \in [Worker -> {0} \cup (DOMAIN tasks \ todo)] /\ next_event \in [Worker -> Nat \ {0}]
    BY <1>1
  <2>2. visits \in [DOMAIN AllRecords -> Seq(Nat)]
    BY <1>1
  <2>3. local_in \in [Worker -> Nat] /\ local_out \in [Worker -> Nat]
    BY <1>1
  <2> QED BY <1>1, <1>2, <2>1, <2>2, <2>3 DEF TypeOK, ARange
<1>5. \A i : ~Read(i)
  BY <1>3 DEF Read
<1>6. VisitsAre
  <2>1. \A i \in DOMAIN AllRecords : DOMAIN visits[i] = {}
    BY <1>1
  <2> QED BY <1>5, <2>1 DEF VisitsAre, Gone
<1> QED BY <1>1, <1>3, <1>4, <1>6 DEF ScanInv, AtWork, Outcomes, InOrder

(* What a step that leaves the request and the tasks alone leaves alone.   *)
LEMMA SameAsked ==
  ASSUME UNCHANGED <<request, tasks>>
  PROVE  /\ \A i, k : Holds(i, k)' <=> Holds(i, k)
         /\ \A i, k : Chosen(i, k)' <=> (Holds(i, k) /\ RecordOf(i).passes[k])
         /\ \A i : PassedOver(i)' <=> PassedOver(i)
         /\ \A i : Failing(i)' <=> Failing(i)
BY DEF Holds, Chosen, PassedOver, Failing

(* A step after which the same events have been gone through, and no event *)
(* visited, leaves the visits as they should be.                           *)
LEMMA SameVisits ==
  ASSUME VisitsAre, UNCHANGED <<request, tasks, visits>>,
         \A i \in DOMAIN AllRecords : \A k \in EventsIn(i) : Gone(i, k)' <=> Gone(i, k)
  PROVE  VisitsAre'
<1>1. \A i, k : Chosen(i, k)' <=> Chosen(i, k)
  BY DEF Chosen, Holds
<1>2. visits' = visits
  OBVIOUS
<1> QED BY <1>1, <1>2 DEF VisitsAre

(* A worker takes a record: it reads it, finds it unreadable or passes     *)
(* over it.                                                                *)
TakesOf(w, i) ==
  /\ outcome = "running" /\ w <= request.threads /\ at[w] = 0 /\ i \in todo
  /\ request.threads = 1 => NextInOrder(i)
  /\ todo' = todo \ {i}
  /\ UNCHANGED <<request, tasks, visits, events_in, events_yielded, outcome>>

Reads(w, i) ==
  /\ ~PassedOver(i) /\ Readable(RecordOf(i))
  /\ at' = [at EXCEPT ![w] = i] /\ next_event' = [next_event EXCEPT ![w] = 1]
  /\ local_in' = [local_in EXCEPT ![w] = 0] /\ local_out' = [local_out EXCEPT ![w] = 0]
  /\ UNCHANGED failed

ReadsNot(i) ==
  /\ \/ ~PassedOver(i) /\ ~Readable(RecordOf(i)) /\ failed' = TRUE
     \/ PassedOver(i) /\ UNCHANGED failed
  /\ UNCHANGED <<at, next_event, local_in, local_out>>

(* Those are the ways a worker takes a record.                             *)
LEMMA TakeIs ==
  ASSUME NEW w \in Worker, Take(w)
  PROVE  \E i \in todo : TakesOf(w, i) /\ (Reads(w, i) \/ ReadsNot(i))
BY DEF Take, TakesOf, Reads, ReadsNot, Taken

(* Taking a record goes through none of its events, and ends none.         *)
LEMMA TakeGoesNowhere ==
  ASSUME ScanInv, NEW w \in Worker, NEW i \in todo, TakesOf(w, i), Reads(w, i) \/ ReadsNot(i)
  PROVE  /\ Begun' = Begun \cup {i} /\ i \notin Begun /\ i \in DOMAIN tasks /\ i # 0
         /\ \A v \in Worker : at[v] # i
         /\ \A j \in DOMAIN AllRecords : \A k \in EventsIn(j) : Gone(j, k)' <=> Gone(j, k)
         /\ \A j \in DOMAIN AllRecords : Done(j)' <=> Done(j)
         /\ \A j : Read(j)' <=> Read(j) \/ (j = i /\ Reads(w, i))
<1>1. /\ i \in DOMAIN tasks /\ i # 0 /\ i \notin Begun /\ Begun' = Begun \cup {i} /\ tasks' = tasks
  BY ScanShape DEF TakesOf, Begun
<1>2. /\ at[w] = 0 /\ \A v \in Worker : at[v] # i
  BY <1>1, ScanShape DEF TakesOf
<1>3. \A j : PassedOver(j)' <=> PassedOver(j)
  BY DEF PassedOver, TakesOf
<1>4. Reads(w, i) <=> ~PassedOver(i) /\ Readable(RecordOf(i))
  BY DEF Reads, ReadsNot
<1>5. \A j : Read(j)' <=> Read(j) \/ (j = i /\ Reads(w, i))
  BY <1>1, <1>3, <1>4 DEF Read
<1>6. /\ \A j \in DOMAIN AllRecords : \A k \in EventsIn(j) : Gone(j, k)' <=> Gone(j, k)
      /\ \A j \in DOMAIN AllRecords : Done(j)' <=> Done(j)
  <2>1. CASE ReadsNot(i)
    <3>1. at' = at /\ next_event' = next_event /\ ~Reads(w, i)
      BY <1>4, <2>1 DEF ReadsNot
    <3> QED BY <1>5, <3>1 DEF Gone, Done
  <2>2. CASE Reads(w, i)
    <3>1. /\ at' = [at EXCEPT ![w] = i] /\ next_event' = [next_event EXCEPT ![w] = 1]
          /\ at \in [Worker -> {0} \cup (DOMAIN tasks \ todo)] /\ next_event \in [Worker -> Nat \ {0}]
      BY <2>2 DEF Reads, ScanInv, TypeOK
    <3>2. /\ at'[w] = i /\ next_event'[w] = 1
          /\ \A v \in Worker : v # w => at'[v] = at[v] /\ next_event'[v] = next_event[v]
      BY <3>1
    <3>3. ASSUME NEW j \in DOMAIN AllRecords, j # i
          PROVE  /\ \A k \in EventsIn(j) : Gone(j, k)' <=> Gone(j, k)
                 /\ Done(j)' <=> Done(j)
      <4>1. j # 0
        BY <3>3, ScanShape
      <4>2. \A v \in Worker : at'[v] = j <=> at[v] = j
        BY <1>2, <3>2, <3>3, <4>1
      <4>3. \A v \in Worker : at[v] = j => next_event'[v] = next_event[v]
        BY <1>2, <3>2, <4>1
      <4> QED BY <1>5, <3>3, <4>2, <4>3 DEF Gone, Done
    <3>4. \A k \in EventsIn(i) : ~(k < 1)
      BY DEF EventsIn
    <3>5. \A k \in EventsIn(i) : Gone(i, k)' <=> Gone(i, k)
      BY <1>1, <3>2, <3>4 DEF Gone, Read
    <3>6. ~Done(i) /\ ~Done(i)'
      BY <1>1, <3>2 DEF Done, Read
    <3> QED BY <3>3, <3>5, <3>6
  <2> QED BY <2>1, <2>2
<1> QED BY <1>1, <1>2, <1>5, <1>6

(* Taking a record keeps the invariant.                                    *)
LEMMA TakeKeeps ==
  ASSUME ScanInv, NEW w \in Worker, Take(w)
  PROVE  ScanInv'
<1>1. PICK i \in todo : TakesOf(w, i) /\ (Reads(w, i) \/ ReadsNot(i))
  BY TakeIs
<1>2. /\ Begun' = Begun \cup {i} /\ i \notin Begun /\ i \in DOMAIN tasks /\ i # 0
      /\ \A v \in Worker : at[v] # i
      /\ \A j \in DOMAIN AllRecords : \A k \in EventsIn(j) : Gone(j, k)' <=> Gone(j, k)
      /\ \A j : Read(j)' <=> Read(j) \/ (j = i /\ Reads(w, i))
  BY <1>1, TakeGoesNowhere
<1>3. /\ UNCHANGED <<request, tasks, visits, events_in, events_yielded, outcome>>
      /\ outcome = "running" /\ w <= request.threads /\ at[w] = 0 /\ todo' = todo \ {i}
      /\ request.threads = 1 => NextInOrder(i)
  BY <1>1 DEF TakesOf
<1>4. /\ at \in [Worker -> {0} \cup (DOMAIN tasks \ todo)] /\ next_event \in [Worker -> Nat \ {0}]
      /\ local_in \in [Worker -> Nat] /\ local_out \in [Worker -> Nat]
      /\ failed \in BOOLEAN
  BY DEF ScanInv, TypeOK
<1>5. \A v \in Worker : /\ at'[v] = IF v = w /\ Reads(w, i) THEN i ELSE at[v]
                        /\ next_event'[v] = IF v = w /\ Reads(w, i) THEN 1 ELSE next_event[v]
  <2>1. CASE Reads(w, i)
    BY <1>4, <2>1 DEF Reads
  <2>2. CASE ~Reads(w, i)
    <3>1. at' = at /\ next_event' = next_event
      BY <1>1, <2>2 DEF ReadsNot
    <3> QED BY <2>2, <3>1
  <2> QED BY <2>1, <2>2
<1>6. TypeOK'
  <2>1. /\ at' \in [Worker -> {0} \cup (DOMAIN tasks \ todo')] /\ next_event' \in [Worker -> Nat \ {0}]
        /\ local_in' \in [Worker -> Nat] /\ local_out' \in [Worker -> Nat]
        /\ failed' \in BOOLEAN
    <3>0. \A S : [Worker -> {0} \cup S] \subseteq [Worker -> {0} \cup (S \cup {i})]
      OBVIOUS
    <3>1. DOMAIN tasks \ todo' = (DOMAIN tasks \ todo) \cup {i}
      BY <1>2, <1>3
    <3>2. CASE Reads(w, i)
      <4>1. [at EXCEPT ![w] = i] \in [Worker -> {0} \cup ((DOMAIN tasks \ todo) \cup {i})]
        BY <1>4
      <4>2. /\ [next_event EXCEPT ![w] = 1] \in [Worker -> Nat \ {0}]
            /\ [local_in EXCEPT ![w] = 0] \in [Worker -> Nat]
            /\ [local_out EXCEPT ![w] = 0] \in [Worker -> Nat]
        BY <1>4
      <4> QED BY <1>4, <3>1, <3>2, <4>1, <4>2 DEF Reads
    <3>3. CASE ReadsNot(i)
      <4>1. /\ UNCHANGED <<at, next_event, local_in, local_out>> /\ failed' \in BOOLEAN
        BY <1>4, <3>3 DEF ReadsNot
      <4> QED BY <1>4, <3>0, <3>1, <4>1
    <3> QED BY <1>1, <3>2, <3>3
  <2> QED BY <1>3, <2>1 DEF ScanInv, TypeOK
<1>7. AtWork'
  <2>1. ASSUME NEW v \in Worker, at'[v] # 0
        PROVE  /\ outcome' = "running" /\ v <= request'.threads
               /\ Read(at[v])' /\ next_event'[v] \in 1..Len(RecordIn(v).passes)' + 1
    <3>1. CASE v = w /\ Reads(w, i)
      <4>1. at'[v] = i /\ next_event'[v] = 1 /\ Read(i)'
        BY <1>2, <1>5, <3>1
      <4>2. Len(RecordOf(i).passes) \in Nat
        BY <1>2, ScanShape
      <4> QED BY <1>3, <3>1, <4>1, <4>2 DEF RecordIn
    <3>2. CASE ~(v = w /\ Reads(w, i))
      <4>1. at'[v] = at[v] /\ next_event'[v] = next_event[v] /\ at[v] # 0
        BY <1>5, <2>1, <3>2
      <4> QED BY <1>2, <1>3, <4>1 DEF ScanInv, AtWork, RecordIn
    <3> QED BY <3>1, <3>2
  <2>2. ASSUME NEW u \in Worker, NEW v \in Worker, at'[u] # 0, at'[u] = at'[v]
        PROVE  u = v
    <3>1. at[u] # i /\ at[v] # i
      BY <1>2
    <3> QED BY <1>3, <1>5, <2>2, <3>1 DEF ScanInv, AtWork
  <2> QED BY <2>1, <2>2 DEF AtWork
<1>8. VisitsAre'
  BY <1>2, <1>3, SameVisits DEF ScanInv
<1>9. \A j : Failing(j)' <=> Failing(j)
  BY <1>3, SameAsked
<1>10. Outcomes'
  <2>1. CASE Reads(w, i)
    <3>1. ~Failing(i) /\ failed' = failed
      BY <2>1 DEF Reads, Failing
    <3> QED BY <1>2, <1>3, <1>9, <3>1 DEF ScanInv, Outcomes
  <2>2. CASE ReadsNot(i)
    <3>1. (Failing(i) /\ failed' = TRUE) \/ (~Failing(i) /\ failed' = failed)
      BY <2>2 DEF ReadsNot, Failing
    <3> QED BY <1>2, <1>3, <1>9, <3>1 DEF ScanInv, Outcomes
  <2> QED BY <1>1, <2>1, <2>2
<1>11. InOrder'
  <2> SUFFICES ASSUME request.threads = 1, NEW j \in Begun'
               PROVE  /\ \A l \in todo' : j < l
                      /\ \A v \in Worker : at'[v] # 0 => j <= at'[v]
                      /\ Failing(j)' => \A l \in Begun' : l <= j
    BY <1>3 DEF InOrder
  <2>1. ~failed /\ (\A l \in todo : i <= l) /\ i \in Nat /\ todo \subseteq Nat
    BY <1>2, <1>3, ScanShape DEF NextInOrder
  <2>2. \A l \in Begun : /\ \A k \in todo : l < k
                         /\ ~Failing(l) /\ l \in Nat
    BY <2>1, ScanShape DEF ScanInv, InOrder, Outcomes, Begun
  <2>3. \A l \in Begun' : l <= i
    BY <1>2, <2>1, <2>2
  <2>4. \A l \in todo' : j < l
    BY <1>2, <1>3, <2>1, <2>2
  <2>5. \A v \in Worker : at'[v] # 0 => at'[v] = i
    <3>1. ASSUME NEW v \in Worker, at[v] # 0 PROVE FALSE
      <4>1. v <= 1 /\ w <= 1
        BY <1>3, <3>1 DEF ScanInv, AtWork
      <4>2. v = w
        BY <4>1, ScanShape DEF Worker
      <4> QED BY <1>3, <3>1, <4>2
    <3> QED BY <1>5, <3>1
  <2>6. Failing(j)' => \A l \in Begun' : l <= j
    <3>1. Failing(j)' => j = i
      BY <1>2, <1>9, <2>2
    <3> QED BY <2>3, <3>1
  <2> QED BY <2>3, <2>4, <2>5, <2>6
<1> QED BY <1>3, <1>6, <1>7, <1>8, <1>10, <1>11 DEF ScanInv

(* What a worker does with the next event of its record.                   *)
LEMMA VisitIs ==
  ASSUME ScanInv, NEW w \in Worker, VisitEvent(w)
  PROVE  LET i == at[w] k == next_event[w] IN
         /\ i # 0 /\ i \in DOMAIN AllRecords /\ i \in DOMAIN tasks
         /\ Read(i) /\ k \in EventsIn(i) /\ k \in Nat
         /\ \A v \in Worker : at[v] = i => v = w
         /\ next_event' = [next_event EXCEPT ![w] = k + 1]
         /\ local_in' = IF Holds(i, k) THEN [local_in EXCEPT ![w] = @ + 1] ELSE local_in
         /\ local_out' = IF Chosen(i, k) THEN [local_out EXCEPT ![w] = @ + 1] ELSE local_out
         /\ visits' = IF Chosen(i, k) THEN [visits EXCEPT ![i] = Append(@, k)] ELSE visits
         /\ UNCHANGED <<request, tasks, todo, at, events_in, events_yielded, failed, outcome>>
<1> DEFINE i == at[w]
           k == next_event[w]
<1>1. /\ i # 0 /\ k <= Len(RecordOf(i).passes)
      /\ next_event' = [next_event EXCEPT ![w] = k + 1]
      /\ local_in' = IF Holds(i, k) THEN [local_in EXCEPT ![w] = @ + 1] ELSE local_in
      /\ local_out' = IF Chosen(i, k) THEN [local_out EXCEPT ![w] = @ + 1] ELSE local_out
      /\ visits' = IF Chosen(i, k) THEN [visits EXCEPT ![i] = Append(@, k)] ELSE visits
      /\ UNCHANGED <<request, tasks, todo, at, events_in, events_yielded, failed, outcome>>
  BY DEF VisitEvent, RecordIn, Chosen
<1>2. /\ Read(i) /\ i \in Begun /\ i \in DOMAIN tasks /\ i \in DOMAIN AllRecords
      /\ k \in Nat /\ k >= 1
      /\ \A v \in Worker : at[v] = i => v = w
  BY <1>1, ScanShape DEF ScanInv, AtWork, Begun
<1>3. k \in EventsIn(i)
  <2>1. Len(RecordOf(i).passes) \in Nat
    BY <1>2, ScanShape
  <2> QED BY <1>1, <1>2, <2>1 DEF EventsIn
<1> QED BY <1>1, <1>2, <1>3

(* It has gone through that event and no other, and has ended no record.   *)
LEMMA VisitGoesOn ==
  ASSUME ScanInv, NEW w \in Worker, VisitEvent(w)
  PROVE  /\ \A v \in Worker : next_event'[v] = IF v = w THEN next_event[w] + 1 ELSE next_event[v]
         /\ \A j : Read(j)' <=> Read(j)
         /\ \A j : Done(j)' <=> Done(j)
         /\ \A j \in DOMAIN AllRecords : \A l \in EventsIn(j) :
              Gone(j, l)' <=> Gone(j, l) \/ (j = at[w] /\ l = next_event[w])
         /\ ~Gone(at[w], next_event[w])
         /\ \A l \in EventsIn(at[w]) : Gone(at[w], l) <=> l < next_event[w]
<1>0. PICK i, k : i = at[w] /\ k = next_event[w]
  OBVIOUS
<1>1. /\ i # 0 /\ i \in DOMAIN AllRecords /\ Read(i) /\ k \in EventsIn(i) /\ k \in Nat
      /\ \A v \in Worker : at[v] = i => v = w
      /\ next_event' = [next_event EXCEPT ![w] = k + 1]
      /\ UNCHANGED <<request, tasks, todo, at, events_in, events_yielded, failed, outcome>>
  BY <1>0, VisitIs
<1>2. \A v \in Worker : next_event'[v] = IF v = w THEN k + 1 ELSE next_event[v]
  <2>1. next_event \in [Worker -> Nat \ {0}]
    BY DEF ScanInv, TypeOK
  <2> QED BY <1>1, <2>1
<1>3. \A j : Read(j)' <=> Read(j)
  BY <1>1 DEF Read, Begun, PassedOver
<1>4. \A j : Done(j)' <=> Done(j)
  BY <1>1, <1>3 DEF Done
<1>5. \A l : Gone(i, l) <=> l < k
  BY <1>0, <1>1 DEF Gone
<1>6. \A l : Gone(i, l)' <=> l < k + 1
  BY <1>0, <1>1, <1>2, <1>3 DEF Gone
<1>7. \A j, l : j # i => (Gone(j, l)' <=> Gone(j, l))
  <2> SUFFICES ASSUME NEW j, NEW l, j # i PROVE Gone(j, l)' <=> Gone(j, l)
    OBVIOUS
  <2>1. \A v \in Worker : at[v] = j => next_event'[v] = next_event[v]
    BY <1>0, <1>2
  <2>2. at' = at
    BY <1>1
  <2> QED BY <1>3, <2>1, <2>2 DEF Gone
<1>8. \A l \in EventsIn(i) : l < k + 1 <=> l < k \/ l = k
  BY <1>1 DEF EventsIn
<1>9. \A j \in DOMAIN AllRecords : \A l \in EventsIn(j) :
        Gone(j, l)' <=> Gone(j, l) \/ (j = i /\ l = k)
  BY <1>5, <1>6, <1>7, <1>8
<1>10. ~Gone(i, k)
  BY <1>1, <1>5
<1> QED BY <1>0, <1>2, <1>3, <1>4, <1>5, <1>9, <1>10

Has(s, x) == \E a \in DOMAIN s : s[a] = x
Ascends(s) == \A a, b \in DOMAIN s : a < b => s[a] < s[b]

(* One more event visited, after the others of its record.                 *)
LEMMA AppendVisit ==
  ASSUME NEW s \in Seq(Nat), NEW k \in Nat,
         Ascends(s), \A x : Has(s, x) => x < k,
         NEW t, t = Append(s, k)
  PROVE  Ascends(t) /\ \A x : Has(t, x) <=> Has(s, x) \/ x = k
<1>0. /\ \A a, b \in DOMAIN s : a < b => s[a] < s[b]
      /\ \A a \in DOMAIN s : s[a] < k
  BY DEF Ascends, Has
<1>1. /\ t \in Seq(Nat) /\ Len(t) = Len(s) + 1 /\ Len(s) \in Nat
      /\ DOMAIN s = 1..Len(s) /\ DOMAIN t = 1..Len(s) + 1
      /\ \A a \in 1..Len(s) : t[a] = s[a]
      /\ t[Len(s) + 1] = k
  OBVIOUS
<1> DEFINE n == Len(s)
<1> HIDE DEF n
<1>2. n \in Nat /\ DOMAIN s = 1..n /\ DOMAIN t = 1..n + 1 /\ \A a \in 1..n : t[a] = s[a]
  BY <1>1 DEF n
<1>3. t[n + 1] = k
  BY <1>1 DEF n
<1>4. \A a \in 1..n + 1 : a \in 1..n \/ a = n + 1
  BY <1>2
<1>5. n + 1 \in 1..n + 1 /\ \A a \in 1..n : a \in 1..n + 1 /\ a < n + 1
  BY <1>2
<1>6. ASSUME NEW a \in 1..n + 1, NEW b \in 1..n + 1, a < b PROVE t[a] < t[b]
  <2>1. a \in 1..n
    BY <1>2, <1>6
  <2>2. CASE b \in 1..n
    BY <1>0, <1>2, <1>6, <2>1, <2>2
  <2>3. CASE b = n + 1
    BY <1>0, <1>2, <1>3, <2>1, <2>3
  <2> QED BY <1>4, <2>2, <2>3
<1>7. ASSUME NEW x
      PROVE  (\E a \in DOMAIN t : t[a] = x) <=> (\E a \in DOMAIN s : s[a] = x) \/ x = k
  BY <1>2, <1>3, <1>4, <1>5
<1> QED BY <1>2, <1>6, <1>7 DEF Ascends, Has

(* Going through an event keeps the invariant.                             *)
LEMMA VisitKeeps ==
  ASSUME ScanInv, NEW w \in Worker, VisitEvent(w)
  PROVE  ScanInv'
<1>0. PICK i, k : i = at[w] /\ k = next_event[w]
  OBVIOUS
<1>1. /\ i # 0 /\ i \in DOMAIN AllRecords /\ i \in DOMAIN tasks
      /\ Read(i) /\ k \in EventsIn(i) /\ k \in Nat
      /\ next_event' = [next_event EXCEPT ![w] = k + 1]
      /\ local_in' = IF Holds(i, k) THEN [local_in EXCEPT ![w] = @ + 1] ELSE local_in
      /\ local_out' = IF Chosen(i, k) THEN [local_out EXCEPT ![w] = @ + 1] ELSE local_out
      /\ visits' = IF Chosen(i, k) THEN [visits EXCEPT ![i] = Append(@, k)] ELSE visits
      /\ UNCHANGED <<request, tasks, todo, at, events_in, events_yielded, failed, outcome>>
  BY <1>0, VisitIs
<1>2. /\ \A v \in Worker : next_event'[v] = IF v = w THEN k + 1 ELSE next_event[v]
      /\ \A j : Read(j)' <=> Read(j)
      /\ \A j \in DOMAIN AllRecords : \A l \in EventsIn(j) :
           Gone(j, l)' <=> Gone(j, l) \/ (j = i /\ l = k)
      /\ \A l \in EventsIn(i) : Gone(i, l) <=> l < k
  BY <1>0, VisitGoesOn
<1>3. /\ visits \in [DOMAIN AllRecords -> Seq(Nat)]
      /\ local_in \in [Worker -> Nat] /\ local_out \in [Worker -> Nat]
      /\ next_event \in [Worker -> Nat \ {0}]
  BY DEF ScanInv, TypeOK
<1>4. \A j, l : Chosen(j, l)' <=> Chosen(j, l)
  BY <1>1, SameAsked DEF Chosen
<1>5. \A j \in DOMAIN AllRecords : visits'[j] = IF j = i /\ Chosen(i, k) THEN Append(visits[i], k) ELSE visits[j]
  BY <1>1, <1>3
<1>6. TypeOK'
  <2>1. next_event' \in [Worker -> Nat \ {0}]
    BY <1>1, <1>3
  <2>2. local_in' \in [Worker -> Nat] /\ local_out' \in [Worker -> Nat]
    BY <1>1, <1>3
  <2>3. visits' \in [DOMAIN AllRecords -> Seq(Nat)]
    <3>1. Append(visits[i], k) \in Seq(Nat)
      <4>1. visits[i] \in Seq(Nat)
        BY <1>1, <1>3
      <4> QED BY <1>1, <4>1
    <3> QED BY <1>1, <1>3, <3>1
  <2> QED BY <1>1, <2>1, <2>2, <2>3 DEF ScanInv, TypeOK
<1>7. AtWork'
  <2>1. ASSUME NEW v \in Worker, at[v] # 0
        PROVE  next_event'[v] \in 1..Len(RecordIn(v).passes) + 1
    <3>1. CASE v = w
      <4>1. k + 1 \in 1..Len(RecordOf(i).passes) + 1
        <5>1. Len(RecordOf(i).passes) \in Nat
          BY <1>1, ScanShape
        <5> QED BY <1>1, <5>1 DEF EventsIn
      <4> QED BY <1>0, <1>1, <1>2, <3>1, <4>1 DEF RecordIn
    <3>2. CASE v # w
      BY <1>2, <2>1, <3>2 DEF ScanInv, AtWork
    <3> QED BY <3>1, <3>2
  <2> QED BY <1>1, <1>2, <2>1 DEF ScanInv, AtWork, RecordIn
<1>8. VisitsAre'
  <2> SUFFICES ASSUME NEW j \in DOMAIN AllRecords
               PROVE  /\ \A a, b \in DOMAIN visits'[j] : a < b => visits'[j][a] < visits'[j][b]
                      /\ \A l : (\E a \in DOMAIN visits'[j] : visits'[j][a] = l)
                                  <=> l \in EventsIn(j) /\ Gone(j, l)' /\ Chosen(j, l)'
    BY DEF VisitsAre
  <2>1. /\ \A a, b \in DOMAIN visits[j] : a < b => visits[j][a] < visits[j][b]
        /\ \A l : (\E a \in DOMAIN visits[j] : visits[j][a] = l)
                    <=> l \in EventsIn(j) /\ Gone(j, l) /\ Chosen(j, l)
    BY DEF ScanInv, VisitsAre
  <2>2. CASE j = i /\ Chosen(i, k)
    <3>1. PICK s \in Seq(Nat) : s = visits[i]
      BY <1>1, <1>3
    <3>2. PICK t : t = visits'[i]
      OBVIOUS
    <3>3. t = Append(s, k)
      BY <1>1, <1>5, <2>2, <3>1, <3>2
    <3>4. \A x : Has(s, x) => x < k
      BY <1>2, <2>1, <2>2, <3>1 DEF Has
    <3>5. Ascends(s)
      BY <2>1, <2>2, <3>1 DEF Ascends
    <3>6. /\ \A a, b \in DOMAIN t : a < b => t[a] < t[b]
          /\ \A x : (\E a \in DOMAIN t : t[a] = x) <=> (\E a \in DOMAIN s : s[a] = x) \/ x = k
      <4>1. k \in Nat /\ s \in Seq(Nat)
        BY <1>1, <3>1
      <4>2. Ascends(t) /\ \A x : Has(t, x) <=> Has(s, x) \/ x = k
        BY ONLY <4>1, <3>3, <3>4, <3>5, AppendVisit
      <4> QED BY <4>2 DEF Ascends, Has
    <3>7. \A l : (\E a \in DOMAIN s : s[a] = l) <=> l \in EventsIn(j) /\ Gone(j, l) /\ Chosen(j, l)
      BY <2>1, <2>2, <3>1
    <3>8. \A l : l \in EventsIn(j) /\ Gone(j, l)' /\ Chosen(j, l)'
                   <=> (l \in EventsIn(j) /\ Gone(j, l) /\ Chosen(j, l)) \/ l = k
      BY <1>1, <1>2, <1>4, <2>2
    <3> QED BY <2>2, <3>2, <3>6, <3>7, <3>8
  <2>3. CASE ~(j = i /\ Chosen(i, k))
    <3>1. visits'[j] = visits[j]
      BY <1>5, <2>3
    <3>2. \A l \in EventsIn(j) : Chosen(j, l) => (Gone(j, l)' <=> Gone(j, l))
      BY <1>2, <2>3
    <3> QED BY <1>4, <2>1, <3>1, <3>2
  <2> QED BY <2>2, <2>3
<1>9. Outcomes'
  <2>1. \A j : Failing(j)' <=> Failing(j)
    BY <1>1, SameAsked
  <2> QED BY <1>1, <2>1 DEF ScanInv, Outcomes, Begun
<1>10. InOrder'
  <2>1. \A j : Failing(j)' <=> Failing(j)
    BY <1>1, SameAsked
  <2> QED BY <1>1, <2>1 DEF ScanInv, InOrder, Begun
<1>11. (tasks = TasksOf(request))'
  BY <1>1 DEF ScanInv
<1> QED BY <1>6, <1>7, <1>8, <1>9, <1>10, <1>11 DEF ScanInv

(* A worker puts its record behind it.                                     *)
LEMMA EndIs ==
  ASSUME ScanInv, NEW w \in Worker, EndRecord(w)
  PROVE  LET i == at[w] IN
         /\ i # 0 /\ i \in DOMAIN AllRecords /\ i \in DOMAIN tasks /\ Read(i)
         /\ \A v \in Worker : at[v] = i => v = w
         /\ next_event[w] = Len(RecordOf(i).passes) + 1 /\ Len(RecordOf(i).passes) \in Nat
         /\ at' = [at EXCEPT ![w] = 0] /\ next_event' = [next_event EXCEPT ![w] = 1]
         /\ local_in' = [local_in EXCEPT ![w] = 0] /\ local_out' = [local_out EXCEPT ![w] = 0]
         /\ IF request.kind = "columns" THEN UNCHANGED <<events_in, events_yielded>>
            ELSE events_in' = events_in + local_in[w] /\ events_yielded' = events_yielded + local_out[w]
         /\ UNCHANGED <<request, tasks, todo, visits, failed, outcome>>
<1>1. PICK i, k : i = at[w] /\ k = next_event[w]
  OBVIOUS
<1>2. i # 0 /\ k > Len(RecordOf(i).passes)
  BY <1>1 DEF EndRecord, RecordIn
<1>3. /\ Read(i) /\ i \in DOMAIN tasks /\ i \in DOMAIN AllRecords
      /\ k \in 1..Len(RecordOf(i).passes) + 1
      /\ \A v \in Worker : at[v] = i => v = w
  BY <1>1, <1>2, ScanShape DEF ScanInv, AtWork, Begun, RecordIn
<1>4. Len(RecordOf(i).passes) \in Nat
  BY <1>3, ScanShape
<1>5. k = Len(RecordOf(i).passes) + 1
  BY ONLY <1>2, <1>3, <1>4
<1> QED BY <1>1, <1>2, <1>3, <1>4, <1>5 DEF EndRecord

(* All its events have been gone through, and it is done.                  *)
LEMMA EndGoesOn ==
  ASSUME ScanInv, NEW w \in Worker, EndRecord(w)
  PROVE  /\ \A v \in Worker : at'[v] = IF v = w THEN 0 ELSE at[v]
         /\ \A v \in Worker : next_event'[v] = IF v = w THEN 1 ELSE next_event[v]
         /\ \A j : Read(j)' <=> Read(j)
         /\ \A j \in DOMAIN AllRecords : Done(j)' <=> Done(j) \/ j = at[w]
         /\ ~Done(at[w])
         /\ \A j \in DOMAIN AllRecords : \A l \in EventsIn(j) : Gone(j, l)' <=> Gone(j, l)
<1>0. PICK i : i = at[w]
  OBVIOUS
<1>1. /\ i # 0 /\ i \in DOMAIN AllRecords /\ Read(i)
      /\ \A v \in Worker : at[v] = i => v = w
      /\ next_event[w] = Len(RecordOf(i).passes) + 1 /\ Len(RecordOf(i).passes) \in Nat
      /\ at' = [at EXCEPT ![w] = 0] /\ next_event' = [next_event EXCEPT ![w] = 1]
      /\ UNCHANGED <<request, tasks, todo, visits, failed, outcome>>
  BY <1>0, EndIs
<1>2. /\ \A v \in Worker : at'[v] = IF v = w THEN 0 ELSE at[v]
      /\ \A v \in Worker : next_event'[v] = IF v = w THEN 1 ELSE next_event[v]
  <2>1. /\ at \in [Worker -> {0} \cup (DOMAIN tasks \ todo)] /\ next_event \in [Worker -> Nat \ {0}]
    BY DEF ScanInv, TypeOK
  <2> QED BY <1>1, <2>1
<1>3. \A j : Read(j)' <=> Read(j)
  BY <1>1 DEF Read, Begun, PassedOver
<1>4. \A j \in DOMAIN AllRecords : j # 0
  BY ScanShape
<1>5. \A j \in DOMAIN AllRecords : Done(j)' <=> Done(j) \/ j = i
  BY <1>0, <1>1, <1>2, <1>3, <1>4 DEF Done
<1>6. ~Done(i)
  BY <1>0 DEF Done
<1>7. ASSUME NEW j \in DOMAIN AllRecords, NEW l \in EventsIn(j)
      PROVE  Gone(j, l)' <=> Gone(j, l)
  <2>1. CASE j = i
    <3>1. l < next_event[w]
      BY <1>1, <2>1 DEF EventsIn
    <3>2. Gone(j, l)
      BY <1>1, <2>1, <3>1 DEF Gone
    <3>3. \A v \in Worker : at'[v] # j
      BY <1>0, <1>1, <1>2, <2>1
    <3>4. Gone(j, l)'
      BY <1>1, <1>3, <2>1, <3>3 DEF Gone
    <3> QED BY <3>2, <3>4
  <2>2. CASE j # i
    <3>1. \A v \in Worker : /\ at'[v] = j <=> at[v] = j
                            /\ at[v] = j => next_event'[v] = next_event[v]
      BY <1>0, <1>2, <1>4, <2>2
    <3> QED BY <1>3, <3>1 DEF Gone
  <2> QED BY <2>1, <2>2
<1> QED BY <1>0, <1>2, <1>3, <1>5, <1>6, <1>7

(* Putting a record behind keeps the invariant.                            *)
LEMMA EndKeeps ==
  ASSUME ScanInv, NEW w \in Worker, EndRecord(w)
  PROVE  ScanInv'
<1>1. /\ at[w] # 0
      /\ at' = [at EXCEPT ![w] = 0] /\ next_event' = [next_event EXCEPT ![w] = 1]
      /\ local_in' = [local_in EXCEPT ![w] = 0] /\ local_out' = [local_out EXCEPT ![w] = 0]
      /\ IF request.kind = "columns" THEN UNCHANGED <<events_in, events_yielded>>
         ELSE events_in' = events_in + local_in[w] /\ events_yielded' = events_yielded + local_out[w]
      /\ UNCHANGED <<request, tasks, todo, visits, failed, outcome>>
  BY EndIs
<1>2. /\ \A v \in Worker : at'[v] = IF v = w THEN 0 ELSE at[v]
      /\ \A v \in Worker : next_event'[v] = IF v = w THEN 1 ELSE next_event[v]
      /\ \A j : Read(j)' <=> Read(j)
      /\ \A j \in DOMAIN AllRecords : \A l \in EventsIn(j) : Gone(j, l)' <=> Gone(j, l)
  BY EndGoesOn
<1>3. /\ at \in [Worker -> {0} \cup (DOMAIN tasks \ todo)] /\ next_event \in [Worker -> Nat \ {0}]
      /\ local_in \in [Worker -> Nat] /\ local_out \in [Worker -> Nat]
      /\ events_in \in Nat /\ events_yielded \in Nat
  BY DEF ScanInv, TypeOK
<1>4. TypeOK'
  <2>1. /\ at' \in [Worker -> {0} \cup (DOMAIN tasks \ todo)] /\ next_event' \in [Worker -> Nat \ {0}]
        /\ local_in' \in [Worker -> Nat] /\ local_out' \in [Worker -> Nat]
    BY <1>1, <1>3
  <2>2. events_in' \in Nat /\ events_yielded' \in Nat
    <3>1. local_in[w] \in Nat /\ local_out[w] \in Nat
      BY <1>3
    <3> QED BY <1>1, <1>3, <3>1
  <2> QED BY <1>1, <2>1, <2>2 DEF ScanInv, TypeOK
<1>5. AtWork'
  BY <1>1, <1>2 DEF ScanInv, AtWork, RecordIn
<1>6. VisitsAre'
  BY <1>1, <1>2, SameVisits DEF ScanInv
<1>7. \A j : Failing(j)' <=> Failing(j)
  BY <1>1, SameAsked
<1>8. Outcomes'
  BY <1>1, <1>2, <1>7 DEF ScanInv, Outcomes, Begun
<1>9. InOrder'
  BY <1>1, <1>2, <1>7 DEF ScanInv, InOrder, Begun
<1>10. (tasks = TasksOf(request))'
  BY <1>1 DEF ScanInv
<1> QED BY <1>4, <1>5, <1>6, <1>8, <1>9, <1>10 DEF ScanInv

(* The workers being idle, the scan returns.                               *)
LEMMA JoinKeeps ==
  ASSUME ScanInv, Join
  PROVE  ScanInv'
<1>1. /\ outcome = "running" /\ \A w \in Worker : at[w] = 0
      /\ \/ failed /\ outcome' = "err"
         \/ ~failed /\ todo = {} /\ outcome' = "ok"
      /\ UNCHANGED <<request, tasks, todo, at, next_event, visits, local_in, local_out,
                     events_in, events_yielded, failed>>
  BY DEF Join, AllIdle
<1>2. TypeOK'
  BY <1>1 DEF ScanInv, TypeOK
<1>3. \A j : Failing(j)' <=> Failing(j)
  BY <1>1, SameAsked
<1>4. VisitsAre'
  BY <1>1, SameVisits DEF ScanInv, Gone, Read, Begun, PassedOver
<1>5. AtWork' /\ Outcomes' /\ InOrder' /\ (tasks = TasksOf(request))'
  BY <1>1, <1>3 DEF ScanInv, AtWork, Outcomes, InOrder, Begun
<1> QED BY <1>2, <1>4, <1>5 DEF ScanInv

(* Every step keeps the invariant.                                         *)
LEMMA StepKeeps == ScanInv /\ [Next]_vars => ScanInv'
<1> SUFFICES ASSUME ScanInv, [Next]_vars PROVE ScanInv'
  OBVIOUS
<1>1. ASSUME NEW w \in Worker, Take(w) PROVE ScanInv'
  BY <1>1, TakeKeeps
<1>2. ASSUME NEW w \in Worker, VisitEvent(w) PROVE ScanInv'
  BY <1>2, VisitKeeps
<1>3. ASSUME NEW w \in Worker, EndRecord(w) PROVE ScanInv'
  BY <1>3, EndKeeps
<1>4. CASE Join
  BY <1>4, JoinKeeps
<1>5. CASE UNCHANGED vars
  <2>1. UNCHANGED <<request, tasks, todo, at, next_event, visits, local_in, local_out,
                    events_in, events_yielded, failed, outcome>>
    BY <1>5 DEF vars
  <2> QED BY <2>1 DEF ScanInv, TypeOK, AtWork, VisitsAre, Outcomes, InOrder, Begun, Failing, Read,
                      Gone, Chosen, Holds, PassedOver, RecordIn
<1> QED BY <1>1, <1>2, <1>3, <1>4, <1>5 DEF Next

(* So it always holds.                                                     *)
LEMMA ScanInvHolds == Spec => []ScanInv
<1>1. Init => ScanInv
  BY InitEstablishes
<1>2. ScanInv /\ [Next]_vars => ScanInv'
  BY StepKeeps
<1> QED BY <1>1, <1>2, PTL DEF Spec

(* The variables keep their types, and a worker is only ever in a record   *)
(* that has been taken.                                                    *)
THEOREM ChainScanTypes == Spec => []TypeOK
<1>1. ScanInv => TypeOK
  BY DEF ScanInv
<1> QED BY <1>1, ScanInvHolds, PTL
-----------------------------------------------------------------------------
(***************************************************************************)
(* What was visited, put together.                                         *)
(***************************************************************************)
(* Ascending sequences, each beginning past the end of those before it,    *)
(* make one that ascends and holds what they hold.                         *)
LEMMA FlatAscends ==
  ASSUME NEW n \in Nat, NEW seqs \in [1..n -> Seq(Nat)],
         \A i \in 1..n : Ascends(seqs[i]),
         \A i, k \in 1..n : i < k =>
           \A j \in DOMAIN seqs[i], l \in DOMAIN seqs[k] : seqs[i][j] < seqs[k][l]
  PROVE  /\ FlattenSeq(seqs) \in Seq(Nat)
         /\ Ascends(FlattenSeq(seqs))
         /\ \A x : (\E a \in DOMAIN FlattenSeq(seqs) : FlattenSeq(seqs)[a] = x)
                     <=> \E i \in 1..n : \E j \in DOMAIN seqs[i] : seqs[i][j] = x
<1>1. PICK c : c = [i \in 1..n |-> Len(seqs[i])]
  OBVIOUS
<1>2. /\ c \in [1..n -> Nat]
      /\ \A i \in 1..n : c[i] = Len(seqs[i]) /\ DOMAIN seqs[i] = 1..c[i] /\ c[i] \in Nat
  <2>1. \A i \in 1..n : Len(seqs[i]) \in Nat /\ DOMAIN seqs[i] = 1..Len(seqs[i])
    <3> SUFFICES ASSUME NEW i \in 1..n PROVE Len(seqs[i]) \in Nat /\ DOMAIN seqs[i] = 1..Len(seqs[i])
      OBVIOUS
    <3>1. seqs[i] \in Seq(Nat)
      OBVIOUS
    <3> QED BY ONLY <3>1
  <2> QED BY <1>1, <2>1
<1>3. PICK f : IsTotal(f, c, n)
  BY <1>2, TotalExists
<1>4. /\ f \in [1..n + 1 -> Nat]
      /\ \A i \in 1..n : f[i + 1] = f[i] + c[i]
  BY <1>2, <1>3, TotalSteps
<1>5. Places(FlattenSeq(seqs), seqs, f, n, Nat)
  BY <1>1, <1>3, Flattened
<1>6. PICK s : s = FlattenSeq(seqs)
  OBVIOUS
<1>7. /\ s \in Seq(Nat) /\ Len(s) = f[n + 1]
      /\ \A i \in 1..n : \A j \in 1..c[i] : s[f[i] + j] = seqs[i][j]
  <2>1. /\ s \in Seq(Nat) /\ Len(s) = f[n + 1]
        /\ \A i \in 1..n : \A j \in 1..Len(seqs[i]) : s[f[i] + j] = seqs[i][j]
    BY <1>5, <1>6 DEF Places
  <2> QED BY <1>2, <2>1
<1>8. DOMAIN s = 1..f[n + 1] /\ f[n + 1] \in Nat
  <2>1. Len(s) \in Nat /\ DOMAIN s = 1..Len(s)
    BY <1>7, SeqIsFunction
  <2> QED BY <1>7, <2>1
<1>9. ASSUME NEW a \in DOMAIN s
      PROVE  \E i \in 1..n : \E j \in 1..c[i] : a = f[i] + j
  <2>1. a \in Nat /\ a - 1 \in Nat /\ a - 1 < f[n + 1]
    BY <1>8
  <2>2. PICK i \in 1..n : f[i] <= a - 1 /\ a - 1 < f[i] + c[i]
    BY <1>2, <1>3, <2>1, Within
  <2>3. f[i] \in Nat /\ c[i] \in Nat
    <3>1. i \in 1..n + 1
      OBVIOUS
    <3> QED BY <1>2, <1>4, <3>1
  <2> DEFINE d == f[i]
             e == c[i]
  <2>4. d \in Nat /\ e \in Nat /\ d <= a - 1 /\ a - 1 < d + e
    BY <2>2, <2>3
  <2> HIDE DEF d, e
  <2>5. a - d \in 1..e /\ a = d + (a - d)
    BY ONLY <2>1, <2>4
  <2> QED BY <2>5 DEF d, e
<1>10. ASSUME NEW i \in 1..n, NEW j \in 1..c[i]
       PROVE  /\ f[i] + j \in DOMAIN s /\ s[f[i] + j] = seqs[i][j]
              /\ f[i] \in Nat /\ f[i] + j <= f[i + 1] /\ f[i + 1] \in Nat
  <2>1. i \in 1..n + 1 /\ i + 1 \in 1..n + 1 /\ n + 1 \in 1..n + 1 /\ i + 1 <= n + 1
    OBVIOUS
  <2>2. f[i] \in Nat /\ f[i + 1] \in Nat /\ f[i + 1] = f[i] + c[i] /\ c[i] \in Nat
    BY <1>2, <1>4, <2>1
  <2>3. f[i + 1] <= f[n + 1]
    BY <1>2, <1>3, <2>1, TotalMonotone
  <2> DEFINE d == f[i]
             e == c[i]
             g == f[i + 1]
             h == f[n + 1]
  <2>4. /\ d \in Nat /\ g \in Nat /\ g = d + e /\ e \in Nat /\ g <= h /\ h \in Nat
        /\ j \in 1..e
    BY <1>8, <2>2, <2>3
  <2> HIDE DEF d, e, g, h
  <2>5. d + j \in 1..h /\ d + j <= g
    BY ONLY <2>4
  <2> QED BY <1>7, <1>8, <2>2, <2>5 DEF d, g, h
<1>11. ASSUME NEW i \in 1..n, NEW j \in 1..c[i], NEW k \in 1..n, NEW l \in 1..c[k],
              f[i] + j < f[k] + l
       PROVE  seqs[i][j] < seqs[k][l]
  <2>1. CASE i < k
    BY <1>2, <2>1
  <2>2. CASE i = k
    <3>1. j < l
      BY <1>10, <1>11, <2>2
    <3> QED BY <1>2, <2>2, <3>1 DEF Ascends
  <2>3. CASE k < i
    <3>1. k + 1 \in 1..n + 1 /\ i \in 1..n + 1 /\ k + 1 <= i
      BY <2>3
    <3>2. f[k + 1] <= f[i]
      BY <1>2, <1>3, <3>1, TotalMonotone
    <3>3. f[i] \in Nat /\ f[k] \in Nat /\ f[k + 1] \in Nat /\ f[k] + l <= f[k + 1] /\ j \in Nat /\ l \in Nat /\ 1 <= j
      BY <1>2, <1>10
    <3> DEFINE d == f[i]
               e == f[k]
               g == f[k + 1]
    <3>4. /\ d + j < e + l /\ g <= d /\ e + l <= g
          /\ d \in Nat /\ e \in Nat /\ g \in Nat /\ j \in Nat /\ l \in Nat
      BY <1>11, <3>2, <3>3
    <3> HIDE DEF d, e, g
    <3>5. FALSE
      BY ONLY <3>4
    <3> QED BY <3>5
  <2> QED BY <2>1, <2>2, <2>3
<1>12. Ascends(s)
  <2> SUFFICES ASSUME NEW a \in DOMAIN s, NEW b \in DOMAIN s, a < b PROVE s[a] < s[b]
    BY DEF Ascends
  <2>1. PICK i \in 1..n : \E j \in 1..c[i] : a = f[i] + j
    BY <1>9
  <2>2. PICK j \in 1..c[i] : a = f[i] + j
    BY <2>1
  <2>3. PICK k \in 1..n : \E l \in 1..c[k] : b = f[k] + l
    BY <1>9
  <2>4. PICK l \in 1..c[k] : b = f[k] + l
    BY <2>3
  <2>5. seqs[i][j] < seqs[k][l]
    BY <1>11, <2>2, <2>4
  <2> QED BY <1>10, <2>2, <2>4, <2>5
<1>13. \A x : (\E a \in DOMAIN s : s[a] = x) <=> \E i \in 1..n : \E j \in DOMAIN seqs[i] : seqs[i][j] = x
  <2>1. \A i \in 1..n : DOMAIN seqs[i] = 1..c[i]
    BY <1>2
  <2>2. ASSUME NEW a \in DOMAIN s PROVE \E i \in 1..n : \E j \in 1..c[i] : seqs[i][j] = s[a]
    <3>1. PICK i \in 1..n : \E j \in 1..c[i] : a = f[i] + j
      BY <1>9
    <3>2. PICK j \in 1..c[i] : a = f[i] + j
      BY <3>1
    <3>3. seqs[i][j] = s[a]
      BY <1>10, <3>2
    <3> QED BY <3>3
  <2>3. ASSUME NEW i \in 1..n, NEW j \in 1..c[i] PROVE \E a \in DOMAIN s : s[a] = seqs[i][j]
    BY <1>10
  <2> TAKE x
  <2>4. (\E i \in 1..n : \E j \in DOMAIN seqs[i] : seqs[i][j] = x)
          <=> \E i \in 1..n : \E j \in 1..c[i] : seqs[i][j] = x
    BY <2>1, Zenon
  <2>5. ASSUME NEW a \in DOMAIN s, s[a] = x
        PROVE  \E i \in 1..n : \E j \in 1..c[i] : seqs[i][j] = x
    BY ONLY <2>2, <2>5, Zenon
  <2>6. ASSUME NEW i \in 1..n, NEW j \in 1..c[i], seqs[i][j] = x
        PROVE  \E a \in DOMAIN s : s[a] = x
    BY ONLY <2>3, <2>6, Zenon
  <2> QED BY ONLY <2>4, <2>5, <2>6, Zenon
<1> QED BY <1>6, <1>7, <1>12, <1>13

(* Nothing comes twice in an ascending sequence.                           *)
LEMMA AscendingOnce ==
  ASSUME NEW s \in Seq(Nat), Ascends(s)
  PROVE  /\ \A g : Cardinality({a \in DOMAIN s : s[a] = g}) = IF \E a \in DOMAIN s : s[a] = g THEN 1 ELSE 0
         /\ IsFiniteSet(ToSet(s)) /\ Cardinality(ToSet(s)) = Len(s)
<1>1. Len(s) \in Nat /\ DOMAIN s = 1..Len(s) /\ \A a \in DOMAIN s : s[a] \in Nat
  BY SeqIsFunction
<1>2. \A a, b \in DOMAIN s : s[a] = s[b] => a = b
  <2> SUFFICES ASSUME NEW a \in DOMAIN s, NEW b \in DOMAIN s, s[a] = s[b], a # b PROVE FALSE
    OBVIOUS
  <2>1. a \in Nat /\ b \in Nat /\ s[a] \in Nat /\ s[b] \in Nat
    BY <1>1
  <2>2. (a < b => s[a] < s[b]) /\ (b < a => s[b] < s[a])
    BY DEF Ascends
  <2> QED BY ONLY <2>1, <2>2, s[a] = s[b], a # b
<1>3. ASSUME NEW g
      PROVE  Cardinality({a \in DOMAIN s : s[a] = g}) = IF \E a \in DOMAIN s : s[a] = g THEN 1 ELSE 0
  <2>1. CASE \E a \in DOMAIN s : s[a] = g
    <3>1. PICK b \in DOMAIN s : s[b] = g
      BY <2>1
    <3>2. {a \in DOMAIN s : s[a] = g} = {b}
      BY <1>2, <3>1
    <3> QED BY <2>1, <3>2, FS_Singleton
  <2>2. CASE ~\E a \in DOMAIN s : s[a] = g
    <3>1. {a \in DOMAIN s : s[a] = g} = {}
      BY <2>2
    <3> QED BY <2>2, <3>1, FS_EmptySet
  <2> QED BY <2>1, <2>2
<1>4. IsFiniteSet(ToSet(s)) /\ Cardinality(ToSet(s)) = Len(s)
  <2> DEFINE f == [a \in 1..Len(s) |-> s[a]]
  <2>1. f \in [1..Len(s) -> ToSet(s)]
    BY <1>1 DEF ToSet
  <2>2. f \in Injection(1..Len(s), ToSet(s))
    BY <1>1, <1>2, <2>1 DEF Injection, IsInjective
  <2>3. f \in Surjection(1..Len(s), ToSet(s))
    BY <1>1, <2>1 DEF Surjection, ToSet
  <2>4. IsFiniteSet(1..Len(s)) /\ Cardinality(1..Len(s)) = Len(s)
    <3> DEFINE n == Len(s)
    <3>1. n \in Nat
      BY <1>1
    <3> HIDE DEF n
    <3>2. IsFiniteSet(1..n) /\ Cardinality(1..n) = n
      BY ONLY <3>1, FS_Interval
    <3> QED BY <3>2 DEF n
  <2> HIDE DEF f
  <2> QED BY <2>2, <2>3, <2>4, FS_Surjection
<1> QED BY <1>3, <1>4

(* The events of v, by number, record by record; Chunks is that of visits. *)
Put(v) == FlattenSeq([i \in DOMAIN AllRecords |-> [j \in DOMAIN v[i] |-> NumberOf(i, v[i][j])]])

Fits(v) ==
  /\ v \in [1..Len(AllRecords) -> Seq(Nat)]
  /\ \A i \in 1..Len(AllRecords) :
       Ascends(v[i]) /\ \A j \in DOMAIN v[i] : v[i][j] \in 1..CountOf(i)

LEMMA PutAscends ==
  ASSUME NEW v, Fits(v)
  PROVE  /\ Put(v) \in Seq(Nat)
         /\ Ascends(Put(v))
         /\ \A x : Has(Put(v), x)
                     <=> \E i \in 1..Len(AllRecords) : \E j \in DOMAIN v[i] : NumberOf(i, v[i][j]) = x
<1>1. PICK n : n = Len(AllRecords)
  OBVIOUS
<1>2. n \in Nat /\ DOMAIN AllRecords = 1..n
  BY <1>1, RecordsInLine
<1>3. PICK seqs : seqs = [i \in 1..n |-> [j \in DOMAIN v[i] |-> NumberOf(i, v[i][j])]]
  OBVIOUS
<1>4. ASSUME NEW i \in 1..n
      PROVE  /\ DOMAIN seqs[i] = DOMAIN v[i] /\ DOMAIN v[i] = 1..Len(v[i]) /\ Len(v[i]) \in Nat
             /\ \A j \in DOMAIN v[i] : v[i][j] \in 1..CountOf(i) /\ seqs[i][j] = NumberOf(i, v[i][j])
  <2>1. v[i] \in Seq(Nat)
    BY <1>1 DEF Fits
  <2>2. DOMAIN v[i] = 1..Len(v[i]) /\ Len(v[i]) \in Nat
    BY ONLY <2>1, SeqIsFunction
  <2> QED BY <1>1, <1>3, <2>2 DEF Fits
<1>5. ASSUME NEW i \in 1..n, NEW j \in DOMAIN v[i], NEW k \in 1..n, NEW l \in DOMAIN v[k]
      PROVE  /\ NumberOf(i, v[i][j]) \in Nat
             /\ i < k => NumberOf(i, v[i][j]) < NumberOf(k, v[k][l])
  BY <1>1, <1>4, NumbersApart
<1>6. ASSUME NEW i \in 1..n
      PROVE  seqs[i] \in Seq(Nat) /\ Ascends(seqs[i])
  <2>1. \A j \in DOMAIN v[i] : seqs[i][j] \in Nat
    BY <1>4, <1>5
  <2>2. seqs[i] = [j \in 1..Len(v[i]) |-> NumberOf(i, v[i][j])]
    BY <1>3, <1>4
  <2>3. seqs[i] \in [1..Len(v[i]) -> Nat]
    BY <1>4, <2>1, <2>2
  <2>4. seqs[i] \in Seq(Nat)
    BY <1>4, <2>3, FunctionIsSeq
  <2>5. ASSUME NEW a \in DOMAIN v[i], NEW b \in DOMAIN v[i], a < b
        PROVE  NumberOf(i, v[i][a]) < NumberOf(i, v[i][b])
    <3>1. v[i][a] < v[i][b]
      BY <1>1, <2>5 DEF Fits, Ascends
    <3>2. v[i][a] \in 1..CountOf(i) /\ v[i][b] \in 1..CountOf(i) /\ CountOf(i) \in Nat
      BY <1>1, <1>4, RecordsInLine DEF CountOf
    <3>3. RecStart(i) \in Nat
      BY <1>1, RecordsInLine
    <3> QED BY <3>1, <3>2, <3>3 DEF NumberOf
  <2> QED BY <1>4, <2>4, <2>5 DEF Ascends
<1>7. seqs \in [1..n -> Seq(Nat)]
  BY <1>3, <1>6
<1>8. \A i, k \in 1..n : i < k => \A j \in DOMAIN seqs[i], l \in DOMAIN seqs[k] : seqs[i][j] < seqs[k][l]
  BY <1>4, <1>5
<1>9. Put(v) = FlattenSeq(seqs)
  BY <1>2, <1>3 DEF Put
<1>10. /\ FlattenSeq(seqs) \in Seq(Nat) /\ Ascends(FlattenSeq(seqs))
       /\ \A x : (\E a \in DOMAIN FlattenSeq(seqs) : FlattenSeq(seqs)[a] = x)
                   <=> \E i \in 1..n : \E j \in DOMAIN seqs[i] : seqs[i][j] = x
  BY <1>2, <1>6, <1>7, <1>8, FlatAscends
<1>11. \A x : (\E i \in 1..n : \E j \in DOMAIN seqs[i] : seqs[i][j] = x)
                <=> \E i \in 1..n : \E j \in DOMAIN v[i] : NumberOf(i, v[i][j]) = x
  BY <1>4
<1>12. PICK p : p = FlattenSeq(seqs)
  OBVIOUS
<1>13. /\ p \in Seq(Nat) /\ Ascends(p)
       /\ \A x : (\E a \in DOMAIN p : p[a] = x) <=> \E i \in 1..n : \E j \in DOMAIN v[i] : NumberOf(i, v[i][j]) = x
  BY ONLY <1>10, <1>11, <1>12, Zenon
<1>14. p = Put(v)
  BY <1>9, <1>12
<1> QED BY ONLY <1>1, <1>13, <1>14, Zenon DEF Has

(* A record that can be read holds the events its index row announces.     *)
LEMMA ReadCounts ==
  ASSUME IndexesRight, NEW i \in 1..Len(AllRecords), Readable(RecordOf(i))
  PROVE  EventsIn(i) = 1..CountOf(i)
<1>1. AllRecords[i][1] \in 1..Len(Files) /\ AllRecords[i][2] \in 1..Len(Files[AllRecords[i][1]])
  BY RecordsExist
<1>2. RecordOf(i).event_count = Len(RecordOf(i).passes)
  BY <1>1 DEF IndexesRight, RecordOf
<1> QED BY <1>2 DEF EventsIn, CountOf

(* The event of number g has been visited.                                 *)
Seen(g) ==
  \E i \in DOMAIN tasks : \E k \in EventsIn(i) : g = NumberOf(i, k) /\ Gone(i, k) /\ Chosen(i, k)

(* Put together, the visits ascend, and are those of the events gone       *)
(* through that were asked for.                                            *)
LEMMA ChunksAre ==
  ASSUME IndexesRight, ScanInv
  PROVE  /\ Chunks \in Seq(Nat) /\ Ascends(Chunks)
         /\ \A g : Has(Chunks, g) <=> Seen(g)
<1> DEFINE m == Len(AllRecords)
<1>1. DOMAIN AllRecords = 1..m /\ DOMAIN tasks \subseteq 1..m
  BY ScanShape
<1>2. ASSUME NEW i \in 1..m, NEW k \in EventsIn(i), Gone(i, k)
      PROVE  i \in DOMAIN tasks /\ k \in 1..CountOf(i)
  BY <1>2, ReadCounts DEF Gone, Read, Begun
<1>3. \A i \in 1..m :
        /\ Ascends(visits[i])
        /\ \A k : (\E a \in DOMAIN visits[i] : visits[i][a] = k)
                    <=> k \in EventsIn(i) /\ Gone(i, k) /\ Chosen(i, k)
  BY <1>1 DEF ScanInv, VisitsAre, Ascends
<1>4. visits \in [1..m -> Seq(Nat)]
  BY <1>1 DEF ScanInv, TypeOK
<1>5. Fits(visits)
  BY <1>2, <1>3, <1>4 DEF Fits
<1>6. Chunks = Put(visits)
  BY DEF Chunks, Put, VisitedIn, NumberOf
<1>7. ASSUME NEW g
      PROVE  (\E i \in 1..m : \E j \in DOMAIN visits[i] : NumberOf(i, visits[i][j]) = g) <=> Seen(g)
  <2>1. ASSUME NEW i \in 1..m, NEW j \in DOMAIN visits[i], NumberOf(i, visits[i][j]) = g
        PROVE  Seen(g)
    <3>1. PICK k : k = visits[i][j]
      OBVIOUS
    <3>2. k \in EventsIn(i) /\ Gone(i, k) /\ Chosen(i, k) /\ NumberOf(i, k) = g
      BY <1>3, <2>1, <3>1
    <3> QED BY <1>2, <3>2 DEF Seen
  <2>2. ASSUME NEW i \in DOMAIN tasks, NEW k \in EventsIn(i), g = NumberOf(i, k), Gone(i, k), Chosen(i, k)
        PROVE  \E j \in DOMAIN visits[i] : NumberOf(i, visits[i][j]) = g
    BY <1>1, <1>3, <2>2
  <2>3. ASSUME Seen(g)
        PROVE  \E i \in 1..m : \E j \in DOMAIN visits[i] : NumberOf(i, visits[i][j]) = g
    BY <1>1, <2>2, <2>3 DEF Seen
  <2> QED BY <2>1, <2>3
<1>8. PICK v : v = visits
  OBVIOUS
<1>9. /\ Put(v) \in Seq(Nat) /\ Ascends(Put(v))
      /\ \A x : Has(Put(v), x) <=> \E i \in 1..m : \E j \in DOMAIN v[i] : NumberOf(i, v[i][j]) = x
  <2>1. Fits(v)
    BY <1>5, <1>8
  <2> QED BY ONLY <2>1, PutAscends
<1>10. Chunks = Put(v)
  BY <1>6, <1>8
<1>11. \A x : Has(Put(v), x) <=> Seen(x)
  BY <1>7, <1>8, <1>9
<1> QED BY ONLY <1>9, <1>10, <1>11

(* So each event has been visited once or not at all.                      *)
LEMMA VisitedIs ==
  ASSUME IndexesRight, ScanInv
  PROVE  Visited = [g \in 0..Total - 1 |-> IF Seen(g) THEN 1 ELSE 0]
<1>1. PICK s : s = Chunks
  OBVIOUS
<1>2. s \in Seq(Nat) /\ Ascends(s) /\ \A g : Has(s, g) <=> Seen(g)
  BY <1>1, ChunksAre, Zenon
<1>3. \A g : Cardinality({a \in DOMAIN s : s[a] = g}) = IF \E a \in DOMAIN s : s[a] = g THEN 1 ELSE 0
  BY <1>2, AscendingOnce
<1>4. Visited = [g \in 0..Total - 1 |-> Cardinality({a \in DOMAIN s : s[a] = g})]
  BY <1>1 DEF Visited
<1>5. ASSUME NEW g PROVE Cardinality({a \in DOMAIN s : s[a] = g}) = IF Seen(g) THEN 1 ELSE 0
  BY <1>2, <1>3, Zenon DEF Has
<1> QED BY ONLY <1>4, <1>5

(* An event gone through that was asked for is one of those wanted.        *)
LEMMA SeenIsWanted ==
  ASSUME IndexesRight, TagsReadable, ScanInv, NEW g, Seen(g)
  PROVE  g \in Wanted[request] /\ g \in 0..Total - 1
<1>1. PICK i, k :
       /\ i \in DOMAIN tasks
       /\ k \in EventsIn(i)
       /\ g = NumberOf(i, k) /\ Gone(i, k) /\ Chosen(i, k)
  BY DEF Seen
<1>2. i \in 1..Len(AllRecords) /\ request \in Request /\ tasks = TasksOf(request)
  BY <1>1, ScanShape DEF ScanInv
<1>3. k \in 1..CountOf(i)
  BY <1>1, <1>2, ReadCounts DEF Gone, Read
<1>4. g \in Nat /\ g < Total /\ Total \in Nat
  BY <1>1, <1>2, <1>3, NumbersApart, RecordsInLine
<1>5. g \in Wanted[request]
  BY <1>1, <1>2, <1>3, <1>4, AskedIs
<1> QED BY <1>4, <1>5

(* An event wanted is one of a record that a worker is to read.            *)
LEMMA WantedIs ==
  ASSUME TagsReadable, ScanInv, NEW g \in Wanted[request]
  PROVE  \E i \in DOMAIN tasks : \E k \in 1..CountOf(i) :
           g = NumberOf(i, k) /\ Chosen(i, k) /\ ~PassedOver(i)
<1>1. request \in Request /\ tasks = TasksOf(request) /\ Total \in Nat
  BY ScanShape, RecordsInLine DEF ScanInv
<1>2. g \in 0..Total - 1
  BY <1>1 DEF Wanted, Counted
<1>3. g \in Nat /\ g < Total
  BY <1>1, <1>2
<1>4. PICK i, k :
       /\ i \in DOMAIN tasks
       /\ k \in 1..CountOf(i)
       /\ g = NumberOf(i, k) /\ Chosen(i, k)
  BY <1>1, <1>3, AskedIs
<1>5. ~PassedOver(i)
  BY <1>1, <1>4, AskedIs DEF Chosen
<1> QED BY <1>4, <1>5

(* When nothing has failed and nothing is left, all of them were visited.  *)
LEMMA NothingLeft ==
  ASSUME IndexesRight, TagsReadable, ScanInv, ~failed, todo = {}, \A w \in Worker : at[w] = 0,
         NEW g \in Wanted[request]
  PROVE  Seen(g)
<1>1. PICK i, k :
       /\ i \in DOMAIN tasks
       /\ k \in 1..CountOf(i)
       /\ g = NumberOf(i, k) /\ Chosen(i, k) /\ ~PassedOver(i)
  BY WantedIs
<1>2. i \in Begun /\ i \in 1..Len(AllRecords) /\ i # 0
  BY <1>1, ScanShape DEF Begun
<1>3. Readable(RecordOf(i))
  BY <1>1, <1>2 DEF ScanInv, Outcomes, Failing
<1>4. Gone(i, k)
  BY <1>1, <1>2, <1>3 DEF Gone, Read
<1>5. k \in EventsIn(i)
  BY <1>1, <1>2, <1>3, ReadCounts
<1> QED BY <1>1, <1>4, <1>5 DEF Seen

(* On one thread, what comes before an event visited and is wanted was     *)
(* visited too.                                                            *)
LEMMA NothingSkipped ==
  ASSUME IndexesRight, TagsReadable, ScanInv, request.threads = 1,
         NEW d \in Wanted[request], NEW e, Seen(e), d < e
  PROVE  Seen(d)
<1>1. PICK i, k :
       /\ i \in DOMAIN tasks
       /\ k \in 1..CountOf(i)
       /\ d = NumberOf(i, k) /\ Chosen(i, k) /\ ~PassedOver(i)
  BY WantedIs
<1>2. PICK j, l :
       /\ j \in DOMAIN tasks
       /\ l \in EventsIn(j)
       /\ e = NumberOf(j, l) /\ Gone(j, l) /\ Chosen(j, l)
  BY DEF Seen
<1>3. /\ i \in 1..Len(AllRecords) /\ j \in 1..Len(AllRecords) /\ Len(AllRecords) \in Nat
      /\ i \in Nat /\ j \in Nat /\ i # 0 /\ todo \subseteq DOMAIN tasks
  BY <1>1, <1>2, ScanShape
<1>4. l \in 1..CountOf(j)
  BY <1>2, <1>3, ReadCounts DEF Gone, Read
<1>5. i <= j
  <2>1. j < i => e < d
    BY <1>1, <1>2, <1>3, <1>4, NumbersApart
  <2>2. d \in Nat /\ e \in Nat
    BY <1>1, <1>2, <1>3, <1>4, NumbersApart
  <2>3. ~(j < i)
    BY ONLY <2>1, <2>2, d < e
  <2> QED BY <1>3, <2>3
<1>6. j \in Begun /\ Read(j)
  BY <1>2 DEF Gone, Read
<1>7. CASE i = j
  <2>1. k < l
    <3>1. CountOf(i) \in Nat /\ RecStart(i) \in Nat
      BY <1>3, RecordsInLine DEF CountOf
    <3>2. k \in Nat /\ l \in Nat
      BY <1>1, <1>4, <1>7, <3>1
    <3>3. RecStart(i) + k - 1 < RecStart(i) + l - 1
      BY <1>1, <1>2, <1>7 DEF NumberOf
    <3> HIDE DEF NumberOf
    <3> DEFINE r == RecStart(i)
    <3>4. r \in Nat /\ r + k - 1 < r + l - 1
      BY <3>1, <3>3
    <3> HIDE DEF r
    <3> QED BY ONLY <3>2, <3>4
  <2>2. Gone(i, k)
    <3>1. \A w \in Worker : at[w] = i => l < next_event[w]
      BY <1>2, <1>7 DEF Gone
    <3>2. \A w \in Worker : next_event[w] \in Nat
      BY ScanShape
    <3>3. k \in Nat /\ l \in Nat
      <4>1. CountOf(i) \in Nat
        BY <1>3, RecordsInLine DEF CountOf
      <4> QED BY <1>1, <1>4, <1>7, <4>1
    <3>4. \A w \in Worker : at[w] = i => k < next_event[w]
      BY <2>1, <3>1, <3>2, <3>3
    <3> QED BY <1>6, <1>7, <3>4 DEF Gone
  <2>3. k \in EventsIn(i)
    BY <1>1, <1>3, <1>6, <1>7, ReadCounts DEF Read
  <2> QED BY <1>1, <2>2, <2>3 DEF Seen
<1>8. CASE i < j
  <2>1. /\ \A x \in todo : j < x
        /\ \A w \in Worker : at[w] # 0 => j <= at[w]
    BY <1>6 DEF ScanInv, InOrder
  <2>2. i \in Begun
    BY <1>1, <1>3, <1>8, <2>1 DEF Begun
  <2>3. ~Failing(i)
    <3>1. Failing(i) => j <= i
      BY <1>6, <2>2 DEF ScanInv, InOrder
    <3> QED BY <1>3, <1>8, <3>1
  <2>4. Read(i)
    BY <1>1, <2>2, <2>3 DEF Read, Failing
  <2>5. \A w \in Worker : at[w] # i
    BY <1>3, <1>8, <2>1
  <2>6. Gone(i, k)
    BY <2>4, <2>5 DEF Gone
  <2>7. k \in EventsIn(i)
    BY <1>1, <1>3, <2>4, ReadCounts DEF Read
  <2> QED BY <1>1, <2>6, <2>7 DEF Seen
<1> QED BY <1>3, <1>5, <1>7, <1>8

(* ChunksInOrder, for every chain, every request and any number of         *)
(* workers: what was visited, put together record by record, is in the     *)
(* order of the chain, is only what was asked for, and is all of it when   *)
(* the scan succeeds; on one thread nothing is skipped.                    *)
THEOREM ScansPutTogetherInOrder ==
  ASSUME IndexesRight, TagsReadable
  PROVE  Spec => []ChunksInOrder
<1>1. ASSUME ScanInv PROVE ChunksInOrder
  <2>1. PICK s : s = Chunks
    OBVIOUS
  <2>2. s \in Seq(Nat) /\ Ascends(s) /\ \A g : Has(s, g) <=> Seen(g)
    BY <1>1, <2>1, ChunksAre, Zenon
  <2>3. \A g : g \in ToSet(s) <=> Seen(g)
    BY <2>2 DEF ToSet, Has
  <2>4. ToSet(s) \subseteq Wanted[request]
    BY <1>1, <2>3, SeenIsWanted
  <2>5. ASSUME outcome = "ok" PROVE ToSet(s) = Wanted[request]
    <3>1. ~failed /\ todo = {} /\ \A w \in Worker : at[w] = 0
      BY <1>1, <2>5 DEF ScanInv, Outcomes
    <3>2. \A g \in Wanted[request] : g \in ToSet(s)
      BY <1>1, <2>3, <3>1, NothingLeft
    <3> QED BY <2>4, <3>2
  <2>6. request.threads = 1 =>
          \A d \in Wanted[request] : \A e \in ToSet(s) : d < e => d \in ToSet(s)
    BY <1>1, <2>3, NothingSkipped
  <2>7. \A a, b \in DOMAIN s : a < b => s[a] < s[b]
    BY <2>2 DEF Ascends
  <2> QED BY <2>1, <2>4, <2>5, <2>6, <2>7 DEF ChunksInOrder
<1> QED BY <1>1, ScanInvHolds, PTL
-----------------------------------------------------------------------------
(***************************************************************************)
(* A scan by workers is a scan of the events, in no order.                 *)
(***************************************************************************)
Marks == Visited = [g \in 0..Total - 1 |-> IF Seen(g) THEN 1 ELSE 0]

(* A step that goes through no event leaves what EventScan sees alone.     *)
LEMMA NothingSeen ==
  ASSUME ScanInv, Marks, Marks', UNCHANGED <<request, tasks>>,
         \A j \in DOMAIN AllRecords : \A l \in EventsIn(j) : Gone(j, l)' <=> Gone(j, l)
  PROVE  Wanted[request]' = Wanted[request] /\ Unreadable' = Unreadable /\ Visited' = Visited
<1>1. \A j, l : Chosen(j, l)' <=> Chosen(j, l)
  BY SameAsked DEF Chosen
<1>2. \A g : Seen(g)' <=> Seen(g)
  <2>1. DOMAIN tasks \subseteq DOMAIN AllRecords
    BY ScanShape
  <2> QED BY <1>1, <2>1 DEF Seen
<1>3. Visited' = Visited
  BY <1>2 DEF Marks
<1> QED BY <1>3 DEF Unreadable

(* Going through an event visits it when it was asked for.                 *)
LEMMA VisitIsSeen ==
  ASSUME IndexesRight, TagsReadable, ScanInv, Marks, Marks', NEW w \in Worker, VisitEvent(w)
  PROVE  [Scan!Next]_(Scan!vars)
<1>0. PICK i, k : i = at[w] /\ k = next_event[w]
  OBVIOUS
<1>1. /\ i \in DOMAIN AllRecords /\ i \in DOMAIN tasks /\ Read(i) /\ k \in EventsIn(i)
      /\ i # 0 /\ UNCHANGED <<request, tasks, outcome>>
  BY <1>0, VisitIs
<1>2. /\ \A j \in DOMAIN AllRecords : \A l \in EventsIn(j) :
           Gone(j, l)' <=> Gone(j, l) \/ (j = i /\ l = k)
      /\ ~Gone(i, k)
  BY <1>0, VisitGoesOn
<1>3. \A j, l : Chosen(j, l)' <=> Chosen(j, l)
  BY <1>1, SameAsked DEF Chosen
<1>4. DOMAIN tasks \subseteq DOMAIN AllRecords /\ DOMAIN AllRecords = 1..Len(AllRecords)
  BY ScanShape
<1>5. outcome = "running"
  BY <1>0, <1>1 DEF ScanInv, AtWork
<1>6. Wanted[request]' = Wanted[request] /\ Unreadable' = Unreadable
  BY <1>1 DEF Unreadable
<1>7. CASE Chosen(i, k)
  <2>1. PICK e : e = NumberOf(i, k)
    OBVIOUS
  <2>2. \A g : Seen(g)' <=> Seen(g) \/ g = e
    BY <1>1, <1>2, <1>3, <1>4, <1>7, <2>1 DEF Seen
  <2>3. k \in 1..CountOf(i) /\ Total \in Nat
    BY <1>1, <1>4, ReadCounts, RecordsInLine DEF Read
  <2>4. e \in Nat /\ e < Total
    BY <1>1, <1>4, <2>1, <2>3, NumbersApart
  <2>5. ~Seen(e)
    <3>0. SUFFICES ASSUME NEW j \in DOMAIN tasks, NEW l \in EventsIn(j), e = NumberOf(j, l), Gone(j, l)
                   PROVE  FALSE
      BY DEF Seen
    <3>1. l \in 1..CountOf(j) /\ j \in 1..Len(AllRecords)
      BY <1>4, <3>0, ReadCounts DEF Gone, Read
    <3>2. i = j /\ k = l
      <4>1. i \in 1..Len(AllRecords) /\ k \in 1..CountOf(i) /\ NumberOf(i, k) = NumberOf(j, l)
        BY <1>1, <1>4, <2>1, <2>3, <3>0
      <4>2. \A x \in 1..Len(AllRecords) : \A y \in 1..CountOf(x) :
              NumberOf(i, k) = NumberOf(x, y) => i = x /\ k = y
        BY ONLY <4>1, NumbersApart
      <4> QED BY ONLY <3>1, <4>1, <4>2
    <3> QED BY <1>2, <3>0, <3>2
  <2>6. e \in Wanted[request]
    <3>1. request \in Request /\ tasks = TasksOf(request)
      BY ScanShape DEF ScanInv
    <3> QED BY <1>1, <1>7, <2>1, <2>3, <2>4, <3>1, AskedIs
  <2>7. e \in 0..Total - 1
    BY <2>3, <2>4
  <2>8. Visited[e] = 0 /\ Visited' = [Visited EXCEPT ![e] = 1]
    BY <2>2, <2>5, <2>7 DEF Marks
  <2>9. Scan!Visit(e)
    BY <1>1, <1>5, <1>6, <2>8 DEF Scan!Visit
  <2> QED BY <2>6, <2>9 DEF Scan!Next
<1>8. CASE ~Chosen(i, k)
  <2>1. \A g : Seen(g)' <=> Seen(g)
    BY <1>1, <1>2, <1>3, <1>4, <1>8 DEF Seen
  <2>2. Visited' = Visited
    BY <2>1 DEF Marks
  <2> QED BY <1>1, <1>6, <2>2 DEF Scan!vars
<1> QED BY <1>7, <1>8

(* The scan returns with all visited, or over an unreadable record.        *)
LEMMA JoinIsSeen ==
  ASSUME IndexesRight, TagsReadable, ScanInv, Marks, Marks', Join
  PROVE  [Scan!Next]_(Scan!vars)
<1>1. /\ outcome = "running" /\ \A w \in Worker : at[w] = 0
      /\ \/ failed /\ outcome' = "err"
         \/ ~failed /\ todo = {} /\ outcome' = "ok"
      /\ UNCHANGED <<request, tasks, todo, at, next_event, visits, local_in, local_out,
                     events_in, events_yielded, failed>>
  BY DEF Join, AllIdle
<1>2. Wanted[request]' = Wanted[request] /\ Unreadable' = Unreadable /\ Visited' = Visited
  <2>1. \A j, l : Gone(j, l)' <=> Gone(j, l)
    BY <1>1 DEF Gone, Read, Begun, PassedOver
  <2> QED BY <1>1, <2>1, NothingSeen
<1>3. CASE failed /\ outcome' = "err"
  <2>1. PICK i \in Begun : Failing(i)
    BY <1>3 DEF ScanInv, Outcomes
  <2>2. i \in DOMAIN tasks /\ i \in DOMAIN AllRecords
    BY ScanShape DEF Begun
  <2>3. Matches(RecordOf(i), request.record_tags)
    BY <2>2, ScanShape, TasksAre DEF ScanInv
  <2>4. Unreadable
    BY <2>1, <2>2, <2>3 DEF Unreadable, Failing, Readable
  <2>5. Scan!Fail
    BY <1>1, <1>2, <1>3, <2>4 DEF Scan!Fail
  <2> QED BY <2>5 DEF Scan!Next
<1>4. CASE ~failed /\ todo = {} /\ outcome' = "ok"
  <2>1. ASSUME NEW e \in Wanted[request] PROVE Visited[e] = 1
    <3>1. Seen(e)
      BY <1>1, <1>4, NothingLeft
    <3>2. e \in 0..Total - 1
      BY <3>1, SeenIsWanted
    <3> QED BY <3>1, <3>2 DEF Marks
  <2>2. Scan!Finish
    BY <1>1, <1>2, <1>4, <2>1 DEF Scan!Finish
  <2> QED BY <2>2 DEF Scan!Next
<1> QED BY <1>1, <1>3, <1>4

(* Taking a record visits nothing.                                         *)
LEMMA TakeIsNotSeen ==
  ASSUME ScanInv, Marks, Marks', NEW w \in Worker, Take(w)
  PROVE  [Scan!Next]_(Scan!vars)
<1>1. PICK i \in todo : TakesOf(w, i) /\ (Reads(w, i) \/ ReadsNot(i))
  BY TakeIs
<1>2. \A j \in DOMAIN AllRecords : \A k \in EventsIn(j) : Gone(j, k)' <=> Gone(j, k)
  BY <1>1, TakeGoesNowhere
<1>3. UNCHANGED <<request, tasks, outcome>>
  BY <1>1 DEF TakesOf
<1>4. Wanted[request]' = Wanted[request] /\ Unreadable' = Unreadable /\ Visited' = Visited
  BY <1>2, <1>3, NothingSeen
<1> QED BY <1>3, <1>4 DEF Scan!vars

(* Nor does putting one behind.                                            *)
LEMMA EndIsNotSeen ==
  ASSUME ScanInv, Marks, Marks', NEW w \in Worker, EndRecord(w)
  PROVE  [Scan!Next]_(Scan!vars)
<1>1. \A j \in DOMAIN AllRecords : \A k \in EventsIn(j) : Gone(j, k)' <=> Gone(j, k)
  BY EndGoesOn
<1>2. UNCHANGED <<request, tasks, outcome>>
  BY DEF EndRecord
<1>3. Wanted[request]' = Wanted[request] /\ Unreadable' = Unreadable /\ Visited' = Visited
  BY <1>1, <1>2, NothingSeen
<1> QED BY <1>2, <1>3 DEF Scan!vars

(* VisitsEachEventOnce, for every chain, every request and any number of   *)
(* workers: however the records fall to them, the scan is one of the       *)
(* events asked for, each visited once; it ends well only when all have    *)
(* been, and fails only over a record that cannot be read.                 *)
THEOREM WorkersVisitEachEventOnce ==
  ASSUME IndexesRight, TagsReadable
  PROVE  Spec => VisitsEachEventOnce
<1>1. ScanInv => Marks
  BY VisitedIs DEF Marks
<1>2. ASSUME Init PROVE Scan!Init
  <2>1. ScanInv
    BY <1>2, InitEstablishes
  <2>2. todo = DOMAIN tasks /\ outcome = "running"
    BY <1>2 DEF Init
  <2>3. \A g : ~Seen(g)
    BY <2>2 DEF Seen, Gone, Read, Begun
  <2>4. Visited = [g \in 0..Total - 1 |-> 0]
    BY <1>1, <2>1, <2>3 DEF Marks
  <2> QED BY <2>2, <2>4 DEF Scan!Init
<1>3. ASSUME ScanInv, Marks, Marks', [Next]_vars PROVE [Scan!Next]_(Scan!vars)
  <2>1. CASE UNCHANGED vars
    <3>1. UNCHANGED <<request, tasks, todo, at, next_event, visits, local_in, local_out,
                      events_in, events_yielded, failed, outcome>>
      BY <2>1 DEF vars
    <3>2. \A j, l : Gone(j, l)' <=> Gone(j, l)
      BY <3>1 DEF Gone, Read, Begun, PassedOver
    <3>3. Wanted[request]' = Wanted[request] /\ Unreadable' = Unreadable /\ Visited' = Visited
      BY <1>3, <3>1, <3>2, NothingSeen
    <3> QED BY <3>1, <3>3 DEF Scan!vars
  <2>2. CASE Next
    BY <1>3, <2>2, TakeIsNotSeen, VisitIsSeen, EndIsNotSeen, JoinIsSeen DEF Next
  <2> QED BY <1>3, <2>1, <2>2
<1> QED BY <1>1, <1>2, <1>3, ScanInvHolds, PTL DEF Spec, VisitsEachEventOnce
-----------------------------------------------------------------------------
(***************************************************************************)
(* The statistics of a scan.                                               *)
(***************************************************************************)
(* The numbers of events of the records of D; h tells which of each.       *)
NumbersOf(D, h) == {g \in 0..Total - 1 : \E i \in D : \E k \in h[i] : g = NumberOf(i, k)}

(* Of each record, the events in the request, and those of them the filter *)
(* lets pass; the records that are done.                                   *)
Inside == [i \in DOMAIN AllRecords |-> {k \in EventsIn(i) : Holds(i, k)}]
Picked == [i \in DOMAIN AllRecords |-> {k \in EventsIn(i) : Chosen(i, k)}]
DoneRecords == {i \in DOMAIN AllRecords : Done(i)}

(* The shared counts are of the records done, each worker's of the events  *)
(* of its record it has gone through.                                      *)
Counts ==
  /\ request.kind # "columns" =>
       /\ events_in = Cardinality(NumbersOf(DoneRecords, Inside))
       /\ events_yielded = Cardinality(NumbersOf(DoneRecords, Picked))
  /\ \A w \in Worker : at[w] # 0 =>
       /\ local_in[w] = Cardinality({k \in Inside[at[w]] : k < next_event[w]})
       /\ local_out[w] = Cardinality({k \in Picked[at[w]] : k < next_event[w]})

(* Counting up to a number and up to the next.                             *)
LEMMA CountOneMore ==
  ASSUME NEW H \in SUBSET Nat, NEW n \in Nat
  PROVE  /\ Cardinality({k \in H : k < n}) \in Nat
         /\ Cardinality({k \in H : k < n + 1}) =
              IF n \in H THEN Cardinality({k \in H : k < n}) + 1 ELSE Cardinality({k \in H : k < n})
<1> DEFINE A == {k \in H : k < n}
           B == {k \in H : k < n + 1}
<1>1. A \in SUBSET Nat /\ \A x \in A : x <= n
  <2>1. \A x \in A : x \in H /\ x < n
    OBVIOUS
  <2>2. \A x \in H : x \in Nat
    OBVIOUS
  <2> HIDE DEF A
  <2>3. \A x \in A : x \in Nat /\ x < n
    BY <2>1, <2>2
  <2> QED BY ONLY <2>3, n \in Nat
<1>2. B = IF n \in H THEN A \cup {n} ELSE A
  <2>1. \A k \in H : k < n + 1 <=> k < n \/ k = n
    OBVIOUS
  <2> QED BY <2>1
<1>3. n \notin A
  OBVIOUS
<1> HIDE DEF A, B
<1>4. IsFiniteSet(A)
  BY ONLY <1>1, n \in Nat, FS_BoundedSetOfNaturals
<1>5. Cardinality(A) \in Nat
  BY ONLY <1>4, FS_CardinalityType
<1>6. Cardinality(A \cup {n}) = Cardinality(A) + 1
  BY ONLY <1>3, <1>4, FS_AddElement
<1> QED BY <1>2, <1>5, <1>6 DEF A, B

(* The numbers of one more record's events are as many as they are.        *)
LEMMA OneMoreRecord ==
  ASSUME NEW h, NEW D \in SUBSET (1..Len(AllRecords)), NEW i \in 1..Len(AllRecords), i \notin D,
         \A j \in D : h[j] \subseteq 1..CountOf(j), h[i] \subseteq 1..CountOf(i)
  PROVE  Cardinality(NumbersOf(D \cup {i}, h)) = Cardinality(NumbersOf(D, h)) + Cardinality(h[i])
<1> DEFINE A == NumbersOf(D, h)
           B == NumbersOf({i}, h)
<1>1. Total \in Nat /\ CountOf(i) \in Nat
  BY RecordsInLine DEF CountOf
<1>2. NumbersOf(D \cup {i}, h) = A \cup B
  BY DEF NumbersOf
<1>3. A \cap B = {}
  <2> SUFFICES ASSUME NEW j \in D, NEW k \in h[j], NEW l \in h[i], NumberOf(j, k) = NumberOf(i, l)
               PROVE  FALSE
    BY DEF NumbersOf
  <2>1. j \in 1..Len(AllRecords) /\ k \in 1..CountOf(j) /\ l \in 1..CountOf(i)
    OBVIOUS
  <2>2. j = i
    BY <2>1, NumbersApart
  <2> QED BY <2>2
<1>4. A \subseteq 0..Total - 1 /\ B \subseteq 0..Total - 1
  BY DEF NumbersOf
<1> HIDE DEF A, B
<1>5. IsFiniteSet(0..Total - 1)
  BY <1>1, FS_Interval
<1>6. IsFiniteSet(A) /\ IsFiniteSet(B)
  BY <1>4, <1>5, FS_Subset
<1>7. Cardinality(A \cup B) = Cardinality(A) + Cardinality(B)
  <2>1. Cardinality(A \cup B) = Cardinality(A) + Cardinality(B) - Cardinality(A \cap B)
    BY <1>6, FS_Union
  <2>2. Cardinality(A \cap B) = 0
    BY <1>3, FS_EmptySet
  <2>3. Cardinality(A) \in Nat /\ Cardinality(B) \in Nat
    BY <1>6, FS_CardinalityType
  <2> QED BY <2>1, <2>2, <2>3
<1>8. Cardinality(B) = Cardinality(h[i])
  <2> DEFINE f == [k \in h[i] |-> NumberOf(i, k)]
  <2>1. \A k \in h[i] : k \in 1..CountOf(i)
    OBVIOUS
  <2>2. \A k \in h[i] : NumberOf(i, k) \in 0..Total - 1
    BY <1>1, <2>1, NumbersApart
  <2>3. \A k, l \in h[i] : NumberOf(i, k) = NumberOf(i, l) => k = l
    BY <2>1, NumbersApart
  <2>4. \A g : g \in B <=> \E k \in h[i] : g = NumberOf(i, k)
    BY <2>2 DEF B, NumbersOf
  <2>5. f \in [h[i] -> B]
    BY <2>4
  <2>6. f \in Surjection(h[i], B)
    BY <2>4, <2>5 DEF Surjection
  <2>7. f \in Injection(h[i], B)
    BY <2>3, <2>5 DEF Injection, IsInjective
  <2>8. IsFiniteSet(h[i])
    <3>1. IsFiniteSet(1..CountOf(i))
      BY <1>1, FS_Interval
    <3> QED BY <3>1, FS_Subset
  <2> HIDE DEF f
  <2> QED BY <2>6, <2>7, <2>8, FS_Surjection
<1> QED BY <1>2, <1>7, <1>8 DEF A

(* The events counted do not change while the scan goes on.                *)
LEMMA SameCounted ==
  ASSUME UNCHANGED <<request, tasks>>
  PROVE  Inside' = Inside /\ Picked' = Picked
<1>1. \A i, k : (Holds(i, k)' <=> Holds(i, k)) /\ (Chosen(i, k)' <=> Chosen(i, k))
  BY SameAsked DEF Chosen
<1> QED BY <1>1 DEF Inside, Picked

(* At first nothing is counted.                                            *)
LEMMA InitCounts == Init => Counts
<1> SUFFICES ASSUME Init PROVE Counts
  OBVIOUS
<1>1. /\ todo = DOMAIN tasks /\ events_in = 0 /\ events_yielded = 0
      /\ \A w \in Worker : at[w] = 0
  BY DEF Init
<1>2. DoneRecords = {}
  BY <1>1 DEF DoneRecords, Done, Read, Begun
<1>3. \A h : NumbersOf(DoneRecords, h) = {}
  BY <1>2 DEF NumbersOf
<1> QED BY <1>1, <1>3, FS_EmptySet DEF Counts

(* Taking a record counts nothing.                                         *)
LEMMA TakeCounts ==
  ASSUME ScanInv, Counts, NEW w \in Worker, Take(w)
  PROVE  Counts'
<1>1. PICK i \in todo : TakesOf(w, i) /\ (Reads(w, i) \/ ReadsNot(i))
  BY TakeIs
<1>2. /\ UNCHANGED <<request, tasks, events_in, events_yielded>> /\ i \in DOMAIN AllRecords
  BY <1>1, ScanShape DEF TakesOf
<1>3. Inside' = Inside /\ Picked' = Picked
  BY <1>2, SameCounted
<1>4. DoneRecords' = DoneRecords
  <2>1. \A j \in DOMAIN AllRecords : Done(j)' <=> Done(j)
    BY <1>1, TakeGoesNowhere
  <2> QED BY <2>1 DEF DoneRecords
<1>5. /\ \A j \in DOMAIN AllRecords : Inside[j] \subseteq Nat /\ Picked[j] \subseteq Nat
      /\ \A j \in DOMAIN AllRecords : \A k \in Inside[j] \cup Picked[j] : ~(k < 1)
  BY DEF Inside, Picked, EventsIn
<1>6. ASSUME NEW v \in Worker, at'[v] # 0
      PROVE  /\ local_in'[v] = Cardinality({k \in Inside[at'[v]] : k < next_event'[v]})
             /\ local_out'[v] = Cardinality({k \in Picked[at'[v]] : k < next_event'[v]})
  <2>1. CASE ReadsNot(i)
    <3>1. UNCHANGED <<at, next_event, local_in, local_out>>
      BY <2>1 DEF ReadsNot
    <3> QED BY <1>6, <3>1 DEF Counts
  <2>2. CASE Reads(w, i)
    <3>1. /\ at' = [at EXCEPT ![w] = i] /\ next_event' = [next_event EXCEPT ![w] = 1]
          /\ local_in' = [local_in EXCEPT ![w] = 0] /\ local_out' = [local_out EXCEPT ![w] = 0]
      BY <2>2 DEF Reads
    <3>2. /\ at \in [Worker -> {0} \cup (DOMAIN tasks \ todo)] /\ next_event \in [Worker -> Nat \ {0}]
          /\ local_in \in [Worker -> Nat] /\ local_out \in [Worker -> Nat]
      BY DEF ScanInv, TypeOK
    <3>3. CASE v = w
      <4>1. at'[v] = i /\ next_event'[v] = 1 /\ local_in'[v] = 0 /\ local_out'[v] = 0
        BY <3>1, <3>2, <3>3
      <4>2. {k \in Inside[i] : k < 1} = {} /\ {k \in Picked[i] : k < 1} = {}
        BY <1>2, <1>5
      <4> QED BY <4>1, <4>2, FS_EmptySet
    <3>4. CASE v # w
      <4>1. /\ at'[v] = at[v] /\ next_event'[v] = next_event[v]
            /\ local_in'[v] = local_in[v] /\ local_out'[v] = local_out[v]
        BY <3>1, <3>2, <3>4
      <4> QED BY <1>6, <4>1 DEF Counts
    <3> QED BY <3>3, <3>4
  <2> QED BY <1>1, <2>1, <2>2
<1> QED BY <1>2, <1>3, <1>4, <1>6 DEF Counts

(* Going through an event counts it when it is in the request, and again   *)
(* when it is visited.                                                     *)
LEMMA VisitCounts ==
  ASSUME ScanInv, Counts, NEW w \in Worker, VisitEvent(w)
  PROVE  Counts'
<1>0. PICK i, n : i = at[w] /\ n = next_event[w]
  OBVIOUS
<1>1. /\ i # 0 /\ i \in DOMAIN AllRecords /\ n \in EventsIn(i) /\ n \in Nat
      /\ next_event' = [next_event EXCEPT ![w] = n + 1]
      /\ local_in' = IF Holds(i, n) THEN [local_in EXCEPT ![w] = @ + 1] ELSE local_in
      /\ local_out' = IF Chosen(i, n) THEN [local_out EXCEPT ![w] = @ + 1] ELSE local_out
      /\ UNCHANGED <<request, tasks, at, events_in, events_yielded>>
  BY <1>0, VisitIs
<1>2. Inside' = Inside /\ Picked' = Picked
  BY <1>1, SameCounted
<1>3. DoneRecords' = DoneRecords
  <2>1. \A j : Done(j)' <=> Done(j)
    BY VisitGoesOn
  <2> QED BY <2>1 DEF DoneRecords
<1>4. /\ next_event \in [Worker -> Nat \ {0}]
      /\ local_in \in [Worker -> Nat] /\ local_out \in [Worker -> Nat]
  BY DEF ScanInv, TypeOK
<1>5. /\ Inside[i] \subseteq Nat /\ Picked[i] \subseteq Nat
      /\ n \in Inside[i] <=> Holds(i, n)
      /\ n \in Picked[i] <=> Chosen(i, n)
  BY <1>1 DEF Inside, Picked, EventsIn
<1>6. ASSUME NEW v \in Worker, at[v] # 0
      PROVE  /\ local_in'[v] = Cardinality({k \in Inside[at[v]] : k < next_event'[v]})
             /\ local_out'[v] = Cardinality({k \in Picked[at[v]] : k < next_event'[v]})
  <2>1. CASE v = w
    <3>1. /\ next_event'[v] = n + 1
          /\ local_in'[v] = IF n \in Inside[i] THEN local_in[w] + 1 ELSE local_in[w]
          /\ local_out'[v] = IF n \in Picked[i] THEN local_out[w] + 1 ELSE local_out[w]
      BY <1>1, <1>4, <1>5, <2>1
    <3>2. /\ local_in[w] = Cardinality({k \in Inside[i] : k < n})
          /\ local_out[w] = Cardinality({k \in Picked[i] : k < n})
      BY <1>0, <1>1 DEF Counts
    <3>3. Cardinality({k \in Inside[i] : k < n + 1}) = local_in'[v]
      BY <1>1, <1>5, <3>1, <3>2, CountOneMore
    <3>4. Cardinality({k \in Picked[i] : k < n + 1}) = local_out'[v]
      BY <1>1, <1>5, <3>1, <3>2, CountOneMore
    <3> QED BY <1>0, <2>1, <3>1, <3>3, <3>4
  <2>2. CASE v # w
    <3>1. /\ next_event'[v] = next_event[v]
          /\ local_in'[v] = local_in[v] /\ local_out'[v] = local_out[v]
      BY <1>1, <1>4, <2>2
    <3> QED BY <1>6, <3>1 DEF Counts
  <2> QED BY <2>1, <2>2
<1> QED BY <1>1, <1>2, <1>3, <1>6 DEF Counts

(* Putting a record behind adds its counts to the shared ones.             *)
LEMMA EndCounts ==
  ASSUME IndexesRight, ScanInv, Counts, NEW w \in Worker, EndRecord(w)
  PROVE  Counts'
<1>0. PICK i, n : i = at[w] /\ n = next_event[w]
  OBVIOUS
<1>1. /\ i # 0 /\ i \in DOMAIN AllRecords /\ Read(i)
      /\ n = Len(RecordOf(i).passes) + 1 /\ Len(RecordOf(i).passes) \in Nat
      /\ at' = [at EXCEPT ![w] = 0] /\ next_event' = [next_event EXCEPT ![w] = 1]
      /\ local_in' = [local_in EXCEPT ![w] = 0] /\ local_out' = [local_out EXCEPT ![w] = 0]
      /\ IF request.kind = "columns" THEN UNCHANGED <<events_in, events_yielded>>
         ELSE events_in' = events_in + local_in[w] /\ events_yielded' = events_yielded + local_out[w]
      /\ UNCHANGED <<request, tasks>>
  BY <1>0, EndIs
<1>2. Inside' = Inside /\ Picked' = Picked
  BY <1>1, SameCounted
<1>3. /\ \A j \in DOMAIN AllRecords : Done(j)' <=> Done(j) \/ j = i
      /\ ~Done(i)
  BY <1>0, EndGoesOn
<1>4. DoneRecords' = DoneRecords \cup {i} /\ i \notin DoneRecords
  BY <1>1, <1>3 DEF DoneRecords
<1>5. DOMAIN AllRecords = 1..Len(AllRecords)
  BY ScanShape
<1>6. ASSUME NEW j \in DoneRecords \cup {i}
      PROVE  Inside[j] \subseteq 1..CountOf(j) /\ Picked[j] \subseteq 1..CountOf(j)
  <2>1. j \in DOMAIN AllRecords /\ Read(j)
    BY <1>1 DEF DoneRecords, Done
  <2>2. EventsIn(j) = 1..CountOf(j)
    BY <1>5, <2>1, ReadCounts DEF Read
  <2> QED BY <2>1, <2>2 DEF Inside, Picked
<1>7. /\ DoneRecords \in SUBSET (1..Len(AllRecords)) /\ i \in 1..Len(AllRecords)
  BY <1>1, <1>5 DEF DoneRecords
<1>8. /\ Cardinality(NumbersOf(DoneRecords \cup {i}, Inside)) =
           Cardinality(NumbersOf(DoneRecords, Inside)) + Cardinality(Inside[i])
      /\ Cardinality(NumbersOf(DoneRecords \cup {i}, Picked)) =
           Cardinality(NumbersOf(DoneRecords, Picked)) + Cardinality(Picked[i])
  BY <1>4, <1>6, <1>7, OneMoreRecord
<1>9. local_in[w] = Cardinality(Inside[i]) /\ local_out[w] = Cardinality(Picked[i])
  <2>1. \A k \in EventsIn(i) : k < n
    BY <1>1 DEF EventsIn
  <2>2. {k \in Inside[i] : k < n} = Inside[i] /\ {k \in Picked[i] : k < n} = Picked[i]
    BY <1>1, <2>1 DEF Inside, Picked
  <2>3. /\ local_in[w] = Cardinality({k \in Inside[i] : k < n})
        /\ local_out[w] = Cardinality({k \in Picked[i] : k < n})
    <3>1. at[w] # 0
      BY <1>0, <1>1
    <3>2. /\ local_in[w] = Cardinality({k \in Inside[at[w]] : k < next_event[w]})
          /\ local_out[w] = Cardinality({k \in Picked[at[w]] : k < next_event[w]})
      BY <3>1 DEF Counts
    <3> QED BY ONLY <1>0, <3>2
  <2> QED BY <2>2, <2>3
<1>10. ASSUME request.kind # "columns"
       PROVE  /\ events_in' = Cardinality(NumbersOf(DoneRecords', Inside))
              /\ events_yielded' = Cardinality(NumbersOf(DoneRecords', Picked))
  BY <1>1, <1>4, <1>8, <1>9, <1>10 DEF Counts
<1>11. ASSUME NEW v \in Worker, at'[v] # 0
       PROVE  /\ at'[v] = at[v] /\ next_event'[v] = next_event[v]
              /\ local_in'[v] = local_in[v] /\ local_out'[v] = local_out[v]
  <2>1. /\ at \in [Worker -> {0} \cup (DOMAIN tasks \ todo)] /\ next_event \in [Worker -> Nat \ {0}]
        /\ local_in \in [Worker -> Nat] /\ local_out \in [Worker -> Nat]
    BY DEF ScanInv, TypeOK
  <2>2. v # w
    BY <1>1, <1>11, <2>1
  <2> QED BY <1>1, <2>1, <2>2
<1>12. ASSUME NEW v \in Worker, at'[v] # 0
       PROVE  /\ local_in'[v] = Cardinality({k \in Inside[at'[v]] : k < next_event'[v]})
              /\ local_out'[v] = Cardinality({k \in Picked[at'[v]] : k < next_event'[v]})
  BY <1>11, <1>12 DEF Counts
<1> QED BY <1>1, <1>2, <1>10, <1>12 DEF Counts

(* So the counts are right at every step.                                  *)
LEMMA CountsHold ==
  ASSUME IndexesRight
  PROVE  Spec => []Counts
<1>1. Init => Counts
  BY InitCounts
<1>2. ASSUME ScanInv, Counts, [Next]_vars PROVE Counts'
  <2>1. CASE UNCHANGED vars \/ Join
    <3>1. UNCHANGED <<request, tasks, todo, at, next_event, local_in, local_out,
                      events_in, events_yielded>>
      BY <2>1 DEF vars, Join
    <3>2. Inside' = Inside /\ Picked' = Picked
      BY <3>1, SameCounted
    <3>3. DoneRecords' = DoneRecords
      BY <3>1 DEF DoneRecords, Done, Read, Begun, PassedOver
    <3> QED BY <1>2, <3>1, <3>2, <3>3 DEF Counts
  <2>2. ASSUME NEW w \in Worker, Take(w) \/ VisitEvent(w) \/ EndRecord(w) PROVE Counts'
    BY <1>2, <2>2, TakeCounts, VisitCounts, EndCounts
  <2> QED BY <1>2, <2>1, <2>2 DEF Next
<1> QED BY <1>1, <1>2, ScanInvHolds, PTL DEF Spec

(* CountersAgree, for every chain, every request and any number of         *)
(* workers: when a scan succeeds, its statistics are how many events were  *)
(* in the request and how many were visited.                               *)
THEOREM ScanStatisticsAgree ==
  ASSUME IndexesRight, TagsReadable
  PROVE  Spec => []CountersAgree
<1>1. ASSUME ScanInv, Counts PROVE CountersAgree
  <2> SUFFICES ASSUME outcome = "ok", request.kind # "columns"
               PROVE  /\ events_in = Cardinality(Counted[request])
                      /\ events_yielded = Len(Chunks)
    BY DEF CountersAgree
  <2>1. ~failed /\ todo = {} /\ \A w \in Worker : at[w] = 0
    BY <1>1 DEF ScanInv, Outcomes
  <2>2. /\ request \in Request /\ tasks = TasksOf(request) /\ Total \in Nat
        /\ DOMAIN AllRecords = 1..Len(AllRecords) /\ DOMAIN tasks \subseteq 1..Len(AllRecords)
    BY <1>1, ScanShape, RecordsInLine DEF ScanInv
  <2>3. \A i \in DOMAIN tasks : Done(i) /\ i # 0
    <3> SUFFICES ASSUME NEW i \in DOMAIN tasks PROVE Done(i) /\ i # 0
      OBVIOUS
    <3>1. i \in Begun /\ i # 0
      BY <1>1, <2>1, ScanShape DEF Begun
    <3>2. ~PassedOver(i) /\ ~Failing(i)
      BY <1>1, <2>1, <3>1 DEF PassedOver, ScanInv, Outcomes
    <3> QED BY <2>1, <3>1, <3>2 DEF Done, Read, Failing
  <2>4. DoneRecords = DOMAIN tasks
    BY <2>2, <2>3 DEF DoneRecords, Done, Read, Begun
  <2>5. \A i \in DOMAIN tasks : EventsIn(i) = 1..CountOf(i)
    BY <2>2, <2>3, ReadCounts DEF Done, Read
  <2>6. Counted[request] \subseteq 0..Total - 1 /\ Wanted[request] \subseteq 0..Total - 1
    BY <2>2 DEF Counted, Wanted
  <2>7. \A g : g \in 0..Total - 1 => g \in Nat /\ g < Total
    BY <2>2
  <2>8. NumbersOf(DoneRecords, Inside) = Counted[request]
    <3>1. ASSUME NEW g \in 0..Total - 1
          PROVE  g \in NumbersOf(DoneRecords, Inside) <=> g \in Counted[request]
      <4>1. g \in Counted[request] <=>
              \E i \in DOMAIN tasks : \E k \in 1..CountOf(i) : g = NumberOf(i, k) /\ Holds(i, k)
        BY <2>2, <2>7, AskedIs
      <4>2. g \in NumbersOf(DoneRecords, Inside) <=>
              \E i \in DOMAIN tasks : \E k \in Inside[i] : g = NumberOf(i, k)
        BY <2>4 DEF NumbersOf
      <4>3. \A i \in DOMAIN tasks : \A k : k \in Inside[i] <=> k \in 1..CountOf(i) /\ Holds(i, k)
        BY <2>2, <2>5 DEF Inside
      <4> QED BY ONLY <4>1, <4>2, <4>3
    <3> QED BY <2>6, <3>1 DEF NumbersOf
  <2>9. NumbersOf(DoneRecords, Picked) = Wanted[request]
    <3>1. ASSUME NEW g \in 0..Total - 1
          PROVE  g \in NumbersOf(DoneRecords, Picked) <=> g \in Wanted[request]
      <4>1. g \in Wanted[request] <=>
              \E i \in DOMAIN tasks : \E k \in 1..CountOf(i) : g = NumberOf(i, k) /\ Chosen(i, k)
        BY <2>2, <2>7, AskedIs
      <4>2. g \in NumbersOf(DoneRecords, Picked) <=>
              \E i \in DOMAIN tasks : \E k \in Picked[i] : g = NumberOf(i, k)
        BY <2>4 DEF NumbersOf
      <4>3. \A i \in DOMAIN tasks : \A k : k \in Picked[i] <=> k \in 1..CountOf(i) /\ Chosen(i, k)
        BY <2>2, <2>5 DEF Picked
      <4> QED BY ONLY <4>1, <4>2, <4>3
    <3> QED BY <2>6, <3>1 DEF NumbersOf
  <2>10. PICK s : s = Chunks
    OBVIOUS
  <2>11. s \in Seq(Nat) /\ Ascends(s) /\ \A g : Has(s, g) <=> Seen(g)
    BY <1>1, <2>10, ChunksAre, Zenon
  <2>12. ToSet(s) = Wanted[request]
    <3>1. \A g : g \in ToSet(s) <=> Seen(g)
      BY <2>11 DEF ToSet, Has
    <3>2. \A g : Seen(g) => g \in Wanted[request]
      BY <1>1, SeenIsWanted
    <3>3. \A g \in Wanted[request] : Seen(g)
      BY <1>1, <2>1, NothingLeft
    <3> QED BY <3>1, <3>2, <3>3
  <2>13. Len(s) = Cardinality(Wanted[request])
    BY <2>11, <2>12, AscendingOnce
  <2> QED BY <1>1, <2>8, <2>9, <2>10, <2>13 DEF Counts
<1> QED BY <1>1, ScanInvHolds, CountsHold, PTL
=============================================================================
