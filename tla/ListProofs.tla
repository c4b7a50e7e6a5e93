----------------------------- MODULE ListProofs -----------------------------
(***************************************************************************)
(* Lemmas about what the modules are built from: numbers by induction,     *)
(* running totals, sequences and the laying of them end to end.            *)
(***************************************************************************)
EXTENDS SequencesExt, FiniteSetTheorems, WellFoundedInduction, TLAPS

(* A set of numbers that is not empty has a least element.                 *)
LEMMA Least ==
  ASSUME NEW T \in SUBSET Nat, T # {}
  PROVE  \E m \in T : \A k \in T : m <= k
<1> DEFINE R == OpToRel(<, Nat)
<1>1. PICK x \in T : \A y \in T : <<y, x>> \notin R
  <2> HIDE DEF R
  <2>1. IsWellFoundedOn(R, Nat)
    BY NatLessThanWellFounded DEF R
  <2> QED BY <2>1, WFMin
<1>2. \A y \in T : ~(y < x)
  BY <1>1 DEF OpToRel
<1> QED BY <1>2

(* Induction: a set that holds 0 and, with n, n + 1, holds every number.   *)
LEMMA Induction ==
  ASSUME NEW S, 0 \in S, \A n \in Nat : n \in S => n + 1 \in S
  PROVE  Nat \subseteq S
<1> DEFINE T == Nat \ S
<1>1. CASE T = {}
  BY <1>1
<1>2. CASE T # {}
  <2>1. PICK m \in T : \A k \in T : m <= k
    BY <1>2, Least
  <2>2. m - 1 \in Nat /\ m - 1 \notin T
    BY <2>1
  <2> QED BY <2>1, <2>2
<1> QED BY <1>1, <1>2
-----------------------------------------------------------------------------
(* f is the running total of the counts c[1], ..., c[n], as the recursive  *)
(* definitions of FirstEvent and file_event_offsets state it.              *)
IsTotal(f, c, n) == f = [i \in 1..n + 1 |-> IF i = 1 THEN 0 ELSE f[i - 1] + c[i - 1]]

(* There is a running total of any counts, so that the function a          *)
(* recursive definition chooses satisfies its equation.                    *)
LEMMA TotalExists ==
  ASSUME NEW n \in Nat, NEW c \in [1..n -> Nat]
  PROVE  \E f : IsTotal(f, c, n)
<1> DEFINE S == {m \in Nat : m <= n => \E f : IsTotal(f, c, m)}
<1>1. 0 \in S
  <2> DEFINE f0 == [i \in 1..1 |-> 0]
  <2>1. f0 = [i \in 1..0 + 1 |-> IF i = 1 THEN 0 ELSE f0[i - 1] + c[i - 1]]
    OBVIOUS
  <2> HIDE DEF f0
  <2> QED BY <2>1 DEF IsTotal
<1>2. ASSUME NEW m \in Nat, m \in S PROVE m + 1 \in S
  <2>1. CASE m + 1 > n
    BY <2>1
  <2>2. CASE m + 1 <= n
    <3>1. PICK f : IsTotal(f, c, m)
      BY <1>2, <2>2
    <3> DEFINE g == [i \in 1..(m + 1) + 1 |-> IF i = m + 2 THEN f[m + 1] + c[m + 1] ELSE f[i]]
    <3>2. g = [i \in 1..(m + 1) + 1 |-> IF i = 1 THEN 0 ELSE g[i - 1] + c[i - 1]]
      <4>1. ASSUME NEW i \in 1..(m + 1) + 1
            PROVE  g[i] = IF i = 1 THEN 0 ELSE g[i - 1] + c[i - 1]
        <5>1. CASE i = m + 2
          BY <5>1
        <5>2. CASE i # m + 2
          <6>1. i \in 1..m + 1
            BY <5>2
          <6>2. f[i] = IF i = 1 THEN 0 ELSE f[i - 1] + c[i - 1]
            BY <3>1, <6>1 DEF IsTotal
          <6>3. i # 1 => g[i - 1] = f[i - 1]
            BY <6>1
          <6> QED BY <5>2, <6>1, <6>2, <6>3
        <5> QED BY <5>1, <5>2
      <4> HIDE DEF g
      <4>2. g = [i \in 1..(m + 1) + 1 |-> g[i]]
        BY DEF g
      <4> QED BY <4>1, <4>2
    <3> HIDE DEF g
    <3> QED BY <3>2 DEF IsTotal
  <2> QED BY <2>1, <2>2
<1> HIDE DEF S
<1>3. Nat \subseteq S
  BY <1>1, <1>2, Induction
<1> QED BY <1>3 DEF S

(* A running total: its range, its ends, its steps, and that it never      *)
(* goes down.                                                              *)
LEMMA TotalSteps ==
  ASSUME NEW n \in Nat, NEW c \in [1..n -> Nat], NEW f, IsTotal(f, c, n)
  PROVE  /\ f \in [1..n + 1 -> Nat]
         /\ f[1] = 0
         /\ \A i \in 1..n : f[i + 1] = f[i] + c[i]
<1>1. f = [i \in 1..n + 1 |-> f[i]]
  BY DEF IsTotal
<1>2. f[1] = 0 /\ \A i \in 1..n : f[i + 1] = f[i] + c[i]
  BY DEF IsTotal
<1> DEFINE S == {m \in Nat : m <= n => f[m + 1] \in Nat}
<1>3. 0 \in S
  BY <1>2
<1>4. ASSUME NEW m \in Nat, m \in S PROVE m + 1 \in S
  <2> SUFFICES ASSUME m + 1 <= n PROVE f[m + 2] \in Nat
    OBVIOUS
  <2>1. f[m + 2] = f[m + 1] + c[m + 1]
    BY <1>2
  <2> QED BY <1>4, <2>1
<1>5. \A i \in 1..n + 1 : f[i] \in Nat
  <2> HIDE DEF S
  <2>1. Nat \subseteq S
    BY <1>3, <1>4, Induction
  <2> TAKE i \in 1..n + 1
  <2>2. i - 1 \in Nat /\ i - 1 <= n /\ (i - 1) + 1 = i
    OBVIOUS
  <2> QED BY <2>1, <2>2 DEF S
<1> QED BY <1>1, <1>2, <1>5

(* A running total never falls.                                            *)
LEMMA TotalMonotone ==
  ASSUME NEW n \in Nat, NEW c \in [1..n -> Nat], NEW f, IsTotal(f, c, n),
         NEW i \in 1..n + 1, NEW j \in 1..n + 1, i <= j
  PROVE  f[i] <= f[j]
<1>1. f \in [1..n + 1 -> Nat] /\ \A k \in 1..n : f[k + 1] = f[k] + c[k]
  BY TotalSteps
<1> DEFINE S == {d \in Nat : i + d <= n + 1 => f[i] <= f[i + d]}
<1>2. 0 \in S
  BY <1>1
<1>3. ASSUME NEW d \in Nat, d \in S PROVE d + 1 \in S
  <2> SUFFICES ASSUME i + (d + 1) <= n + 1 PROVE f[i] <= f[i + (d + 1)]
    OBVIOUS
  <2>1. i + d \in 1..n /\ i + (d + 1) = (i + d) + 1
    OBVIOUS
  <2>2. f[(i + d) + 1] = f[i + d] + c[i + d]
    BY <1>1, <2>1
  <2>3. f[i + d] \in Nat /\ f[i] \in Nat /\ c[i + d] \in Nat /\ f[i] <= f[i + d]
    BY <1>1, <1>3, <2>1
  <2> QED BY <2>1, <2>2, <2>3
<1>4. j - i \in S
  <2> HIDE DEF S
  <2> QED BY <1>2, <1>3, Induction
<1> QED BY <1>4

(* Where a number falls among running totals: the totals not above it are  *)
(* the first k.                                                            *)
LEMMA TotalsUpTo ==
  ASSUME NEW n \in Nat, NEW c \in [1..n -> Nat], NEW f, IsTotal(f, c, n), NEW x \in Nat
  PROVE  \E k \in 1..n + 1 : \A i \in 1..n + 1 : f[i] <= x <=> i <= k
<1> DEFINE T == {i \in 1..n + 1 : f[i] > x}
<1>1. f \in [1..n + 1 -> Nat] /\ f[1] = 0
  BY TotalSteps
<1>2. CASE T = {}
  <2>1. \A i \in 1..n + 1 : f[i] <= x <=> i <= n + 1
    BY <1>1, <1>2
  <2> QED BY <2>1
<1>3. CASE T # {}
  <2>1. T \in SUBSET Nat
    OBVIOUS
  <2>2. PICK m \in T : \A k \in T : m <= k
    <3> HIDE DEF T
    <3> QED BY <1>3, <2>1, Least
  <2>3. m - 1 \in 1..n + 1
    BY <1>1, <2>2
  <2>4. ASSUME NEW i \in 1..n + 1 PROVE f[i] <= x <=> i <= m - 1
    <3>1. CASE i <= m - 1
      <4>1. i \notin T
        BY <2>2, <3>1
      <4> QED BY <1>1, <3>1, <4>1
    <3>2. CASE ~(i <= m - 1)
      <4>1. m \in 1..n + 1 /\ m <= i
        BY <2>2, <3>2
      <4>2. f[m] <= f[i]
        BY <4>1, TotalMonotone
      <4>3. f[m] > x
        BY <2>2
      <4> QED BY <1>1, <3>2, <4>1, <4>2, <4>3
    <3> QED BY <3>1, <3>2
  <2> QED BY <2>3, <2>4
<1> QED BY <1>2, <1>3

(* A number below the last total falls in exactly one of the counts.       *)
LEMMA Within ==
  ASSUME NEW n \in Nat, NEW c \in [1..n -> Nat], NEW f, IsTotal(f, c, n),
         NEW x \in Nat, x < f[n + 1]
  PROVE  \E k \in 1..n : /\ f[k] <= x /\ x < f[k] + c[k]
                         /\ \A i \in 1..n + 1 : f[i] <= x <=> i <= k
<1>1. f \in [1..n + 1 -> Nat] /\ \A i \in 1..n : f[i + 1] = f[i] + c[i]
  BY TotalSteps
<1>2. PICK k \in 1..n + 1 : \A i \in 1..n + 1 : f[i] <= x <=> i <= k
  BY TotalsUpTo
<1>3. n + 1 \in 1..n + 1 /\ f[n + 1] \in Nat
  BY <1>1
<1>4. k \in 1..n
  BY <1>2, <1>3
<1>5. k + 1 \in 1..n + 1 /\ f[k + 1] = f[k] + c[k] /\ f[k] \in Nat /\ c[k] \in Nat
  BY <1>1, <1>4
<1>6. f[k] <= x /\ ~(f[k + 1] <= x)
  BY <1>2, <1>5
<1>7. x < f[k] + c[k]
  BY <1>5, <1>6
<1> QED BY <1>2, <1>4, <1>6, <1>7

-----------------------------------------------------------------------------
(* g[m] is the first m of the sequences one behind the other, as the       *)
(* recursive definition of FlattenSeq states it.                           *)
IsFlat(g, seqs, n) == g = [i \in 1..n |-> IF i = 1 THEN seqs[i] ELSE g[i - 1] \o seqs[i]]

(* There is such a function for any sequences.                             *)
LEMMA FlatExists ==
  ASSUME NEW n \in Nat, NEW seqs
  PROVE  \E g : IsFlat(g, seqs, n)
<1> DEFINE T == {m \in Nat : m <= n => \E g : IsFlat(g, seqs, m)}
<1>1. 0 \in T
  <2> DEFINE g0 == [i \in 1..0 |-> seqs[1]]
  <2>1. g0 = [i \in 1..0 |-> IF i = 1 THEN seqs[i] ELSE g0[i - 1] \o seqs[i]]
    OBVIOUS
  <2> HIDE DEF g0
  <2> QED BY <2>1 DEF IsFlat
<1>2. ASSUME NEW m \in Nat, m \in T PROVE m + 1 \in T
  <2> SUFFICES ASSUME m + 1 <= n PROVE \E g : IsFlat(g, seqs, m + 1)
    OBVIOUS
  <2>1. PICK g : IsFlat(g, seqs, m)
    BY <1>2
  <2> DEFINE last == IF m = 0 THEN seqs[1] ELSE g[m] \o seqs[m + 1]
             h == [i \in 1..m + 1 |-> IF i = m + 1 THEN last ELSE g[i]]
  <2>2. ASSUME NEW i \in 1..m + 1
        PROVE  h[i] = IF i = 1 THEN seqs[i] ELSE h[i - 1] \o seqs[i]
    <3>1. CASE i = m + 1
      <4>1. i # 1 => m \in 1..m + 1 /\ m # m + 1 /\ i - 1 = m
        BY <3>1
      <4> QED BY <3>1, <4>1
    <3>2. CASE i # m + 1
      <4>1. i \in 1..m
        BY <3>2
      <4>2. g[i] = IF i = 1 THEN seqs[i] ELSE g[i - 1] \o seqs[i]
        BY <2>1, <4>1 DEF IsFlat
      <4>3. i # 1 => h[i - 1] = g[i - 1]
        BY <4>1
      <4> QED BY <3>2, <4>1, <4>2, <4>3
    <3> QED BY <3>1, <3>2
  <2>3. h = [i \in 1..m + 1 |-> h[i]]
    OBVIOUS
  <2> HIDE DEF h
  <2>4. IsFlat(h, seqs, m + 1)
    BY <2>2, <2>3 DEF IsFlat
  <2> QED BY <2>4
<1> HIDE DEF T
<1>3. n \in T
  BY <1>1, <1>2, Induction
<1> QED BY <1>3 DEF T

(* The equation of the step from the first m sequences to m + 1.           *)
LEMMA FlatSteps ==
  ASSUME NEW n \in Nat, NEW seqs, NEW g, IsFlat(g, seqs, n)
  PROVE  \A m \in 1..n : m + 1 <= n => g[m + 1] = g[m] \o seqs[m + 1]
<1>1. \A i \in 1..n : g[i] = IF i = 1 THEN seqs[i] ELSE g[i - 1] \o seqs[i]
  BY DEF IsFlat
<1>2. ASSUME NEW m \in 1..n, m + 1 <= n PROVE g[m + 1] = g[m] \o seqs[m + 1]
  <2>1. m + 1 \in 1..n /\ m + 1 # 1 /\ (m + 1) - 1 = m
    BY <1>2
  <2> QED BY <1>1, <2>1
<1> QED BY <1>2

(* The elements of two sequences one behind the other.                     *)
LEMMA Concat ==
  ASSUME NEW S, NEW s \in Seq(S), NEW t \in Seq(S)
  PROVE  /\ s \o t \in Seq(S)
         /\ Len(s \o t) = Len(s) + Len(t)
         /\ \A i \in 1..Len(s) : (s \o t)[i] = s[i]
         /\ \A j \in 1..Len(t) : (s \o t)[Len(s) + j] = t[j]
OBVIOUS

(* A sequence is a function on 1..n, and a function on 1..n a sequence.    *)
LEMMA SeqIsFunction ==
  ASSUME NEW S, NEW s \in Seq(S)
  PROVE  Len(s) \in Nat /\ DOMAIN s = 1..Len(s) /\ \A i \in 1..Len(s) : s[i] \in S
OBVIOUS

(* The other way round.                                                    *)
LEMMA FunctionIsSeq ==
  ASSUME NEW S, NEW n \in Nat, NEW s \in [1..n -> S]
  PROVE  s \in Seq(S) /\ Len(s) = n
OBVIOUS

(* s is the first m sequences of seqs one behind the other: f tells where  *)
(* each begins.                                                            *)
Places(s, seqs, f, m, S) ==
  /\ s \in Seq(S)
  /\ Len(s) = f[m + 1]
  /\ \A i \in 1..m : \A j \in 1..Len(seqs[i]) : s[f[i] + j] = seqs[i][j]

(* One more sequence behind the first m keeps the places.                  *)
LEMMA PlacesOneMore ==
  ASSUME NEW S, NEW n \in Nat, NEW seqs \in [1..n -> Seq(S)],
         NEW c, c = [i \in 1..n |-> Len(seqs[i])], NEW f, IsTotal(f, c, n),
         NEW m \in 1..n, m + 1 <= n, NEW s, Places(s, seqs, f, m, S)
  PROVE  Places(s \o seqs[m + 1], seqs, f, m + 1, S)
<1>1. c \in [1..n -> Nat] /\ \A i \in 1..n : c[i] = Len(seqs[i])
  OBVIOUS
<1>2. f \in [1..n + 1 -> Nat] /\ \A i \in 1..n : f[i + 1] = f[i] + c[i]
  BY <1>1, TotalSteps
<1>3. m + 1 \in 1..n /\ (m + 1) + 1 \in 1..n + 1
  OBVIOUS
<1> DEFINE t == seqs[m + 1]
<1>4. s \in Seq(S) /\ t \in Seq(S) /\ Len(s) = f[m + 1]
  BY <1>3 DEF Places
<1>5. Len(t) = c[m + 1] /\ f[(m + 1) + 1] = f[m + 1] + c[m + 1]
  BY <1>1, <1>2, <1>3
<1> HIDE DEF t
<1>6. /\ s \o t \in Seq(S)
      /\ Len(s \o t) = Len(s) + Len(t)
      /\ \A i \in 1..Len(s) : (s \o t)[i] = s[i]
      /\ \A j \in 1..Len(t) : (s \o t)[Len(s) + j] = t[j]
  <2>1. ASSUME NEW x \in Seq(S), NEW y \in Seq(S)
        PROVE  /\ x \o y \in Seq(S)
               /\ Len(x \o y) = Len(x) + Len(y)
               /\ \A i \in 1..Len(x) : (x \o y)[i] = x[i]
               /\ \A j \in 1..Len(y) : (x \o y)[Len(x) + j] = y[j]
    BY ONLY Concat, <2>1
  <2> QED BY <1>4, <2>1
<1>7. ASSUME NEW i \in 1..m + 1, NEW j \in 1..Len(seqs[i])
      PROVE  (s \o t)[f[i] + j] = seqs[i][j]
  <2>1. CASE i = m + 1
    <3>1. j \in 1..Len(t) /\ f[i] = Len(s) /\ seqs[i] = t
      BY <1>4, <2>1 DEF t
    <3> QED BY <1>6, <3>1
  <2>2. CASE i # m + 1
    <3>1. i \in 1..m
      BY <2>2
    <3>2. s[f[i] + j] = seqs[i][j]
      BY <3>1 DEF Places
    <3>3. f[i + 1] <= f[m + 1]
      <4>1. i + 1 \in 1..n + 1 /\ m + 1 \in 1..n + 1 /\ i + 1 <= m + 1
        BY <3>1
      <4> QED BY <1>1, <4>1, TotalMonotone
    <3>4. i \in 1..n /\ i \in 1..n + 1 /\ m + 1 \in 1..n + 1
      BY <3>1
    <3>5. f[i + 1] = f[i] + c[i] /\ f[i] \in Nat /\ c[i] \in Nat /\ f[m + 1] \in Nat
      BY <1>1, <1>2, <3>4
    <3>6. j \in Nat /\ 1 <= j /\ j <= c[i]
      BY <1>1, <3>4
    <3>7. f[i] + j \in 1..f[m + 1]
      BY ONLY <3>3, <3>5, <3>6
    <3> QED BY <1>4, <1>6, <3>2, <3>7
  <2> QED BY <2>1, <2>2
<1>8. Len(s \o t) = f[(m + 1) + 1]
  BY <1>4, <1>5, <1>6
<1> QED BY <1>6, <1>7, <1>8 DEF Places, t

(* What FlattenSeq makes of n sequences: element j of sequence i is behind *)
(* the elements of the sequences before it.                                *)
LEMMA Flattened ==
  ASSUME NEW S, NEW n \in Nat, NEW seqs \in [1..n -> Seq(S)],
         NEW c, c = [i \in 1..n |-> Len(seqs[i])], NEW f, IsTotal(f, c, n)
  PROVE  Places(FlattenSeq(seqs), seqs, f, n, S)
<1>1. c \in [1..n -> Nat] /\ \A i \in 1..n : c[i] = Len(seqs[i])
  OBVIOUS
<1>2. f \in [1..n + 1 -> Nat] /\ f[1] = 0 /\ \A i \in 1..n : f[i + 1] = f[i] + c[i]
  BY <1>1, TotalSteps
<1>3. Len(seqs) = n
  OBVIOUS
<1>4. CASE n = 0
  <2>1. FlattenSeq(seqs) = seqs
    BY <1>3, <1>4 DEF FlattenSeq
  <2>2. seqs \in Seq(S)
    BY <1>4
  <2>3. 1..n = {}
    BY <1>4
  <2> QED BY <1>2, <1>3, <1>4, <2>1, <2>2, <2>3 DEF Places
<1>5. CASE n # 0
  <2> DEFINE flatten == CHOOSE g : IsFlat(g, seqs, n)
  <2>1. IsFlat(flatten, seqs, n)
    BY FlatExists
  <2>2. FlattenSeq(seqs) = flatten[n]
    BY <1>3, <1>5 DEF FlattenSeq, IsFlat
  <2> HIDE DEF flatten
  <2> DEFINE U == {m \in Nat : m + 1 <= n => Places(flatten[m + 1], seqs, f, m + 1, S)}
  <2>3. 0 \in U
    <3>1. flatten[1] = seqs[1] /\ seqs[1] \in Seq(S)
      <4>1. n \in Nat /\ n # 0 /\ 1 \in 1..n
        BY <1>5
      <4>2. flatten[1] = seqs[1]
        <5>1. \A i \in 1..n : flatten[i] = IF i = 1 THEN seqs[i] ELSE flatten[i - 1] \o seqs[i]
          BY <2>1 DEF IsFlat
        <5> QED BY <4>1, <5>1
      <4> QED BY <4>1, <4>2
    <3>2. f[2] = Len(seqs[1]) /\ f[1] = 0
      BY <1>1, <1>2, <1>5
    <3>3. ASSUME NEW i \in 1..1, NEW j \in 1..Len(seqs[i]) PROVE seqs[1][f[i] + j] = seqs[i][j]
      <4>1. i = 1 /\ 0 + j = j
        OBVIOUS
      <4> QED BY <3>2, <4>1
    <3>4. Places(seqs[1], seqs, f, 1, S)
      BY <3>1, <3>2, <3>3 DEF Places
    <3> QED BY <3>1, <3>4
  <2>4. ASSUME NEW m \in Nat, m \in U PROVE m + 1 \in U
    <3> SUFFICES ASSUME (m + 1) + 1 <= n
                 PROVE  Places(flatten[(m + 1) + 1], seqs, f, (m + 1) + 1, S)
      OBVIOUS
    <3>1. m + 1 \in 1..n
      OBVIOUS
    <3>2. flatten[(m + 1) + 1] = flatten[m + 1] \o seqs[(m + 1) + 1]
      BY <2>1, <3>1, FlatSteps
    <3>3. Places(flatten[m + 1], seqs, f, m + 1, S)
      BY <2>4
    <3>4. Places(flatten[m + 1] \o seqs[(m + 1) + 1], seqs, f, (m + 1) + 1, S)
      BY <3>1, <3>3, PlacesOneMore
    <3> QED BY <3>2, <3>4
  <2>5. n - 1 \in U
    <3> HIDE DEF U
    <3>1. Nat \subseteq U
      BY <2>3, <2>4, Induction
    <3>2. n - 1 \in Nat
      BY <1>5
    <3> QED BY <3>1, <3>2
  <2>6. (n - 1) + 1 = n
    OBVIOUS
  <2> QED BY <2>2, <2>5, <2>6
<1> QED BY <1>4, <1>5

-----------------------------------------------------------------------------
(***************************************************************************)
(* Sets of numbers listed in their order, and sets of one member at most.  *)
(***************************************************************************)
(* Two sequences with the same members in the same places are one.         *)
LEMMA SameSeq ==
  ASSUME NEW S, NEW s \in Seq(S), NEW t \in Seq(S), Len(s) = Len(t),
         \A i \in 1..Len(s) : s[i] = t[i]
  PROVE  s = t
OBVIOUS

(* One listing in order of a set of numbers.                               *)
Lists(s, n, S) ==
  /\ s \in [1..n -> S]
  /\ \A i, j \in 1..n : i < j => s[i] < s[j]
  /\ \A x \in S : \E i \in 1..n : s[i] = x

(* A set of numbers has one listing in order.                              *)
LEMMA ListsReach ==
  ASSUME NEW S \in SUBSET Nat, NEW n \in Nat, NEW m \in Nat,
         NEW s, NEW u, Lists(s, n, S), Lists(u, m, S)
  PROVE  \A i \in 1..n : i <= m /\ s[i] = u[i]
<1> DEFINE T == {i \in 1..n : ~(i <= m /\ s[i] = u[i])}
<1>1. /\ s \in [1..n -> Nat] /\ u \in [1..m -> Nat]
      /\ \A i, j \in 1..n : i < j => s[i] < s[j]
      /\ \A i, j \in 1..m : i < j => u[i] < u[j]
      /\ \A i \in 1..n : \E k \in 1..m : u[k] = s[i]
      /\ \A i \in 1..m : \E k \in 1..n : s[k] = u[i]
  BY DEF Lists
<1>2. CASE T # {}
  <2>1. T \in SUBSET Nat
    OBVIOUS
  <2> HIDE DEF T
  <2>2. PICK i \in T : \A k \in T : i <= k
    BY <1>2, <2>1, Least
  <2>3. i \in 1..n /\ ~(i <= m /\ s[i] = u[i]) /\ i \in Nat /\ s[i] \in Nat
    BY <1>1, <2>2 DEF T
  <2>4. \A j \in 1..n : j < i => j <= m /\ s[j] = u[j]
    BY <2>2, <2>3 DEF T
  <2>5. PICK k \in 1..m : u[k] = s[i]
    BY <1>1, <2>3
  <2>6. ~(k < i)
    <3>1. ASSUME k < i PROVE FALSE
      <4>1. k \in 1..n /\ s[k] = u[k] /\ s[k] < s[i]
        BY <1>1, <2>3, <2>4, <3>1
      <4> QED BY <2>3, <2>5, <4>1
    <3> QED BY <3>1
  <2>7. i <= k /\ i \in 1..m
    BY <2>3, <2>6
  <2>8. PICK l \in 1..n : s[l] = u[i]
    BY <1>1, <2>7
  <2>9. u[i] \in Nat /\ u[k] \in Nat
    BY <1>1, <2>7
  <2>10. ~(l < i)
    <3>1. ASSUME l < i PROVE FALSE
      <4>1. s[l] = u[l] /\ l \in 1..m
        BY <2>4, <3>1
      <4>2. u[l] < u[i]
        BY <1>1, <2>7, <3>1, <4>1
      <4> QED BY <2>8, <2>9, <4>1, <4>2
    <3> QED BY <3>1
  <2>11. s[i] <= s[l] /\ u[i] <= u[k]
    <3>1. i = l \/ i < l
      BY <2>3, <2>10
    <3>2. i = k \/ i < k
      BY <2>3, <2>7
    <3>3. i < l => s[i] < s[l]
      BY <1>1, <2>3
    <3>4. i < k => u[i] < u[k]
      BY <1>1, <2>7
    <3> QED BY <2>3, <2>5, <2>8, <2>9, <3>1, <3>2, <3>3, <3>4
  <2>12. s[i] = u[i]
    BY <2>3, <2>5, <2>8, <2>9, <2>11
  <2> QED BY <2>3, <2>7, <2>12
<1> QED BY <1>2

LEMMA ListsSame ==
  ASSUME NEW S \in SUBSET Nat, NEW n \in Nat, NEW m \in Nat,
         NEW s, NEW u, Lists(s, n, S), Lists(u, m, S)
  PROVE  n = m /\ s = u
<1>1. \A i \in 1..n : i <= m /\ s[i] = u[i]
  BY ListsReach
<1>2. \A i \in 1..m : i <= n
  BY ListsReach
<1>3. n = m
  BY <1>1, <1>2
<1>4. s = [i \in 1..n |-> s[i]] /\ u = [i \in 1..m |-> u[i]]
  BY DEF Lists
<1> QED BY <1>1, <1>3, <1>4

OneAtMost(S) == \A x, y \in S : x = y

(* A set of numbers that are all one number.                               *)
LEMMA AtMostOne ==
  ASSUME NEW S, OneAtMost(S)
  PROVE  Cardinality(S) <= 1
<1>1. CASE S = {}
  BY <1>1, FS_EmptySet
<1>2. CASE S # {}
  <2>1. PICK x : x \in S
    BY <1>2
  <2>2. S = {x}
    BY <2>1 DEF OneAtMost
  <2> QED BY <2>2, FS_Singleton
<1> QED BY <1>1, <1>2

(***************************************************************************)
(* FlattenSeq, and offsets that grow.                                      *)
(***************************************************************************)

(* Two such functions agree as far as both go.                             *)
LEMMA FlatAgree ==
  ASSUME NEW n \in Nat, NEW m \in Nat, n <= m, NEW seqs, NEW more, NEW g, NEW h,
         IsFlat(g, seqs, n), IsFlat(h, more, m), \A i \in 1..n : more[i] = seqs[i]
  PROVE  \A i \in 1..n : h[i] = g[i]
<1> DEFINE T == {k \in Nat : k + 1 <= n => h[k + 1] = g[k + 1]}
<1>1. 0 \in T
  <2> SUFFICES ASSUME 1 <= n PROVE h[1] = g[1]
    OBVIOUS
  <2>1. 1 \in 1..n /\ 1 \in 1..m
    OBVIOUS
  <2>2. g[1] = seqs[1] /\ h[1] = more[1]
    BY <2>1 DEF IsFlat
  <2> QED BY <2>1, <2>2
<1>2. ASSUME NEW k \in Nat, k \in T PROVE k + 1 \in T
  <2> SUFFICES ASSUME (k + 1) + 1 <= n PROVE h[(k + 1) + 1] = g[(k + 1) + 1]
    OBVIOUS
  <2>1. k + 1 \in 1..n /\ k + 1 \in 1..m /\ (k + 1) + 1 <= m /\ (k + 1) + 1 \in 1..n
    OBVIOUS
  <2>2. g[(k + 1) + 1] = g[k + 1] \o seqs[(k + 1) + 1]
    BY <2>1, FlatSteps
  <2>3. h[(k + 1) + 1] = h[k + 1] \o more[(k + 1) + 1]
    BY <2>1, FlatSteps
  <2>4. h[k + 1] = g[k + 1]
    BY <1>2, <2>1
  <2> QED BY <2>1, <2>2, <2>3, <2>4
<1>3. Nat \subseteq T
  <2> HIDE DEF T
  <2> QED BY <1>1, <1>2, Induction
<1> QED
  <2> TAKE i \in 1..n
  <2>1. i - 1 \in Nat /\ (i - 1) + 1 = i
    OBVIOUS
  <2> QED BY <1>3, <2>1

(* FlattenSeq is the last value of such a function.                        *)
LEMMA FlattenIs ==
  ASSUME NEW S, NEW n \in Nat, n # 0, NEW seqs \in [1..n -> S]
  PROVE  \E g : IsFlat(g, seqs, n) /\ FlattenSeq(seqs) = g[n]
<1>1. Len(seqs) = n
  OBVIOUS
<1> DEFINE flatten == CHOOSE g : IsFlat(g, seqs, n)
<1>2. IsFlat(flatten, seqs, n)
  BY FlatExists
<1>3. FlattenSeq(seqs) = flatten[n]
  BY <1>1 DEF FlattenSeq, IsFlat
<1> QED BY <1>2, <1>3

(* One sequence more is appended.                                          *)
LEMMA FlattenMore ==
  ASSUME NEW S, NEW n \in Nat, NEW seqs \in [1..n -> Seq(S)], NEW more \in [1..n + 1 -> Seq(S)],
         \A i \in 1..n : more[i] = seqs[i]
  PROVE  FlattenSeq(more) = FlattenSeq(seqs) \o more[n + 1]
<1>0. n + 1 \in Nat /\ n + 1 # 0
  OBVIOUS
<1>1. PICK h : IsFlat(h, more, n + 1) /\ FlattenSeq(more) = h[n + 1]
  BY <1>0, FlattenIs
<1>2. CASE n = 0
  <2>1. Len(seqs) = 0 /\ seqs = << >>
    BY <1>2
  <2>2. FlattenSeq(seqs) = << >>
    BY <2>1 DEF FlattenSeq
  <2>3. h[1] = more[1]
    BY <1>1, <1>2 DEF IsFlat
  <2>4. more[1] \in Seq(S)
    BY <1>2
  <2>5. << >> \o more[1] = more[1]
    BY <2>4
  <2> QED BY <1>1, <1>2, <2>2, <2>3, <2>5
<1>3. CASE n # 0
  <2>1. PICK g : IsFlat(g, seqs, n) /\ FlattenSeq(seqs) = g[n]
    BY <1>3, FlattenIs
  <2>2. n \in 1..n /\ n \in 1..n + 1 /\ n <= n + 1 /\ n + 1 \in Nat /\ n + 1 <= n + 1
    BY <1>3
  <2>3. h[n] = g[n]
    <3>1. \A i \in 1..n : h[i] = g[i]
      BY <1>0, <1>1, <2>1, <2>2, FlatAgree
    <3> QED BY <2>2, <3>1
  <2>4. h[n + 1] = h[n] \o more[n + 1]
    BY <1>1, <2>2, FlatSteps
  <2> QED BY <1>1, <2>1, <2>3, <2>4
<1> QED BY <1>2, <1>3

(* It makes a sequence.                                                    *)
LEMMA FlattenType ==
  ASSUME NEW S, NEW n \in Nat, NEW seqs \in [1..n -> Seq(S)]
  PROVE  FlattenSeq(seqs) \in Seq(S)
<1> DEFINE c == [i \in 1..n |-> Len(seqs[i])]
<1>1. c \in [1..n -> Nat]
  OBVIOUS
<1>2. PICK f : IsTotal(f, c, n)
  <2> HIDE DEF c
  <2> QED BY <1>1, TotalExists
<1>3. Places(FlattenSeq(seqs), seqs, f, n, S)
  <2>1. \E x : x = c
    OBVIOUS
  <2> HIDE DEF c
  <2>2. c = [i \in 1..n |-> Len(seqs[i])]
    BY DEF c
  <2> QED BY <1>2, <2>2, Flattened
<1> QED BY <1>3 DEF Places

(* A sequence of offsets that grows at each step grows.                    *)
LEMMA Growing ==
  ASSUME NEW N \in Nat, NEW P \in [0..N -> Nat], \A k \in 0..N - 1 : P[k] < P[k + 1]
  PROVE  \A j, k \in 0..N : j < k => P[j] < P[k]
<1> SUFFICES ASSUME NEW j \in 0..N PROVE \A k \in 0..N : j < k => P[j] < P[k]
  OBVIOUS
<1> DEFINE S == {m \in Nat : m <= N /\ j < m => P[j] < P[m]}
<1>1. 0 \in S
  OBVIOUS
<1>2. ASSUME NEW m \in Nat, m \in S PROVE m + 1 \in S
  <2> SUFFICES ASSUME m + 1 <= N, j < m + 1 PROVE P[j] < P[m + 1]
    OBVIOUS
  <2>1. m \in 0..N - 1 /\ m \in 0..N /\ m + 1 \in 0..N /\ (j = m \/ j < m)
    OBVIOUS
  <2>2. P[m] < P[m + 1] /\ P[m] \in Nat /\ P[m + 1] \in Nat /\ P[j] \in Nat
    BY <2>1
  <2> QED BY <1>2, <2>1, <2>2
<1>3. Nat \subseteq S
  <2> HIDE DEF S
  <2> QED BY <1>1, <1>2, Induction
<1> QED BY <1>3

(* Every offset between the first and the last lies in one of the steps.   *)
LEMMA Between ==
  ASSUME NEW N \in Nat, NEW P \in [0..N -> Nat], NEW p \in Nat, P[0] <= p, p < P[N]
  PROVE  \E k \in 0..N - 1 : P[k] <= p /\ p < P[k + 1]
<1> DEFINE S == {k \in 0..N : p < P[k]}
<1>1. N \in S /\ S \in SUBSET Nat
  OBVIOUS
<1>2. PICK m \in S : \A k \in S : m <= k
  <2> HIDE DEF S
  <2> QED BY <1>1, Least
<1>3. m \in 0..N /\ p < P[m] /\ m # 0
  BY <1>2
<1>4. m - 1 \in 0..N - 1 /\ (m - 1) + 1 = m /\ m - 1 \in 0..N /\ m - 1 \notin S
  BY <1>2, <1>3
<1>5. P[m - 1] <= p
  BY <1>4
<1> QED BY <1>3, <1>4, <1>5

(* A prefix stays one of a longer sequence.                                *)
LEMMA PrefixGrows ==
  ASSUME NEW S, NEW x \in Seq(S), NEW y \in Seq(S), NEW z \in Seq(S), IsPrefix(x, y)
  PROVE  IsPrefix(x, y \o z)
<1>1. Len(x) <= Len(y) /\ SubSeq(x, 1, Len(x)) = SubSeq(y, 1, Len(x)) /\ Len(x) \in Nat /\ Len(y) \in Nat
  BY DEF IsPrefix
<1>2. PICK u : u = y \o z
  OBVIOUS
<1>3. u \in Seq(S) /\ Len(u) = Len(y) + Len(z) /\ (\A i \in 1..Len(y) : u[i] = y[i]) /\ Len(z) \in Nat
  BY <1>2, Concat
<1>4. SubSeq(u, 1, Len(x)) = SubSeq(y, 1, Len(x))
  <2>1. SubSeq(u, 1, Len(x)) \in Seq(S) /\ SubSeq(y, 1, Len(x)) \in Seq(S)
    BY <1>1, <1>3
  <2>2. Len(SubSeq(u, 1, Len(x))) = Len(x) /\ Len(SubSeq(y, 1, Len(x))) = Len(x)
    BY <1>1, <1>3
  <2>3. \A i \in 1..Len(x) : SubSeq(u, 1, Len(x))[i] = u[i] /\ SubSeq(y, 1, Len(x))[i] = y[i] /\ u[i] = y[i]
    BY <1>1, <1>3
  <2> QED BY <1>1, <2>1, <2>2, <2>3, SameSeq
<1>5. IsPrefix(x, u)
  BY <1>1, <1>3, <1>4 DEF IsPrefix
<1> QED BY <1>2, <1>5
-----------------------------------------------------------------------------
(* s lists the numbers of S in order.                                      *)
Orders(s, S) ==
  /\ s \in [1..Cardinality(S) -> S]
  /\ \A i, j \in DOMAIN s : i < j => s[i] < s[j]

(* Any finite set of numbers can be put in order.                          *)
LEMMA OrderExists ==
  ASSUME NEW S \in SUBSET Nat, IsFiniteSet(S)
  PROVE  \E s : Orders(s, S)
<1> DEFINE N == {n \in Nat : \A T \in SUBSET Nat :
                   IsFiniteSet(T) /\ Cardinality(T) = n => \E s : Orders(s, T)}
<1>1. 0 \in N
  <2> SUFFICES ASSUME NEW T \in SUBSET Nat, IsFiniteSet(T), Cardinality(T) = 0
               PROVE  \E s : Orders(s, T)
    OBVIOUS
  <2> DEFINE s == [i \in 1..0 |-> CHOOSE r \in T : TRUE]
  <2>1. s \in [1..0 -> T] /\ DOMAIN s = {}
    OBVIOUS
  <2> HIDE DEF s
  <2>2. Orders(s, T)
    BY <2>1 DEF Orders
  <2> QED BY <2>2
<1>2. ASSUME NEW n \in Nat, n \in N PROVE n + 1 \in N
  <2> SUFFICES ASSUME NEW T \in SUBSET Nat, IsFiniteSet(T), Cardinality(T) = n + 1
               PROVE  \E s : Orders(s, T)
    OBVIOUS
  <2>1. T # {}
    BY FS_EmptySet
  <2>2. PICK m \in T : \A r \in T : m <= r
    BY <2>1, Least
  <2> DEFINE U == T \ {m}
  <2>3. IsFiniteSet(U) /\ Cardinality(U) = n /\ U \in SUBSET Nat
    <3>1. IsFiniteSet(U) /\ Cardinality(U) = Cardinality(T) - 1
      BY FS_RemoveElement
    <3> QED BY <3>1
  <2>4. PICK u : Orders(u, U)
    BY <1>2, <2>3
  <2> DEFINE s == [i \in 1..n + 1 |-> IF i = 1 THEN m ELSE u[i - 1]]
  <2>5. u \in [1..n -> U] /\ \A i, j \in 1..n : i < j => u[i] < u[j]
    BY <2>3, <2>4 DEF Orders
  <2>6. \A i \in 1..n + 1 : s[i] = IF i = 1 THEN m ELSE u[i - 1]
    OBVIOUS
  <2>7. \A i \in 1..n + 1 : i # 1 => i - 1 \in 1..n /\ u[i - 1] \in U
    BY <2>5
  <2>8. s \in [1..n + 1 -> T] /\ DOMAIN s = 1..n + 1
    BY <2>6, <2>7
  <2> HIDE DEF s
  <2>9. ASSUME NEW i \in 1..n + 1, NEW j \in 1..n + 1, i < j
        PROVE  s[i] < s[j]
    <3>1. j # 1 /\ j - 1 \in 1..n /\ s[j] = u[j - 1] /\ s[j] \in U
      BY <2>6, <2>7, <2>9
    <3>2. CASE i = 1
      <4>1. m <= s[j] /\ m # s[j] /\ m \in Nat /\ s[j] \in Nat
        BY <2>2, <3>1
      <4> QED BY <2>6, <3>2, <4>1
    <3>3. CASE i # 1
      <4>1. i - 1 \in 1..n /\ s[i] = u[i - 1] /\ i - 1 < j - 1
        BY <2>6, <2>7, <2>9, <3>3
      <4> QED BY <2>5, <3>1, <4>1
    <3> QED BY <3>2, <3>3
  <2>10. Orders(s, T)
    BY <2>8, <2>9 DEF Orders
  <2> QED BY <2>10
<1>3. Cardinality(S) \in Nat
  BY FS_CardinalityType
<1> HIDE DEF N
<1>4. Cardinality(S) \in N
  BY <1>1, <1>2, <1>3, Induction
<1> QED BY <1>4 DEF N

(* A listing in order has each number of the set once.                     *)
LEMMA OrderIs ==
  ASSUME NEW S \in SUBSET Nat, IsFiniteSet(S), NEW s, Orders(s, S)
  PROVE  /\ Cardinality(S) \in Nat
         /\ s \in [1..Cardinality(S) -> S] /\ DOMAIN s = 1..Cardinality(S) /\ Len(s) = Cardinality(S)
         /\ \A i, j \in 1..Cardinality(S) : i < j => s[i] < s[j]
         /\ \A r \in S : \E i \in 1..Cardinality(S) : s[i] = r
<1> DEFINE n == Cardinality(S)
<1>1. n \in Nat
  BY FS_CardinalityType
<1>3. s \in [1..n -> S] /\ \A i, j \in DOMAIN s : i < j => s[i] < s[j]
  BY DEF Orders
<1> HIDE DEF n
<1>4. s \in Injection(1..n, S)
  <2>1. ASSUME NEW i \in 1..n, NEW j \in 1..n, s[i] = s[j] PROVE i = j
    <3>1. s[i] \in Nat /\ s[j] \in Nat
      BY <1>3
    <3>2. ~(i < j) /\ ~(j < i)
      BY <1>3, <2>1, <3>1
    <3> QED BY <1>1, <3>2
  <2> QED BY <1>3, <2>1 DEF Injection, IsInjective
<1>5. Cardinality(1..n) = n /\ IsFiniteSet(1..n)
  BY <1>1, FS_Interval
<1>6. s \in Surjection(1..n, S)
  BY <1>4, <1>5, FS_Injection DEF n
<1>7. \A r \in S : \E i \in 1..n : s[i] = r
  BY <1>6 DEF Surjection
<1>8. Len(s) = n
  BY <1>1, <1>3, FunctionIsSeq
<1> QED BY <1>1, <1>3, <1>7, <1>8 DEF n

(***************************************************************************)
(* Some of a sequence, and sequences one behind the other that go the same *)
(* way up to a place.                                                      *)
(***************************************************************************)
Subsequence(s, I) == FlattenSeq([i \in DOMAIN s |-> IF i \in I THEN <<s[i]>> ELSE << >>])

(* The elements at the places in I: all of them when all are in I.         *)
LEMMA SubsequenceAll ==
  ASSUME NEW S, NEW s \in Seq(S), NEW I, DOMAIN s \subseteq I
  PROVE  Subsequence(s, I) = s
<1> DEFINE one(k) == [i \in 1..k |-> <<s[i]>>]
           T == {k \in Nat : k <= Len(s) => FlattenSeq(one(k)) = SubSeq(s, 1, k)}
<1>1. Len(s) \in Nat /\ DOMAIN s = 1..Len(s)
  OBVIOUS
<1>2. ASSUME NEW k \in Nat, k <= Len(s) PROVE one(k) \in [1..k -> Seq(S)]
  BY <1>1, <1>2
<1>3. 0 \in T
  <2>1. one(0) = << >> /\ Len(one(0)) = 0
    OBVIOUS
  <2>2. SubSeq(s, 1, 0) = << >>
    OBVIOUS
  <2> HIDE DEF one
  <2>3. FlattenSeq(one(0)) = << >>
    BY <2>1 DEF FlattenSeq
  <2> QED BY <2>2, <2>3
<1>4. ASSUME NEW k \in Nat, k \in T PROVE k + 1 \in T
  <2> HIDE DEF one
  <2> SUFFICES ASSUME k + 1 <= Len(s) PROVE FlattenSeq(one(k + 1)) = SubSeq(s, 1, k + 1)
    OBVIOUS
  <2>1. k <= Len(s) /\ k + 1 \in 1..Len(s)
    BY <1>1
  <2>2. one(k) \in [1..k -> Seq(S)] /\ one(k + 1) \in [1..k + 1 -> Seq(S)]
    BY <1>2, <2>1
  <2>3. /\ \A i \in 1..k : one(k + 1)[i] = one(k)[i]
        /\ one(k + 1)[k + 1] = <<s[k + 1]>>
    BY DEF one
  <2>4. FlattenSeq(one(k)) = SubSeq(s, 1, k)
    BY <1>4, <2>1
  <2>5. FlattenSeq(one(k + 1)) = FlattenSeq(one(k)) \o one(k + 1)[k + 1]
    BY <2>2, <2>3, FlattenMore
  <2>6. SubSeq(s, 1, k + 1) = SubSeq(s, 1, k) \o <<s[k + 1]>>
    BY <1>1, <2>1
  <2> QED BY <2>3, <2>4, <2>5, <2>6
<1>5. Len(s) \in T
  <2> HIDE DEF T
  <2> QED BY <1>1, <1>3, <1>4, Induction
<1>6. SubSeq(s, 1, Len(s)) = s
  BY <1>1
<1>7. Subsequence(s, I) = FlattenSeq(one(Len(s)))
  <2>1. [i \in DOMAIN s |-> IF i \in I THEN <<s[i]>> ELSE << >>] = one(Len(s))
    BY <1>1
  <2> HIDE DEF one
  <2> QED BY <2>1 DEF Subsequence
<1> QED BY <1>1, <1>5, <1>6, <1>7

(* There are no more of them than there are.                               *)
LEMMA SubsequenceSome ==
  ASSUME NEW S, NEW s \in Seq(S), NEW I
  PROVE  Subsequence(s, I) \in Seq(S) /\ Len(Subsequence(s, I)) <= Len(s)
<1> DEFINE n == Len(s)
           seqs == [i \in 1..n |-> IF i \in I THEN <<s[i]>> ELSE << >>]
           c == [i \in 1..n |-> Len(seqs[i])]
<1>1. n \in Nat /\ DOMAIN s = 1..n
  OBVIOUS
<1>2. ASSUME NEW i \in 1..n PROVE seqs[i] \in Seq(S) /\ Len(seqs[i]) <= 1
  <2>1. s[i] \in S
    OBVIOUS
  <2>2. <<s[i]>> \in Seq(S) /\ Len(<<s[i]>>) = 1
    BY <2>1
  <2>3. << >> \in Seq(S) /\ Len(<< >>) = 0
    OBVIOUS
  <2>4. seqs[i] = <<s[i]>> \/ seqs[i] = << >>
    OBVIOUS
  <2> QED BY <2>2, <2>3, <2>4
<1>3. seqs \in [1..n -> Seq(S)] /\ Subsequence(s, I) = FlattenSeq(seqs)
  BY <1>1, <1>2 DEF Subsequence
<1> HIDE DEF seqs
<1>4. c \in [1..n -> Nat] /\ \A i \in 1..n : c[i] <= 1
  BY <1>2, <1>3
<1>5. c = [i \in 1..n |-> Len(seqs[i])]
  OBVIOUS
<1> HIDE DEF c
<1>6. PICK f : IsTotal(f, c, n)
  BY <1>1, <1>4, TotalExists
<1>7. f \in [1..n + 1 -> Nat] /\ f[1] = 0 /\ \A i \in 1..n : f[i + 1] = f[i] + c[i]
  BY <1>1, <1>4, <1>6, TotalSteps
<1>8. Places(FlattenSeq(seqs), seqs, f, n, S)
  BY <1>1, <1>3, <1>5, <1>6, Flattened
<1> DEFINE T == {k \in Nat : k <= n => f[k + 1] <= k}
<1>9. 0 \in T
  BY <1>7
<1>10. ASSUME NEW k \in Nat, k \in T PROVE k + 1 \in T
  <2> SUFFICES ASSUME k + 1 <= n PROVE f[(k + 1) + 1] <= k + 1
    OBVIOUS
  <2>1. k + 1 \in 1..n /\ f[k + 1] <= k /\ f[k + 1] \in Nat
    BY <1>1, <1>7, <1>10
  <2>2. f[(k + 1) + 1] = f[k + 1] + c[k + 1] /\ c[k + 1] \in Nat /\ c[k + 1] <= 1
    BY <1>4, <1>7, <2>1
  <2> QED BY <2>1, <2>2
<1> HIDE DEF T
<1>11. n \in T
  BY <1>1, <1>9, <1>10, Induction
<1>12. f[n + 1] <= n
  BY <1>1, <1>11 DEF T
<1> QED BY <1>3, <1>8, <1>12 DEF Places

(* Two lists of sequences that are the same but for some of the first,     *)
(* which begin with a bad element: up to the first bad element the         *)
(* sequences one behind the other are the same.                            *)
SameUnlessBad(seqs, more, n, S, Bad) ==
  /\ seqs \in [1..n -> Seq(S)] /\ more \in [1..n -> Seq(S)]
  /\ \A i \in 1..n : seqs[i] = more[i] \/ (seqs[i] # << >> /\ seqs[i][1] \in Bad)

NoneBad(s, m, Bad) == \A k \in 1..m : s[k] \notin Bad

LEMMA SameUpTo ==
  ASSUME NEW S, NEW n \in Nat, NEW seqs, NEW more, NEW Bad, SameUnlessBad(seqs, more, n, S, Bad),
         NEW m \in 1..Len(FlattenSeq(seqs)), NoneBad(FlattenSeq(seqs), m, Bad)
  PROVE  m <= Len(FlattenSeq(more)) /\ FlattenSeq(more)[m] = FlattenSeq(seqs)[m]
<1> DEFINE s == FlattenSeq(seqs)
           t == FlattenSeq(more)
           c == [i \in 1..n |-> Len(seqs[i])]
           d == [i \in 1..n |-> Len(more[i])]
<1>0. seqs \in [1..n -> Seq(S)] /\ more \in [1..n -> Seq(S)]
  BY DEF SameUnlessBad
<1>1. c \in [1..n -> Nat] /\ d \in [1..n -> Nat]
  BY <1>0
<1>2. c = [i \in 1..n |-> Len(seqs[i])] /\ d = [i \in 1..n |-> Len(more[i])]
  OBVIOUS
<1> HIDE DEF c, d
<1>3. PICK f, g : IsTotal(f, c, n) /\ IsTotal(g, d, n)
  BY <1>1, TotalExists
<1>4. /\ f \in [1..n + 1 -> Nat] /\ f[1] = 0 /\ \A i \in 1..n : f[i + 1] = f[i] + c[i]
      /\ g \in [1..n + 1 -> Nat] /\ g[1] = 0 /\ \A i \in 1..n : g[i + 1] = g[i] + d[i]
  <2>1. f \in [1..n + 1 -> Nat] /\ f[1] = 0 /\ \A i \in 1..n : f[i + 1] = f[i] + c[i]
    BY ONLY n \in Nat, <1>1, <1>3, TotalSteps
  <2>2. g \in [1..n + 1 -> Nat] /\ g[1] = 0 /\ \A i \in 1..n : g[i + 1] = g[i] + d[i]
    BY ONLY n \in Nat, <1>1, <1>3, TotalSteps
  <2> QED BY <2>1, <2>2
<1>5. Places(s, seqs, f, n, S) /\ Places(t, more, g, n, S)
  BY <1>0, <1>2, <1>3, Flattened
<1> HIDE DEF s, t
<1>6. s \in Seq(S) /\ Len(s) = f[n + 1] /\ m \in 1..Len(s) /\ \A k \in 1..m : s[k] \notin Bad
  BY <1>5 DEF Places, NoneBad, s
<1>7. PICK i \in 1..n : f[i] <= m - 1 /\ m - 1 < f[i] + c[i]
  <2>1. m - 1 \in Nat /\ m - 1 < f[n + 1]
    BY <1>6
  <2> QED BY <1>1, <1>3, <2>1, Within
<1>8. ASSUME NEW k \in 1..i PROVE seqs[k] = more[k]
  <2> SUFFICES ASSUME seqs[k] # << >>, seqs[k][1] \in Bad PROVE FALSE
    BY <1>7 DEF SameUnlessBad
  <2>1. k \in 1..n /\ seqs[k] \in Seq(S) /\ Len(seqs[k]) \in Nat /\ 1 \in 1..Len(seqs[k])
    BY <1>0, <1>7
  <2>2. s[f[k] + 1] \in Bad
    BY <1>5, <2>1 DEF Places
  <2>3. f[k] <= f[i]
    <3>1. k \in 1..n + 1 /\ i \in 1..n + 1 /\ k <= i
      BY <2>1, <1>7
    <3> QED BY <1>1, <1>3, <3>1, TotalMonotone
  <2>4. f[k] + 1 \in 1..m
    <3>1. f[k] \in Nat /\ f[i] \in Nat /\ m \in Nat /\ f[i] <= m - 1
      BY <1>4, <1>6, <1>7, <2>1
    <3> QED BY ONLY <2>3, <3>1
  <2> QED BY <1>6, <2>2, <2>4
<1> DEFINE T == {k \in Nat : k + 1 <= i => f[k + 1] = g[k + 1]}
<1>9. 0 \in T
  BY <1>4
<1>10. ASSUME NEW k \in Nat, k \in T PROVE k + 1 \in T
  <2> SUFFICES ASSUME (k + 1) + 1 <= i PROVE f[(k + 1) + 1] = g[(k + 1) + 1]
    OBVIOUS
  <2>1. k + 1 \in 1..i /\ k + 1 \in 1..n /\ f[k + 1] = g[k + 1]
    BY <1>7, <1>10
  <2>2. c[k + 1] = d[k + 1]
    BY <1>2, <1>8, <2>1
  <2> QED BY <1>4, <2>1, <2>2
<1> HIDE DEF T
<1>11. i - 1 \in T /\ (i - 1) + 1 = i
  <2>1. Nat \subseteq T
    BY <1>9, <1>10, Induction
  <2> QED BY <1>7, <2>1
<1>12. f[i] = g[i] /\ c[i] = d[i] /\ seqs[i] = more[i] /\ f[i] \in Nat /\ c[i] \in Nat
  <2>1. f[i] = g[i]
    BY <1>7, <1>11 DEF T
  <2>2. seqs[i] = more[i] /\ c[i] = d[i]
    BY <1>2, <1>7, <1>8
  <2>3. i \in 1..n + 1
    BY <1>7
  <2> QED BY <1>1, <1>4, <2>1, <2>2, <2>3
<1> DEFINE j == m - f[i]
<1>13. j \in 1..c[i] /\ m = f[i] + j
  <2>1. m \in Nat
    BY <1>6
  <2> QED BY ONLY <1>7, <1>12, <2>1
<1> HIDE DEF j
<1>14. c[i] = Len(seqs[i]) /\ d[i] = Len(more[i])
  BY <1>2
<1>15. s[m] = seqs[i][j] /\ t[m] = more[i][j]
  <2>1. j \in 1..Len(seqs[i]) /\ j \in 1..Len(more[i]) /\ m = f[i] + j /\ m = g[i] + j
    BY <1>12, <1>13, <1>14
  <2>2. s[f[i] + j] = seqs[i][j] /\ t[g[i] + j] = more[i][j]
    BY <1>5, <2>1 DEF Places
  <2> QED BY <2>1, <2>2
<1>16. m <= Len(t)
  <2>1. g[i + 1] <= g[n + 1]
    <3>1. i + 1 \in 1..n + 1 /\ n + 1 \in 1..n + 1 /\ i + 1 <= n + 1
      OBVIOUS
    <3> QED BY <1>1, <1>3, <3>1, TotalMonotone
  <2>2. g[i + 1] = g[i] + d[i] /\ Len(t) = g[n + 1] /\ g[n + 1] \in Nat
    BY <1>4, <1>5 DEF Places
  <2>3. m <= g[i + 1]
    BY <1>12, <1>13, <2>2
  <2>4. m \in Nat
    BY <1>6
  <2>5. g[i + 1] \in Nat
    <3>1. i + 1 \in 1..n + 1
      OBVIOUS
    <3> QED BY <1>4, <3>1
  <2> QED BY ONLY <2>1, <2>2, <2>3, <2>4, <2>5
<1> QED BY <1>12, <1>15, <1>16 DEF s, t
=============================================================================
