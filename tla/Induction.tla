------------------------------ MODULE Induction ------------------------------
(***************************************************************************)
(* Induction and recursion for the proofs of the other modules, without    *)
(* operators as parameters: a property of numbers is the set of those that *)
(* have it, and a recursive definition is given by a function.             *)
(***************************************************************************)
EXTENDS Integers, SequencesExt, FiniteSetTheorems, FunctionTheorems, SequenceTheorems, TLAPS

\* A set of numbers that holds zero, and the successor of all it holds, holds them all.
LEMMA SetInduction ==
    ASSUME NEW S, 0 \in S, \A n \in Nat : n \in S => n + 1 \in S
    PROVE  Nat \subseteq S
<1> DEFINE T == Nat \ S
           Less == OpToRel(<, Nat)
<1>1. SUFFICES ASSUME T # {} PROVE FALSE
  OBVIOUS
<1>2. IsWellFoundedOn(Less, Nat)
  BY NatLessThanWellFounded
<1>3. T \subseteq Nat
  OBVIOUS
<1> HIDE DEF T, Less
<1>4. PICK x \in T : \A y \in T : ~ (<<y, x>> \in Less)
  BY <1>1, <1>2, <1>3, WFMin
<1>5. x \in Nat
  BY <1>3, <1>4
<1>6. ASSUME x # 0, x - 1 \notin S PROVE FALSE
  <2>1. x - 1 \in T
    BY <1>5, <1>6 DEF T
  <2>2. <<x - 1, x>> \in Less
    BY <1>5, <1>6 DEF Less, OpToRel
  <2> QED
    BY <1>4, <2>1, <2>2
<1>7. x # 0 /\ x \notin S
  BY <1>4 DEF T
<1>8. x - 1 \in S /\ x - 1 \in Nat
  BY <1>5, <1>6, <1>7
<1> QED
  BY <1>5, <1>7, <1>8

\* The same up to a bound.
LEMMA IntervalInduction ==
    ASSUME NEW S, NEW m \in Int, NEW n \in Int, m \in S,
           \A i \in m .. n - 1 : i \in S => i + 1 \in S
    PROVE  m .. n \subseteq S
<1> DEFINE D == {k \in Nat : m + k <= n => m + k \in S}
<1>1. Nat \subseteq D
  <2>1. 0 \in D
    OBVIOUS
  <2>2. ASSUME NEW k \in Nat, k \in D PROVE k + 1 \in D
    <3>1. SUFFICES ASSUME m + (k + 1) <= n PROVE m + (k + 1) \in S
      BY <2>2
    <3>2. m + k \in m .. n - 1 /\ m + k \in S
      BY <2>2, <3>1
    <3>3. (m + k) + 1 = m + (k + 1)
      OBVIOUS
    <3> QED
      BY <3>2, <3>3
  <2> HIDE DEF D
  <2> QED
    BY <2>1, <2>2, SetInduction
<1>2. ASSUME NEW i \in m .. n PROVE i \in S
  <2>1. i - m \in Nat /\ m + (i - m) = i
    OBVIOUS
  <2> QED
    BY <1>1, <2>1
<1> QED
  BY <1>2

\* A function is defined by its value at zero and a step from one number to the next.
StepsFrom(f, base, step) == f[0] = base /\ \A n \in Nat : f[n + 1] = step[<<f[n], n + 1>>]

LEMMA Recursion ==
    ASSUME NEW V, NEW base \in V, NEW step \in [V \X Nat -> V]
    PROVE  \E f \in [Nat -> V] : StepsFrom(f, base, step)
<1> DEFINE Upto(n) == {g \in [0 .. n -> V] :
                          g[0] = base /\ \A i \in 0 .. n - 1 : g[i + 1] = step[<<g[i], i + 1>>]}
<1>1. \A n \in Nat : Upto(n) # {}
  <2> DEFINE S == {n \in Nat : Upto(n) # {}}
  <2>1. 0 \in S
    <3>1. [i \in 0 .. 0 |-> base] \in Upto(0)
      OBVIOUS
    <3> QED
      BY <3>1
  <2>2. ASSUME NEW n \in Nat, n \in S PROVE n + 1 \in S
    <3>1. PICK g \in [0 .. n -> V] : g \in Upto(n)
      BY <2>2
    <3> DEFINE h == [i \in 0 .. n + 1 |-> IF i = n + 1 THEN step[<<g[n], n + 1>>] ELSE g[i]]
    <3>2. <<g[n], n + 1>> \in V \X Nat
      BY <3>1
    <3>3. h \in [0 .. n + 1 -> V]
      BY <3>1, <3>2
    <3>4. h[0] = base
      BY <3>1
    <3>5. ASSUME NEW i \in 0 .. n PROVE h[i + 1] = step[<<h[i], i + 1>>]
      <4>1. h[i] = g[i]
        BY <3>1
      <4>2. CASE i = n
        <5>1. h[n + 1] = step[<<g[n], n + 1>>]
          OBVIOUS
        <5> HIDE DEF h
        <5> QED
          BY <4>1, <4>2, <5>1
      <4>3. CASE i # n
        <5>1. i \in 0 .. n - 1 /\ i + 1 \in 0 .. n + 1 /\ i + 1 # n + 1
          BY <4>3
        <5>2. h[i + 1] = g[i + 1]
          BY <5>1
        <5>3. g[i + 1] = step[<<g[i], i + 1>>]
          BY <3>1, <5>1
        <5> QED
          BY <4>1, <5>2, <5>3
      <4> QED
        BY <4>2, <4>3
    <3>6. (n + 1) - 1 = n /\ n + 1 \in Nat
      OBVIOUS
    <3> HIDE DEF h
    <3>7. h \in Upto(n + 1)
      BY <3>3, <3>4, <3>5, <3>6
    <3> QED
      BY <3>6, <3>7
  <2> HIDE DEF S
  <2>3. Nat \subseteq S
    BY <2>1, <2>2, SetInduction
  <2> QED
    BY <2>3 DEF S
<1>2. ASSUME NEW n \in Nat, NEW g \in Upto(n), NEW h \in Upto(n + 1), NEW j \in 0 .. n
      PROVE  g[j] = h[j]
  <2> DEFINE S == {i \in 0 .. n : g[i] = h[i]}
  <2>1. 0 \in S
    OBVIOUS
  <2>2. ASSUME NEW i \in 0 .. n - 1, i \in S PROVE i + 1 \in S
    <3>1. i \in 0 .. (n + 1) - 1 /\ i + 1 \in 0 .. n
      OBVIOUS
    <3>2. g[i + 1] = step[<<g[i], i + 1>>] /\ h[i + 1] = step[<<h[i], i + 1>>]
      BY <3>1
    <3> QED
      BY <2>2, <3>1, <3>2
  <2> HIDE DEF S
  <2>3. 0 .. n \subseteq S
    <3>1. 0 \in Int /\ n \in Int
      OBVIOUS
    <3> HIDE DEF Upto
    <3> QED
      BY <2>1, <2>2, <3>1, IntervalInduction
  <2> QED
    BY <2>3 DEF S
<1> DEFINE G(n) == CHOOSE g \in Upto(n) : TRUE
           f == [n \in Nat |-> G(n)[n]]
<1>3. \A n \in Nat : G(n) \in Upto(n)
  BY <1>1
<1>4. f \in [Nat -> V]
  <2>1. ASSUME NEW n \in Nat PROVE G(n)[n] \in V
    <3>1. G(n) \in [0 .. n -> V]
      BY <1>3
    <3> QED
      BY <3>1
  <2> HIDE DEF G
  <2> QED
    BY <2>1
<1>5. f[0] = base
  BY <1>3
<1>6. ASSUME NEW n \in Nat PROVE f[n + 1] = step[<<f[n], n + 1>>]
  <2>1. n + 1 \in Nat /\ n \in 0 .. n /\ n \in 0 .. (n + 1) - 1
    OBVIOUS
  <2>2. G(n) \in Upto(n) /\ G(n + 1) \in Upto(n + 1)
    BY <1>3, <2>1
  <2> HIDE DEF G
  <2>3. G(n + 1)[n + 1] = step[<<G(n + 1)[n], n + 1>>]
    BY <2>1, <2>2
  <2>4. G(n + 1)[n] = G(n)[n]
    BY <1>2, <2>1, <2>2
  <2> QED
    BY <2>1, <2>3, <2>4
<1> HIDE DEF f
<1> QED
  BY <1>4, <1>5, <1>6 DEF StepsFrom

\* The recursive function over an interval, in the form TLA+ gives its definition.
LoopsFrom(f, m, n, base, step) ==
    f = [i \in m .. n |-> IF i = m THEN base ELSE step[<<f[i - 1], i>>]]

LEMMA IntervalRecursion ==
    ASSUME NEW V, NEW m \in Int, NEW n \in Int, NEW base \in V, NEW step \in [V \X Int -> V]
    PROVE  \E f \in [m .. n -> V] : LoopsFrom(f, m, n, base, step)
<1> DEFINE shifted == [x \in V \X Nat |-> step[<<x[1], m + x[2]>>]]
<1>1. shifted \in [V \X Nat -> V]
  OBVIOUS
<1> HIDE DEF shifted
<1>2. PICK g \in [Nat -> V] : StepsFrom(g, base, shifted)
  BY <1>1, Recursion
<1> DEFINE f == [i \in m .. n |-> g[i - m]]
<1>3. f \in [m .. n -> V]
  OBVIOUS
<1>4. ASSUME NEW i \in m .. n
      PROVE  f[i] = IF i = m THEN base ELSE step[<<f[i - 1], i>>]
  <2>1. CASE i = m
    BY <1>2, <2>1 DEF StepsFrom
  <2>2. CASE i # m
    <3>1. i - 1 \in m .. n /\ (i - 1) - m \in Nat /\ ((i - 1) - m) + 1 = i - m /\ m + (i - m) = i
      BY <2>2
    <3>2. g[i - m] = shifted[<<g[(i - 1) - m], i - m>>]
      BY <1>2, <3>1 DEF StepsFrom
    <3>3. <<g[(i - 1) - m], i - m>> \in V \X Nat
      BY <3>1
    <3>4. shifted[<<g[(i - 1) - m], i - m>>] = step[<<g[(i - 1) - m], m + (i - m)>>]
      BY <3>3 DEF shifted
    <3> QED
      BY <2>2, <3>1, <3>2, <3>4
  <2> QED
    BY <2>1, <2>2
<1>5. LoopsFrom(f, m, n, base, step)
  BY <1>3, <1>4 DEF LoopsFrom
<1> HIDE DEF f
<1> QED
  BY <1>3, <1>5

-----------------------------------------------------------------------------
(* Numbers.                                                                *)

\* Powers of two, from the number of subsets of a set.
LEMMA PowersOfTwo ==
    ASSUME NEW n \in Nat
    PROVE  2^0 = 1 /\ 2^n \in Nat \ {0} /\ 2^(n + 1) = 2 * 2^n
<1> DEFINE S == 1 .. n
           T == 1 .. n + 1
           N == {U \in SUBSET T : n + 1 \in U}
           f == [U \in SUBSET S |-> U \cup {n + 1}]
<1>1. IsFiniteSet(S) /\ Cardinality(S) = n /\ IsFiniteSet(T) /\ Cardinality(T) = n + 1
  <2>1. 1 \in Int /\ n \in Int /\ n + 1 \in Int
    OBVIOUS
  <2>2. IsFiniteSet(S) /\ Cardinality(S) = IF 1 > n THEN 0 ELSE n - 1 + 1
    BY <2>1, FS_Interval, Zenon
  <2>3. IsFiniteSet(T) /\ Cardinality(T) = IF 1 > n + 1 THEN 0 ELSE (n + 1) - 1 + 1
    BY <2>1, FS_Interval, Zenon
  <2> HIDE DEF S, T
  <2> QED
    BY <2>2, <2>3
<1>2. T = S \cup {n + 1} /\ n + 1 \notin S
  OBVIOUS
<1> HIDE DEF S, T
<1>3. SUBSET T = (SUBSET S) \cup N /\ (SUBSET S) \cap N = {}
  BY <1>2
<1>4. f \in Bijection(SUBSET S, N)
  <2>1. f \in [SUBSET S -> N]
    BY <1>2
  <2>2. ASSUME NEW U \in SUBSET S, NEW W \in SUBSET S, f[U] = f[W] PROVE U = W
    BY <1>2, <2>2
  <2>3. ASSUME NEW W \in N PROVE \E U \in SUBSET S : f[U] = W
    <3>1. W \ {n + 1} \in SUBSET S
      BY <1>2
    <3>2. f[W \ {n + 1}] = W
      BY <3>1
    <3> QED
      BY <3>1, <3>2
  <2> HIDE DEF f, N
  <2> QED
    BY <2>1, <2>2, <2>3, Fun_IsBij
<1> HIDE DEF f
<1>5. IsFiniteSet(SUBSET S) /\ Cardinality(SUBSET S) = 2^n
  BY <1>1, FS_SUBSET
<1>6. IsFiniteSet(SUBSET T) /\ Cardinality(SUBSET T) = 2^(n + 1)
  BY <1>1, FS_SUBSET
<1> HIDE DEF N
<1>7. IsFiniteSet(N) /\ Cardinality(N) = 2^n
  <2>1. ExistsBijection(SUBSET S, N)
    BY <1>4, Fun_ExistsBij
  <2> QED
    BY <1>5, <2>1, FS_Bijection
<1>8. 2^n \in Nat
  BY <1>5, FS_CardinalityType
<1>9. 2^n # 0
  <2>1. SUBSET S # {}
    OBVIOUS
  <2> QED
    BY <1>5, <2>1, FS_EmptySet
<1>10. Cardinality((SUBSET S) \cup N) = Cardinality(SUBSET S) + Cardinality(N) - Cardinality({})
  BY <1>3, <1>5, <1>7, FS_Union
<1>11. Cardinality({}) = 0
  BY FS_EmptySet
<1>12. 2^(n + 1) = 2^n + 2^n - 0
  BY <1>3, <1>5, <1>6, <1>7, <1>10, <1>11
<1>13. 2^0 = 1
  OBVIOUS
<1> QED
  BY <1>8, <1>9, <1>12, <1>13

\* The quotient of a division is the one number with a remainder.
LEMMA QuotientIs ==
    ASSUME NEW n \in Nat \ {0}, NEW k \in Int, NEW s \in 0 .. n - 1, NEW v \in Int, v = n * k + s
    PROVE  v \div n = k /\ v % n = s
<1> DEFINE d == v \div n
           t == v % n
<1>1. d \in Int /\ t \in Int /\ 0 <= t /\ t < n /\ v = n * d + t
  OBVIOUS
<1> HIDE DEF d, t
<1> DEFINE f == k - d
<1>2. f \in Int /\ n * f = t - s
  <2>1. n * (k - d) = n * k - n * d
    BY <1>1
  <2> QED
    BY <1>1, <2>1
<1> HIDE DEF f
<1>3. f = 0
  <2>1. -n < n * f /\ n * f < n
    BY <1>1, <1>2
  <2>2. f >= 1 => n * f >= n
    BY <1>2
  <2>3. f <= -1 => n * f <= -n
    BY <1>2
  <2> QED
    BY <1>2, <2>1, <2>2, <2>3
<1>4. k = d
  BY <1>1, <1>3 DEF f
<1>5. t = s
  BY <1>1, <1>4
<1> QED
  BY <1>4, <1>5 DEF d, t

\* Dividing by twice n leaves out the last bit of the quotient.
LEMMA Halves ==
    ASSUME NEW n \in Nat \ {0}, NEW v \in Nat
    PROVE  /\ v \div (2 * n) \in Nat /\ v \div n \in Nat /\ (v \div n) % 2 \in {0, 1}
           /\ v \div n = 2 * (v \div (2 * n)) + ((v \div n) % 2)
<1> DEFINE d == v \div n
           s == v % n
<1>1. d \in Nat /\ s \in 0 .. n - 1 /\ v = n * d + s
  OBVIOUS
<1> HIDE DEF d, s
<1> DEFINE e == d \div 2
           h == d % 2
<1>2. e \in Nat /\ h \in {0, 1} /\ d = 2 * e + h
  BY <1>1
<1> HIDE DEF e, h
<1>3. v = (2 * n) * e + (n * h + s)
  <2>1. n * (2 * e + h) = n * (2 * e) + n * h
    BY <1>2
  <2>2. n * (2 * e) = (2 * n) * e
    BY <1>2
  <2> QED
    BY <1>1, <1>2, <2>1, <2>2
<1>4. n * h + s \in 0 .. (2 * n) - 1
  BY <1>1, <1>2
<1> DEFINE m == 2 * n
           r == n * h + s
<1>5. m \in Nat \ {0} /\ r \in 0 .. m - 1 /\ v = m * e + r
  BY <1>3, <1>4
<1> HIDE DEF m, r
<1>6. v \div m = e
  <2>1. v \in Int /\ e \in Int
    BY <1>2
  <2> QED
    BY <1>5, <2>1, QuotientIs
<1> QED
  BY <1>1, <1>2, <1>6 DEF m, d, e, h

\* Multiples of a power of two.
Multiple(x, d) == \E k \in Nat : x = k * d

LEMMA Multiples ==
    ASSUME NEW d \in Nat \ {0}
    PROVE  /\ Multiple(0, d) /\ Multiple(d, d)
           /\ \A x, y : Multiple(x, d) /\ Multiple(y, d) => Multiple(x + y, d)
           /\ \A x \in Nat : Multiple(x, d) <=> x % d = 0
           /\ \A x, e : Multiple(x, e) /\ Multiple(e, d) => Multiple(x, d)
<1>1. Multiple(0, d) /\ Multiple(d, d)
  <2>1. 0 = 0 * d /\ d = 1 * d
    OBVIOUS
  <2> QED
    BY <2>1 DEF Multiple
<1>2. ASSUME NEW x, NEW y, Multiple(x, d), Multiple(y, d) PROVE Multiple(x + y, d)
  <2>1. PICK k \in Nat : x = k * d
    BY <1>2 DEF Multiple
  <2>2. PICK l \in Nat : y = l * d
    BY <1>2 DEF Multiple
  <2>3. k + l \in Nat /\ x + y = (k + l) * d
    BY <2>1, <2>2
  <2> QED
    BY <2>3 DEF Multiple
<1>3. ASSUME NEW x \in Nat PROVE Multiple(x, d) <=> x % d = 0
  <2>1. ASSUME Multiple(x, d) PROVE x % d = 0
    <3>1. PICK k \in Nat : x = k * d
      BY <2>1 DEF Multiple
    <3>2. 0 \in 0 .. d - 1 /\ x = d * k + 0 /\ k \in Int /\ x \in Int
      BY <3>1
    <3> QED
      BY <3>2, QuotientIs
  <2>2. ASSUME x % d = 0 PROVE Multiple(x, d)
    <3>1. x \div d \in Nat /\ x = (x \div d) * d
      BY <2>2
    <3> QED
      BY <3>1 DEF Multiple
  <2> QED
    BY <2>1, <2>2
<1>4. ASSUME NEW x, NEW e, Multiple(x, e), Multiple(e, d) PROVE Multiple(x, d)
  <2>1. PICK k \in Nat : x = k * e
    BY <1>4 DEF Multiple
  <2>2. PICK l \in Nat : e = l * d
    BY <1>4 DEF Multiple
  <2>3. k * l \in Nat /\ x = (k * l) * d
    BY <2>1, <2>2
  <2> QED
    BY <2>3 DEF Multiple
<1> QED
  BY <1>1, <1>2, <1>3, <1>4

LEMMA PowerMultiple ==
    ASSUME NEW n \in Nat, NEW h \in Nat, n <= h
    PROVE  Multiple(2^h, 2^n)
<1> DEFINE S == {k \in Nat : Multiple(2^(n + k), 2^n)}
<1>1. 2^n \in Nat \ {0}
  BY PowersOfTwo
<1>2. 0 \in S
  <2>1. n + 0 = n /\ Multiple(2^n, 2^n)
    BY <1>1, Multiples
  <2> QED
    BY <2>1
<1>3. ASSUME NEW k \in Nat, k \in S PROVE k + 1 \in S
  <2>1. n + k \in Nat /\ n + (k + 1) = (n + k) + 1
    OBVIOUS
  <2>2. 2^((n + k) + 1) = 2 * 2^(n + k) /\ 2^(n + k) \in Nat
    BY <2>1, PowersOfTwo
  <2>3. 2 * 2^(n + k) = 2^(n + k) + 2^(n + k)
    BY <2>2
  <2>4. Multiple(2^(n + k), 2^n)
    BY <1>3
  <2>5. Multiple(2^(n + k) + 2^(n + k), 2^n)
    BY <1>1, <2>4, Multiples
  <2>6. 2^(n + (k + 1)) = 2^(n + k) + 2^(n + k)
    BY <2>1, <2>2, <2>3
  <2> QED
    BY <2>5, <2>6
<1> HIDE DEF S
<1>4. Nat \subseteq S
  BY <1>2, <1>3, SetInduction
<1>5. h - n \in Nat /\ n + (h - n) = h
  OBVIOUS
<1>6. h - n \in S
  BY <1>4, <1>5
<1> QED
  BY <1>5, <1>6 DEF S

-----------------------------------------------------------------------------
(* Flattening: f[i] joins the first i of a sequence of sequences.          *)
Flattening(f, s, S) ==
    /\ f \in [0 .. Len(s) -> Seq(S)] /\ f[0] = <<>>
    /\ \A i \in 1 .. Len(s) : f[i] = f[i - 1] \o s[i]

LEMMA FlatteningExists ==
    ASSUME NEW S, NEW s \in Seq(Seq(S))
    PROVE  \E f : Flattening(f, s, S)
<1> DEFINE V == Seq(S)
           n == Len(s)
           step == [x \in V \X Int |-> IF x[2] \in 1 .. n THEN x[1] \o s[x[2]] ELSE x[1]]
<1>1. n \in Nat /\ \A i \in 1 .. n : s[i] \in V
  OBVIOUS
<1>2. <<>> \in V /\ \A v \in V, w \in V : v \o w \in V
  OBVIOUS
<1> HIDE DEF V, n
<1>3. step \in [V \X Int -> V]
  BY <1>1, <1>2
<1>4. ASSUME NEW v \in V, NEW i \in 1 .. n PROVE step[<<v, i>>] = v \o s[i]
  <2>1. i \in Int /\ <<v, i>> \in V \X Int
    BY <1>1
  <2> QED
    BY <2>1
<1> HIDE DEF step
<1>5. 0 \in Int /\ n \in Int
  BY <1>1
<1>6. PICK f \in [0 .. n -> V] : LoopsFrom(f, 0, n, <<>>, step)
  BY <1>2, <1>3, <1>5, IntervalRecursion
<1>7. f[0] = <<>>
  BY <1>1, <1>6 DEF LoopsFrom
<1>8. ASSUME NEW i \in 1 .. n PROVE f[i] = f[i - 1] \o s[i]
  <2>1. i \in 0 .. n /\ i # 0 /\ i - 1 \in 0 .. n
    BY <1>1
  <2>2. f[i] = step[<<f[i - 1], i>>] /\ f[i - 1] \in V
    BY <1>6, <2>1 DEF LoopsFrom
  <2> QED
    BY <1>4, <2>2
<1> QED
  BY <1>6, <1>7, <1>8 DEF Flattening, V, n

LEMMA FlattensTo ==
    ASSUME NEW S, NEW s \in Seq(Seq(S)), NEW f, Flattening(f, s, S)
    PROVE  FlattenSeq(s) = f[Len(s)] /\ FlattenSeq(s) \in Seq(S)
<1> DEFINE n == Len(s)
           IsFlat(g) == g = [i \in 1 .. n |-> IF i = 1 THEN s[i] ELSE g[i - 1] \o s[i]]
           flat == CHOOSE g : IsFlat(g)
<1>1. n \in Nat /\ \A i \in 1 .. n : s[i] \in Seq(S)
  OBVIOUS
<1>2. \A i \in 0 .. n : f[i] \in Seq(S)
  BY DEF Flattening
<1>3. CASE n = 0
  <2>1. s = <<>> /\ FlattenSeq(s) = s /\ f[n] = <<>> /\ <<>> \in Seq(S)
    BY <1>3 DEF FlattenSeq, Flattening
  <2> HIDE DEF n
  <2>2. FlattenSeq(s) = f[n] /\ FlattenSeq(s) \in Seq(S)
    BY <2>1
  <2> QED
    BY <2>2 DEF n
<1>4. CASE n # 0
  <2>1. FlattenSeq(s) = flat[n]
    BY <1>4 DEF FlattenSeq
  <2>2. f[1] = s[1]
    <3>1. 1 \in 1 .. n /\ 1 - 1 = 0
      BY <1>1, <1>4
    <3>2. f[1] = <<>> \o s[1] /\ s[1] \in Seq(S)
      BY <1>1, <3>1 DEF Flattening
    <3> QED
      BY <3>2, ConcatEmptySeq
  <2>3. IsFlat([i \in 1 .. n |-> f[i]])
    <3>1. \A i \in 1 .. n : i # 1 => i - 1 \in 1 .. n
      BY <1>1
    <3>2. \A i \in 1 .. n : f[i] = f[i - 1] \o s[i]
      BY DEF Flattening
    <3> HIDE DEF n
    <3> QED
      BY <2>2, <3>1, <3>2
  <2>4. IsFlat(flat)
    BY <2>3
  <2> HIDE DEF flat
  <2> DEFINE T == {i \in 1 .. n : flat[i] = f[i]}
  <2>5. 1 \in T
    BY <1>1, <1>4, <2>2, <2>4
  <2>6. ASSUME NEW i \in 1 .. n - 1, i \in T PROVE i + 1 \in T
    <3>1. i + 1 \in 1 .. n /\ i + 1 # 1 /\ (i + 1) - 1 = i
      BY <1>1, <2>6
    <3>2. flat[i + 1] = flat[i] \o s[i + 1]
      BY <2>4, <3>1
    <3>3. f[i + 1] = f[i] \o s[i + 1]
      BY <3>1 DEF Flattening
    <3> QED
      BY <2>6, <3>1, <3>2, <3>3
  <2>7. n \in T
    <3>1. 1 \in Int /\ n \in Int /\ n \in 1 .. n
      BY <1>1, <1>4
    <3> HIDE DEF T, n
    <3> QED
      BY <2>5, <2>6, <3>1, IntervalInduction
  <2> QED
    BY <1>1, <1>2, <2>1, <2>7
<1> QED
  BY <1>3, <1>4

\* One more at the end, and one less at the front.
LEMMA FlattenAppend ==
    ASSUME NEW S, NEW s \in Seq(Seq(S)), NEW e \in Seq(S)
    PROVE  FlattenSeq(Append(s, e)) = FlattenSeq(s) \o e
<1>1. PICK f : Flattening(f, s, S)
  BY FlatteningExists
<1> DEFINE n == Len(s)
           t == Append(s, e)
           g == [i \in 0 .. n + 1 |-> IF i = n + 1 THEN f[n] \o e ELSE f[i]]
<1>2. /\ n \in Nat /\ t \in Seq(Seq(S)) /\ Len(t) = n + 1 /\ t[n + 1] = e
      /\ \A i \in 1 .. n : t[i] = s[i]
  BY AppendProperties
<1>3. f \in [0 .. n -> Seq(S)] /\ n \in 0 .. n /\ f[n] \o e \in Seq(S)
  <2>1. f \in [0 .. n -> Seq(S)] /\ n \in 0 .. n
    BY <1>1, <1>2 DEF Flattening
  <2>2. f[n] \in Seq(S)
    BY <2>1
  <2> QED
    BY <2>1, <2>2
<1> HIDE DEF n
<1>4. g \in [0 .. n + 1 -> Seq(S)] /\ g[0] = <<>>
  BY <1>1, <1>2, <1>3 DEF Flattening
<1>5. ASSUME NEW i \in 1 .. n + 1 PROVE g[i] = g[i - 1] \o t[i]
  <2>1. i - 1 \in 0 .. n /\ i \in 0 .. n + 1 /\ g[i - 1] = f[i - 1]
    BY <1>2
  <2>2. CASE i = n + 1
    <3>1. i - 1 = n /\ g[i] = f[n] \o e
      BY <1>2, <2>1, <2>2
    <3>2. g[i - 1] = f[n] /\ t[i] = e
      BY <1>2, <2>1, <2>2, <3>1
    <3> QED
      BY <3>1, <3>2
  <2>3. CASE i # n + 1
    <3>1. i \in 1 .. n /\ g[i] = f[i]
      BY <1>2, <2>1, <2>3
    <3>2. f[i] = f[i - 1] \o s[i]
      BY <1>1, <3>1 DEF Flattening, n
    <3> QED
      BY <1>2, <2>1, <3>1, <3>2
  <2> QED
    BY <2>2, <2>3
<1>6. g[n + 1] = f[n] \o e
  BY <1>2
<1> HIDE DEF g, t
<1>7. Flattening(g, t, S)
  BY <1>2, <1>4, <1>5 DEF Flattening
<1>8. FlattenSeq(t) = g[n + 1]
  BY <1>2, <1>7, FlattensTo
<1>9. FlattenSeq(s) = f[n]
  BY <1>1, FlattensTo DEF n
<1> QED
  BY <1>6, <1>8, <1>9 DEF t

Reassociates(x, y, z) == x \o (y \o z) = (x \o y) \o z

LEMMA Reassociated ==
    ASSUME NEW S, NEW x \in Seq(S), NEW y \in Seq(S), NEW z \in Seq(S)
    PROVE  Reassociates(x, y, z)
BY ConcatAssociative DEF Reassociates

LEMMA FlattenTail ==
    ASSUME NEW S, NEW s \in Seq(Seq(S)), s # <<>>
    PROVE  FlattenSeq(s) = Head(s) \o FlattenSeq(Tail(s))
<1> DEFINE n == Len(Tail(s))
           t == Tail(s)
           h == Head(s)
<1>1. /\ t \in Seq(Seq(S)) /\ n \in Nat /\ Len(s) = n + 1 /\ h \in Seq(S) /\ s[1] = h
      /\ \A i \in 1 .. n : t[i] = s[i + 1]
  OBVIOUS
<1>2. PICK f : Flattening(f, t, S)
  BY <1>1, FlatteningExists
<1> HIDE DEF n, t, h
<1> DEFINE g == [i \in 0 .. n + 1 |-> IF i = 0 THEN <<>> ELSE h \o f[i - 1]]
<1>3. Len(t) = n
  BY DEF n, t
<1>4. /\ f \in [0 .. n -> Seq(S)] /\ f[0] = <<>>
      /\ \A i \in 1 .. n : f[i] = f[i - 1] \o t[i]
  BY <1>2, <1>3 DEF Flattening
<1>5. ASSUME NEW i \in 1 .. n + 1
      PROVE  g[i] = h \o f[i - 1] /\ f[i - 1] \in Seq(S) /\ g[i] \in Seq(S)
  <2>1. i - 1 \in 0 .. n /\ i \in 0 .. n + 1 /\ i # 0
    BY <1>1
  <2>2. f[i - 1] \in Seq(S) /\ g[i] = h \o f[i - 1]
    BY <1>4, <2>1
  <2> HIDE DEF g
  <2>3. h \o f[i - 1] \in Seq(S)
    BY <1>1, <2>2, ConcatProperties
  <2> QED
    BY <2>2, <2>3
<1>6. g[0] = <<>> /\ g \in [0 .. n + 1 -> Seq(S)]
  <2>1. g[0] = <<>>
    BY <1>1
  <2>2. \A i \in 0 .. n + 1 : i = 0 \/ i \in 1 .. n + 1
    BY <1>1
  <2>3. ASSUME NEW i \in 0 .. n + 1 PROVE g[i] \in Seq(S)
    <3> HIDE DEF g
    <3>1. CASE i = 0
      <4>1. <<>> \in Seq(S)
        OBVIOUS
      <4> QED
        BY <2>1, <3>1, <4>1
    <3>2. CASE i \in 1 .. n + 1
      BY <1>5, <3>2
    <3> QED
      BY <2>2, <3>1, <3>2
  <2>4. DOMAIN g = 0 .. n + 1 /\ g = [i \in 0 .. n + 1 |-> g[i]]
    OBVIOUS
  <2> HIDE DEF g
  <2> QED
    BY <2>1, <2>3, <2>4
<1> HIDE DEF g
<1>7. ASSUME NEW i \in 1 .. n + 1 PROVE g[i] = g[i - 1] \o s[i]
  <2>1. CASE i = 1
    <3>1. g[1] = h \o <<>> /\ 1 - 1 = 0
      <4>1. 1 \in 1 .. n + 1 /\ 1 - 1 = 0
        BY <1>1
      <4>2. g[1] = h \o f[1 - 1]
        BY <1>5, <4>1
      <4> QED
        BY <1>4, <4>1, <4>2
    <3> QED
      BY <1>1, <1>6, <2>1, <3>1, ConcatEmptySeq
  <2>2. CASE i # 1
    <3> DEFINE j == i - 1
    <3>1. j \in 1 .. n /\ j \in 1 .. n + 1 /\ j + 1 = i /\ j \in Int
      BY <1>1, <2>2
    <3> HIDE DEF j
    <3>2. f[j] = f[j - 1] \o t[j] /\ t[j] = s[i] /\ f[j - 1] \in Seq(S) /\ t[j] \in Seq(S)
      <4>1. f[j] = f[j - 1] \o t[j] /\ f[j - 1] \in Seq(S)
        BY <1>4, <1>5, <3>1
      <4>2. t[j] = s[j + 1]
        BY <1>1, <3>1
      <4>3. t[j] \in Seq(S)
        BY <1>1, <1>3, <3>1, ElementOfSeq
      <4> QED
        BY <3>1, <4>1, <4>2, <4>3
    <3>3. g[i] = h \o f[j] /\ g[j] = h \o f[j - 1]
      BY <1>5, <3>1 DEF j
    <3>4. Reassociates(h, f[j - 1], t[j])
      <4>1. h \in Seq(S)
        BY <1>1
      <4> QED
        BY <3>2, <4>1, Reassociated
    <3> QED
      BY <3>2, <3>3, <3>4 DEF j, Reassociates
  <2> QED
    BY <2>1, <2>2
<1>8. Flattening(g, s, S)
  BY <1>1, <1>6, <1>7 DEF Flattening
<1>9. FlattenSeq(s) = g[n + 1] /\ g[n + 1] = h \o f[n]
  <2>1. n + 1 \in 1 .. n + 1 /\ (n + 1) - 1 = n
    BY <1>1
  <2> QED
    BY <1>1, <1>5, <1>8, <2>1, FlattensTo
<1>10. FlattenSeq(t) = f[n]
  BY <1>1, <1>2, <1>3, FlattensTo
<1> QED
  BY <1>9, <1>10 DEF t, h

-----------------------------------------------------------------------------
(* Folds: a function of the subsets of S that is given for the empty set,  *)
(* and for any other set by what it is without one element of the set.     *)
LEMMA FoldsAreIn ==
    ASSUME NEW S, IsFiniteSet(S), NEW V, NEW f, NEW pick, \A s \in SUBSET S : s # {} => pick[s] \in s,
           f[{}] \in V, \A s \in SUBSET S : s # {} /\ f[s \ {pick[s]}] \in V => f[s] \in V
    PROVE  \A s \in SUBSET S : f[s] \in V
<1> DEFINE D == {n \in Nat : \A s \in SUBSET S : Cardinality(s) = n => f[s] \in V}
<1>1. \A s \in SUBSET S : IsFiniteSet(s) /\ Cardinality(s) \in Nat /\ (Cardinality(s) = 0 <=> s = {})
  BY FS_Subset, FS_CardinalityType, FS_EmptySet
<1>2. 0 \in D
  BY <1>1
<1>3. ASSUME NEW n \in Nat, n \in D PROVE n + 1 \in D
  <2>1. SUFFICES ASSUME NEW s \in SUBSET S, Cardinality(s) = n + 1 PROVE f[s] \in V
    OBVIOUS
  <2>2. s # {} /\ pick[s] \in s
    BY <1>1, <2>1
  <2>3. s \ {pick[s]} \in SUBSET S /\ Cardinality(s \ {pick[s]}) = n
    <3>1. Cardinality(s \ {pick[s]}) = Cardinality(s) - 1
      BY <1>1, <2>2, FS_RemoveElement
    <3> QED
      BY <2>1, <3>1
  <2> QED
    BY <1>3, <2>2, <2>3
<1> HIDE DEF D
<1>4. Nat \subseteq D
  BY <1>2, <1>3, SetInduction
<1> QED
  BY <1>1, <1>4 DEF D

Folds(f, base, step, pick, S) ==
    f = [s \in SUBSET S |-> IF s = {} THEN base ELSE step[<<pick[s], f[s \ {pick[s]}]>>]]
Foldable(base, step, pick, S, V) ==
    \E f : Folds(f, base, step, pick, S) /\ \A s \in SUBSET S : f[s] \in V

LEMMA FoldsExist ==
    ASSUME NEW S, IsFiniteSet(S), NEW V, NEW base \in V, NEW step \in [S \X V -> V],
           NEW pick, \A s \in SUBSET S : s # {} => pick[s] \in s
    PROVE  Foldable(base, step, pick, S, V)
<1> DEFINE F == [SUBSET S -> V]
           At(f, s) == IF s = {} THEN base ELSE step[<<pick[s], f[s \ {pick[s]}]>>]
           D == {n \in Nat : \E f \in F : \A s \in SUBSET S : Cardinality(s) <= n => f[s] = At(f, s)}
<1>1. \A s \in SUBSET S : /\ IsFiniteSet(s) /\ Cardinality(s) \in Nat /\ (Cardinality(s) = 0 <=> s = {})
                          /\ Cardinality(s) <= Cardinality(S)
  BY FS_Subset, FS_CardinalityType, FS_EmptySet
<1>2. 0 \in D
  <2> DEFINE f == [s \in SUBSET S |-> base]
  <2>1. f \in F
    OBVIOUS
  <2>2. \A s \in SUBSET S : Cardinality(s) <= 0 => s = {} /\ f[s] = At(f, s)
    BY <1>1
  <2> HIDE DEF f, F, At
  <2> QED
    BY <2>1, <2>2
<1>3. \A f \in F : \A s \in SUBSET S : At(f, s) \in V
  OBVIOUS
<1>4. ASSUME NEW n \in Nat, n \in D PROVE n + 1 \in D
  <2>1. PICK f \in F : \A s \in SUBSET S : Cardinality(s) <= n => f[s] = At(f, s)
    BY <1>4
  <2> DEFINE g == [s \in SUBSET S |-> At(f, s)]
  <2>2. g \in F
    <3> HIDE DEF At
    <3> QED
      BY <1>3, <2>1
  <2>3. ASSUME NEW s \in SUBSET S, Cardinality(s) <= n + 1 PROVE g[s] = At(g, s)
    <3>1. CASE s = {}
      BY <3>1
    <3>2. CASE s # {}
      <4> DEFINE t == s \ {pick[s]}
      <4>1. t \in SUBSET S /\ Cardinality(t) = Cardinality(s) - 1
        BY <1>1, <3>2, FS_RemoveElement
      <4>2. Cardinality(t) <= n
        BY <1>1, <2>3, <4>1
      <4>3. g[t] = f[t]
        BY <2>1, <4>1, <4>2
      <4> QED
        BY <3>2, <4>3
    <3> QED
      BY <3>1, <3>2
  <2> HIDE DEF g, F, At
  <2> QED
    BY <2>2, <2>3
<1> HIDE DEF D
<1>5. Nat \subseteq D
  BY <1>2, <1>4, SetInduction
<1>6. Cardinality(S) \in D
  BY <1>1, <1>5
<1>7. PICK f \in F : \A s \in SUBSET S : Cardinality(s) <= Cardinality(S) => f[s] = At(f, s)
  BY <1>6 DEF D
<1>8. f = [s \in SUBSET S |-> At(f, s)]
  <2>1. \A s \in SUBSET S : f[s] = At(f, s)
    BY <1>1, <1>7
  <2> HIDE DEF At
  <2> QED
    BY <2>1
<1> QED
  BY <1>8 DEF Folds, Foldable

\* The largest of some numbers, as a fold over a sequence picks it.
LEMMA LargestIn ==
    ASSUME NEW n \in Nat, NEW s \in SUBSET (1 .. n), s # {}
    PROVE  (CHOOSE x \in s : \A y \in s : x >= y) \in s
<1> DEFINE D == {k \in Nat : \A t \in SUBSET (1 .. k) : t # {} => \E x \in t : \A y \in t : x >= y}
<1>1. 0 \in D
  <2>1. \A t \in SUBSET (1 .. 0) : t = {}
    <3>1. 1 .. 0 = {}
      OBVIOUS
    <3> QED
      BY <3>1
  <2> QED
    BY <2>1
<1>2. ASSUME NEW k \in Nat, k \in D PROVE k + 1 \in D
  <2>1. SUFFICES ASSUME NEW t \in SUBSET (1 .. k + 1), t # {} PROVE \E x \in t : \A y \in t : x >= y
    OBVIOUS
  <2>2. CASE k + 1 \in t
    <3>1. \A y \in t : k + 1 >= y
      OBVIOUS
    <3> QED
      BY <2>2, <3>1
  <2>3. CASE k + 1 \notin t
    <3>1. t \in SUBSET (1 .. k)
      BY <2>3
    <3> QED
      BY <1>2, <2>1, <3>1
  <2> QED
    BY <2>2, <2>3
<1> HIDE DEF D
<1>3. n \in D
  BY <1>1, <1>2, SetInduction
<1> QED
  BY <1>3 DEF D

\* A fold over a sequence takes the last index of its domain first.
LEMMA LastFirst ==
    ASSUME NEW E, NEW seq \in Seq(E)
    PROVE  /\ IsFiniteSet(DOMAIN seq) /\ \A i \in DOMAIN seq : seq[i] \in E
           /\ \A t \in SUBSET DOMAIN seq : t # {} => Max(t) \in t
<1>1. DOMAIN seq = 1 .. Len(seq) /\ Len(seq) \in Nat /\ \A i \in DOMAIN seq : seq[i] \in E
  OBVIOUS
<1>2. IsFiniteSet(1 .. Len(seq))
  BY <1>1, FS_Interval
<1>3. ASSUME NEW t \in SUBSET (1 .. Len(seq)), t # {} PROVE Max(t) \in t
  BY <1>1, <1>3, LargestIn DEF Max
<1> QED
  BY <1>1, <1>2, <1>3

FoldableSeq(base, step, seq, V) ==
    \E g : /\ g = [t \in SUBSET DOMAIN seq |-> g[t]]
           /\ \A t \in SUBSET DOMAIN seq :
                /\ g[t] \in V
                /\ g[t] = IF t = {} THEN base ELSE step[<<seq[Max(t)], g[t \ {Max(t)}]>>]

LEMMA SeqFoldExists ==
    ASSUME NEW E, NEW seq \in Seq(E), NEW V, NEW base \in V, NEW step \in [E \X V -> V]
    PROVE  FoldableSeq(base, step, seq, V)
<1> DEFINE D == DOMAIN seq
           pick == [t \in SUBSET D |-> Max(t)]
           move == [x \in D \X V |-> step[<<seq[x[1]], x[2]>>]]
<1>1. IsFiniteSet(D) /\ (\A i \in D : seq[i] \in E) /\ \A t \in SUBSET D : t # {} => Max(t) \in t
  BY LastFirst
<1> HIDE DEF D
<1>2. move \in [D \X V -> V] /\ \A i \in D, x \in V : move[<<i, x>>] = step[<<seq[i], x>>]
  BY <1>1
<1>3. \A t \in SUBSET D : pick[t] = Max(t) /\ (t # {} => pick[t] \in t)
  BY <1>1
<1> HIDE DEF move, pick
<1>4. Foldable(base, move, pick, D, V)
  BY <1>1, <1>2, <1>3, FoldsExist
<1>5. PICK g : Folds(g, base, move, pick, D) /\ \A t \in SUBSET D : g[t] \in V
  BY <1>4 DEF Foldable
<1>6. ASSUME NEW t \in SUBSET D
      PROVE  g[t] = IF t = {} THEN base ELSE step[<<seq[Max(t)], g[t \ {Max(t)}]>>]
  <2>1. g[t] = IF t = {} THEN base ELSE move[<<pick[t], g[t \ {pick[t]}]>>]
    BY <1>5 DEF Folds
  <2>2. t # {} => pick[t] = Max(t) /\ pick[t] \in D /\ g[t \ {pick[t]}] \in V
    BY <1>3, <1>5
  <2> QED
    BY <1>2, <2>1, <2>2
<1>7. g = [t \in SUBSET D |-> g[t]]
  BY <1>5 DEF Folds
<1> QED
  BY <1>5, <1>6, <1>7 DEF D, FoldableSeq

LEMMA SeqFoldIn ==
    ASSUME NEW E, NEW seq \in Seq(E), NEW V, NEW f, f[{}] \in V,
           \A t \in SUBSET DOMAIN seq : t # {} /\ f[t \ {Max(t)}] \in V => f[t] \in V
    PROVE  f[DOMAIN seq] \in V
<1> DEFINE D == DOMAIN seq
           pick == [t \in SUBSET D |-> Max(t)]
<1>1. IsFiniteSet(D) /\ \A t \in SUBSET D : t # {} => Max(t) \in t
  BY LastFirst
<1>2. \A t \in SUBSET D : t # {} /\ f[t \ {Max(t)}] \in V => f[t] \in V
  OBVIOUS
<1> HIDE DEF D
<1>3. \A t \in SUBSET D : pick[t] = Max(t) /\ (t # {} => pick[t] \in t)
  BY <1>1
<1>4. \A t \in SUBSET D : t # {} /\ f[t \ {pick[t]}] \in V => f[t] \in V
  BY <1>2, <1>3
<1>5. \A t \in SUBSET D : t # {} => pick[t] \in t
  BY <1>3
<1> HIDE DEF pick
<1>6. \A t \in SUBSET D : f[t] \in V
  BY <1>1, <1>4, <1>5, FoldsAreIn
<1> QED
  BY <1>6 DEF D

-----------------------------------------------------------------------------
(* Sums over a finite set, as MapThenSumSet computes them: f[s] is the sum *)
(* of w over the subset s.                                                 *)
Some(s) == CHOOSE x \in s : TRUE
SumStep(w, f, s) == IF s = {} THEN 0 ELSE w[Some(s)] + f[s \ {Some(s)}]
Sums(f, w, S) == f = [s \in SUBSET S |-> SumStep(w, f, s)]

LEMMA SumsAreNat ==
    ASSUME NEW S, IsFiniteSet(S), NEW w \in [S -> Nat], NEW f, Sums(f, w, S)
    PROVE  (\A s \in SUBSET S : f[s] \in Nat) /\ f[{}] = 0
<1> DEFINE pick == [s \in SUBSET S |-> Some(s)]
<1>1. \A s \in SUBSET S : f[s] = SumStep(w, f, s)
  BY DEF Sums
<1>2. f[{}] = 0
  BY <1>1 DEF SumStep
<1>3. \A s \in SUBSET S : pick[s] = Some(s) /\ (s # {} => pick[s] \in s)
  BY DEF Some
<1> HIDE DEF pick
<1>4. ASSUME NEW s \in SUBSET S, s # {}, f[s \ {pick[s]}] \in Nat PROVE f[s] \in Nat
  <2>1. f[s] = w[pick[s]] + f[s \ {pick[s]}] /\ pick[s] \in S
    BY <1>1, <1>3, <1>4 DEF SumStep
  <2>2. w[pick[s]] \in Nat
    BY <2>1
  <2> QED
    BY <1>4, <2>1, <2>2
<1>5. \A s \in SUBSET S : f[s] \in Nat
  <2> DEFINE N == Nat
  <2>1. \A s \in SUBSET S : s # {} => pick[s] \in s
    BY <1>3
  <2>2. f[{}] \in N /\ \A s \in SUBSET S : s # {} /\ f[s \ {pick[s]}] \in N => f[s] \in N
    BY <1>2, <1>4
  <2> HIDE DEF N
  <2>3. \A s \in SUBSET S : f[s] \in N
    BY <2>1, <2>2, FoldsAreIn
  <2> QED
    BY <2>3 DEF N
<1> QED
  BY <1>2, <1>5

LEMMA SumOfOne ==
    ASSUME NEW S, IsFiniteSet(S), NEW w \in [S -> Nat], NEW f, Sums(f, w, S), NEW x \in S, S = {x}
    PROVE  f[S] = w[x]
<1>1. S \in SUBSET S /\ S # {} /\ Some(S) = x /\ S \ {x} = {}
  BY DEF Some
<1>2. f[S] = w[x] + f[{}]
  BY <1>1 DEF Sums, SumStep
<1>3. f[{}] = 0 /\ w[x] \in Nat
  BY SumsAreNat
<1> QED
  BY <1>2, <1>3

LEMMA SumsExist ==
    ASSUME NEW S, IsFiniteSet(S), NEW w \in [S -> Nat]
    PROVE  \E f : Sums(f, w, S)
<1> DEFINE step == [x \in S \X Nat |-> w[x[1]] + x[2]]
           pick == [s \in SUBSET S |-> Some(s)]
<1>1. step \in [S \X Nat -> Nat] /\ \A s \in SUBSET S : pick[s] = Some(s) /\ (s # {} => pick[s] \in s)
  BY DEF Some
<1>2. \A x \in S, n \in Nat : step[<<x, n>>] = w[x] + n
  OBVIOUS
<1> HIDE DEF step, pick
<1>3. PICK f : Folds(f, 0, step, pick, S) /\ \A s \in SUBSET S : f[s] \in Nat
  <2> DEFINE N == Nat
  <2>1. \A s \in SUBSET S : s # {} => pick[s] \in s
    BY <1>1
  <2>2. step \in [S \X N -> N]
    BY <1>1
  <2> DEFINE base == 0
  <2>3. base \in N
    OBVIOUS
  <2> HIDE DEF N, base
  <2>4. Foldable(base, step, pick, S, N)
    BY <2>1, <2>2, <2>3, FoldsExist
  <2> QED
    BY <2>4 DEF N, base, Foldable
<1>4. ASSUME NEW s \in SUBSET S, s # {} PROVE step[<<pick[s], f[s \ {pick[s]}]>>] = SumStep(w, f, s)
  <2>1. pick[s] \in S /\ s \ {pick[s]} \in SUBSET S /\ pick[s] = Some(s)
    BY <1>1, <1>4
  <2> QED
    BY <1>2, <1>3, <1>4, <2>1 DEF SumStep
<1>5. \A s \in SUBSET S : f[s] = SumStep(w, f, s)
  BY <1>3, <1>4 DEF SumStep, Folds
<1>6. f = [s \in SUBSET S |-> SumStep(w, f, s)]
  BY <1>3, <1>5 DEF Folds
<1> QED
  BY <1>6 DEF Sums

-----------------------------------------------------------------------------
(* Walks: R is a set of steps <<x, e, y>> from x to y in V, and s leads    *)
(* from a to b if each element of s labels one step on the way.            *)
Way(f, a, s, b, V, R) ==
    /\ f \in [0 .. Len(s) -> V] /\ f[0] = a /\ f[Len(s)] = b
    /\ \A i \in 1 .. Len(s) : <<f[i - 1], s[i], f[i]>> \in R
Walk(a, s, b, V, R) == \E f : Way(f, a, s, b, V, R)

LEMMA NoWalk ==
    ASSUME NEW V, NEW R, NEW a \in V, NEW b
    PROVE  Walk(a, <<>>, b, V, R) <=> a = b
<1> DEFINE f == [i \in 0 .. 0 |-> a]
<1>1. Len(<<>>) = 0
  OBVIOUS
<1>2. Way(f, a, <<>>, a, V, R)
  BY <1>1 DEF Way
<1> HIDE DEF f
<1>3. Walk(a, <<>>, b, V, R) => a = b
  BY <1>1 DEF Way, Walk
<1> QED
  BY <1>2, <1>3 DEF Walk

LEMMA OneStep ==
    ASSUME NEW V, NEW R, NEW E, NEW e \in E, NEW a \in V, NEW b \in V, <<a, e, b>> \in R
    PROVE  Walk(a, <<e>>, b, V, R)
<1> DEFINE s == <<e>>
           f == [i \in 0 .. 1 |-> IF i = 0 THEN a ELSE b]
<1>1. s[1] = e /\ Len(s) = 1 /\ f \in [0 .. 1 -> V] /\ f[0] = a /\ f[1] = b
  OBVIOUS
<1> HIDE DEF s, f
<1>2. \A i \in 1 .. 1 : i = 1 /\ i - 1 = 0
  OBVIOUS
<1>3. Way(f, a, s, b, V, R)
  BY <1>1, <1>2 DEF Way
<1> QED
  BY <1>3 DEF Walk, s

LEMMA WalkOn ==
    ASSUME NEW V, NEW R, NEW E, NEW s \in Seq(E), NEW t \in Seq(E), NEW a, NEW b, NEW c,
           Walk(a, s, b, V, R), Walk(b, t, c, V, R)
    PROVE  Walk(a, s \o t, c, V, R)
<1>1. PICK f, g : Way(f, a, s, b, V, R) /\ Way(g, b, t, c, V, R)
  BY DEF Walk
<1> DEFINE m == Len(s)
           n == Len(t)
           u == s \o t
           h == [i \in 0 .. m + n |-> IF i <= m THEN f[i] ELSE g[i - m]]
<1>2. /\ m \in Nat /\ n \in Nat /\ Len(u) = m + n
      /\ (\A i \in 1 .. m : u[i] = s[i]) /\ \A i \in 1 .. n : u[m + i] = t[i]
  <2>1. u \in Seq(E) /\ Len(u) = m + n /\ \A i \in 1 .. m + n : u[i] = IF i <= m THEN s[i] ELSE t[i - m]
    BY ConcatProperties
  <2>2. m \in Nat /\ n \in Nat
    OBVIOUS
  <2> HIDE DEF m, n, u
  <2> QED
    BY <2>1, <2>2
<1>3. /\ f \in [0 .. m -> V] /\ f[0] = a /\ f[m] = b /\ \A i \in 1 .. m : <<f[i - 1], s[i], f[i]>> \in R
      /\ g \in [0 .. n -> V] /\ g[0] = b /\ g[n] = c /\ \A i \in 1 .. n : <<g[i - 1], t[i], g[i]>> \in R
  BY <1>1 DEF Way
<1> HIDE DEF m, n, u
<1>4. /\ h \in [0 .. m + n -> V] /\ (\A i \in 0 .. m : h[i] = f[i]) /\ \A j \in 0 .. n : h[m + j] = g[j]
  <2>1. ASSUME NEW i \in 0 .. m + n PROVE h[i] \in V
    <3>1. i > m => i - m \in 0 .. n
      BY <1>2
    <3> QED
      BY <1>2, <1>3, <3>1
  <2>2. \A i \in 0 .. m : h[i] = f[i]
    BY <1>2
  <2>3. ASSUME NEW j \in 0 .. n PROVE h[m + j] = g[j]
    <3>1. m + j \in 0 .. m + n /\ (m + j) - m = j /\ (m + j <= m <=> j = 0)
      BY <1>2
    <3> QED
      BY <1>2, <1>3, <3>1
  <2> QED
    BY <2>1, <2>2, <2>3
<1> HIDE DEF h
<1>5. ASSUME NEW i \in 1 .. m + n PROVE <<h[i - 1], u[i], h[i]>> \in R
  <2>1. CASE i \in 1 .. m
    <3>1. i - 1 \in 0 .. m /\ i \in 0 .. m
      BY <1>2, <2>1
    <3> QED
      BY <1>2, <1>3, <1>4, <2>1, <3>1
  <2>2. CASE i \notin 1 .. m
    <3> DEFINE j == i - m
    <3>1. j \in 1 .. n /\ j - 1 \in 0 .. n /\ j \in 0 .. n /\ i = m + j /\ i - 1 = m + (j - 1)
      BY <1>2, <2>2
    <3> HIDE DEF j
    <3>2. h[i - 1] = g[j - 1] /\ h[i] = g[j] /\ u[i] = t[j]
      BY <1>2, <1>4, <3>1
    <3> QED
      BY <1>3, <3>1, <3>2
  <2> QED
    BY <2>1, <2>2
<1>6. h[0] = a /\ h[m + n] = c
  BY <1>2, <1>3, <1>4
<1>7. Way(h, a, u, c, V, R)
  BY <1>2, <1>4, <1>5, <1>6 DEF Way
<1> QED
  BY <1>7 DEF Walk, u

\* One more step.
LEMMA WalkAppend ==
    ASSUME NEW V, NEW R, NEW E, NEW s \in Seq(E), NEW e \in E, NEW a, NEW b, NEW c \in V,
           Walk(a, s, b, V, R), b \in V, <<b, e, c>> \in R
    PROVE  Walk(a, Append(s, e), c, V, R)
<1>1. Walk(b, <<e>>, c, V, R)
  BY OneStep
<1>2. <<e>> \in Seq(E) /\ Append(s, e) = s \o <<e>>
  OBVIOUS
<1> QED
  BY <1>1, <1>2, WalkOn

LEMMA WalkFirst ==
    ASSUME NEW V, NEW R, NEW E, NEW s \in Seq(E), s # <<>>, NEW a, NEW c, Walk(a, s, c, V, R)
    PROVE  \E b \in V : <<a, Head(s), b>> \in R /\ Walk(b, Tail(s), c, V, R)
<1>1. PICK f : Way(f, a, s, c, V, R)
  BY DEF Walk
<1> DEFINE n == Len(s)
           t == Tail(s)
           g == [i \in 0 .. n - 1 |-> f[i + 1]]
<1>2. /\ n \in Nat /\ n # 0 /\ Len(t) = n - 1 /\ Head(s) = s[1] /\ \A i \in 1 .. n - 1 : t[i] = s[i + 1]
  BY HeadTailProperties
<1>3. /\ f \in [0 .. n -> V] /\ f[0] = a /\ f[n] = c /\ \A i \in 1 .. n : <<f[i - 1], s[i], f[i]>> \in R
  BY <1>1 DEF Way
<1> HIDE DEF n, t
<1>4. <<a, Head(s), f[1]>> \in R /\ f[1] \in V
  <2>1. 1 \in 1 .. n /\ 1 \in 0 .. n /\ 1 - 1 = 0
    BY <1>2
  <2> QED
    BY <1>2, <1>3, <2>1
<1>5. g \in [0 .. n - 1 -> V] /\ g[0] = f[1] /\ g[n - 1] = c
  BY <1>2, <1>3
<1>6. ASSUME NEW i \in 1 .. n - 1 PROVE <<g[i - 1], t[i], g[i]>> \in R
  <2>1. i + 1 \in 1 .. n /\ (i + 1) - 1 = i /\ i - 1 \in 0 .. n - 1 /\ i \in 0 .. n - 1 /\ (i - 1) + 1 = i
    BY <1>2
  <2>2. <<f[i], s[i + 1], f[i + 1]>> \in R
    BY <1>3, <2>1
  <2>3. g[i - 1] = f[i] /\ g[i] = f[i + 1]
    BY <2>1
  <2> QED
    BY <1>2, <2>2, <2>3
<1> HIDE DEF g
<1>7. Way(g, f[1], t, c, V, R)
  BY <1>2, <1>5, <1>6 DEF Way
<1> QED
  BY <1>4, <1>7 DEF Walk, t

\* A walk whose steps go nowhere.
LEMMA WalkStill ==
    ASSUME NEW V, NEW R, NEW E, NEW s \in Seq(E), NEW a, NEW b, Walk(a, s, b, V, R),
           \A i \in 1 .. Len(s) : \A x, y \in V : <<x, s[i], y>> \in R => x = y
    PROVE  a = b
<1>1. PICK f : Way(f, a, s, b, V, R)
  BY DEF Walk
<1> DEFINE n == Len(s)
           D == {i \in 0 .. n : f[i] = a}
<1>2. n \in Nat
  OBVIOUS
<1>3. 0 \in D
  BY <1>1, <1>2 DEF Way
<1>4. ASSUME NEW i \in 0 .. n - 1, i \in D PROVE i + 1 \in D
  <2>1. i + 1 \in 1 .. n /\ i + 1 \in 0 .. n /\ (i + 1) - 1 = i
    BY <1>2
  <2>2. f[i] \in V /\ f[i + 1] \in V /\ <<f[i], s[i + 1], f[i + 1]>> \in R
    BY <1>1, <1>2, <2>1 DEF Way
  <2> QED
    BY <1>4, <2>1, <2>2
<1>5. f[n] = b
  BY <1>1 DEF Way
<1> HIDE DEF D, n
<1>6. 0 .. n \subseteq D
  <2>1. 0 \in Int /\ n \in Int
    BY <1>2
  <2> QED
    BY <1>3, <1>4, <2>1, IntervalInduction
<1> QED
  BY <1>2, <1>5, <1>6 DEF D
=============================================================================
