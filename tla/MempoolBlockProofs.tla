------------------------- MODULE MempoolBlockProofs -------------------------
(***************************************************************************)
(* Proofs about the transactions of the blocks, for any accounts,          *)
(* transactions, handlers and block size, and any number of crashes and    *)
(* reverted blocks: no transaction is in two places; a proposed block      *)
(* fits; what was reverted keeps its place; the accounts that the mempool  *)
(* knows are those that are committed; the mempool implements Ledger.tla.  *)
(***************************************************************************)
EXTENDS MempoolProofs

-----------------------------------------------------------------------------
(* Sequences without repetition, as the queues cut, join and sort them.    *)
LEMMA OnceCut ==
    ASSUME NEW s, IsSeq(s), Once(s), NEW k \in 0..Len(s)
    PROVE  /\ IsSeq(Take(s, k)) /\ IsSeq(Drop(s, k))
           /\ Once(Take(s, k)) /\ Once(Drop(s, k))
           /\ ToSet(Take(s, k)) \cap ToSet(Drop(s, k)) = {}
           /\ ToSet(s) = ToSet(Take(s, k)) \cup ToSet(Drop(s, k))
<1>1. /\ IsSeq(Take(s, k)) /\ IsSeq(Drop(s, k))
      /\ ToSet(s) = ToSet(Take(s, k)) \cup ToSet(Drop(s, k))
      /\ Len(Take(s, k)) = k /\ Len(Drop(s, k)) = Len(s) - k
      /\ \A i \in 1..k : Take(s, k)[i] = s[i]
      /\ \A i \in 1..Len(s) - k : Drop(s, k)[i] = s[k + i]
  BY CutInTwo
<1>2. /\ Len(s) \in Nat /\ DOMAIN s = 1..Len(s) /\ k \in Nat /\ k <= Len(s)
      /\ DOMAIN Take(s, k) = 1..k /\ DOMAIN Drop(s, k) = 1..Len(s) - k
  BY <1>1, Shape
<1>3. \A i \in 1..k : i \in DOMAIN s
  BY <1>2
<1>4. \A i \in 1..Len(s) - k : k + i \in DOMAIN s /\ i \in Int
  BY <1>2
<1>5. Once(Take(s, k))
  BY <1>1, <1>2, <1>3 DEF Once
<1>6. Once(Drop(s, k))
  BY OnceInDrop
<1>7. ASSUME NEW i \in 1..k, NEW j \in 1..Len(s) - k PROVE Take(s, k)[i] # Drop(s, k)[j]
  <2>1. i # k + j
    BY <1>2
  <2> QED
    BY <1>1, <1>3, <1>4, <2>1 DEF Once
<1>8. ToSet(Take(s, k)) \cap ToSet(Drop(s, k)) = {}
  BY <1>2, <1>7 DEF ToSet
<1> QED
  BY <1>1, <1>5, <1>6, <1>8

LEMMA OnceParts ==
    ASSUME NEW s, IsSeq(s), NEW t, IsSeq(t), Once(s \o t)
    PROVE  Once(s) /\ Once(t) /\ ToSet(s) \cap ToSet(t) = {}
<1>1. /\ IsSeq(s \o t) /\ Len(s \o t) = Len(s) + Len(t)
      /\ \A i \in 1..Len(s) : (s \o t)[i] = s[i]
      /\ \A i \in 1..Len(t) : (s \o t)[Len(s) + i] = t[i]
  BY Joined
<1>2. /\ Len(s) \in Nat /\ DOMAIN s = 1..Len(s)
      /\ Len(t) \in Nat /\ DOMAIN t = 1..Len(t)
      /\ DOMAIN (s \o t) = 1..Len(s) + Len(t)
  BY <1>1, Shape
<1>3. \A i \in 1..Len(s) : i \in DOMAIN (s \o t)
  BY <1>2
<1>4. \A i \in 1..Len(t) : Len(s) + i \in DOMAIN (s \o t)
  BY <1>2
<1>5. Once(s)
  BY <1>1, <1>2, <1>3 DEF Once
<1>6. ASSUME NEW i \in 1..Len(t), NEW j \in 1..Len(t), t[i] = t[j] PROVE i = j
  <2>1. Len(s) + i = Len(s) + j
    BY <1>1, <1>4, <1>6 DEF Once
  <2> QED
    BY <1>2, <2>1
<1>7. ASSUME NEW i \in 1..Len(s), NEW j \in 1..Len(t) PROVE s[i] # t[j]
  <2>1. i # Len(s) + j
    BY <1>2
  <2> QED
    BY <1>1, <1>3, <1>4, <2>1 DEF Once
<1>8. ToSet(s) \cap ToSet(t) = {}
  BY <1>2, <1>7 DEF ToSet
<1> QED
  BY <1>2, <1>5, <1>6, <1>8 DEF Once

\* A list of all elements of a set that is as long as the set repeats none.
LEMMA ListedOnce ==
    ASSUME NEW S, IsFiniteSet(S), NEW e \in [1..Cardinality(S) -> S], ToSet(e) = S
    PROVE  Once(e)
<1> DEFINE n == Cardinality(S)
           I == 1..n
<1>1. n \in Nat
  BY FS_CardinalityType
<1>2. IsFiniteSet(I) /\ Cardinality(I) = n
  <2>1. 1 \in Int /\ n \in Int
    BY <1>1
  <2>2. IsFiniteSet(1..n) /\ Cardinality(1..n) = IF 1 > n THEN 0 ELSE n - 1 + 1
    BY <2>1, FS_Interval
  <2> QED
    BY <1>1, <2>2
<1>3. e \in Surjection(I, S)
  <2>1. \A x \in S : \E i \in I : e[i] = x
    BY DEF ToSet
  <2> QED
    BY <2>1 DEF Surjection
<1> HIDE DEF I
<1>4. e \in Injection(I, S)
  BY <1>2, <1>3, FS_SurjSameCardinalityImpliesInj
<1> QED
  BY <1>4 DEF Injection, IsInjective, Once, I

\* The transactions of reverted ones.
TxList(s) == [i \in DOMAIN s |-> s[i].tx]

LEMMA TxListed ==
    ASSUME NEW s \in Seq(RevertedTx)
    PROVE  /\ TxList(s) \in Seq(Variant) /\ IsSeq(TxList(s)) /\ Len(TxList(s)) = Len(s)
           /\ ToSet(TxList(s)) = RevertedIn(s)
           /\ \A i \in 1..Len(s) : TxList(s)[i] = s[i].tx
<1>1. Len(s) \in Nat /\ DOMAIN s = 1..Len(s)
  OBVIOUS
<1>2. \A i \in 1..Len(s) : s[i] \in RevertedTx
  BY <1>1, ElementOfSeq
<1>3. \A i \in 1..Len(s) : s[i].tx \in Variant
  BY <1>2 DEF RevertedTx
<1>4. TxList(s) = [i \in 1..Len(s) |-> s[i].tx]
  BY <1>1 DEF TxList
<1>5. TxList(s) \in Seq(Variant) /\ Len(TxList(s)) = Len(s)
  BY <1>1, <1>3, <1>4
<1>6. ToSet(TxList(s)) = RevertedIn(s)
  BY <1>1, <1>4 DEF ToSet, RevertedIn
<1> QED
  BY <1>4, <1>5, <1>6, SeqOver

LEMMA AsFunction ==
    ASSUME NEW s, IsSeq(s), NEW n, Len(s) = n
    PROVE  s = [i \in 1..n |-> s[i]]
<1> DEFINE S == ToSet(s)
<1>1. s \in Seq(S)
  BY DEF IsSeq
<1> HIDE DEF S
<1> QED
  BY <1>1

LEMMA TxListCut ==
    ASSUME NEW s \in Seq(RevertedTx), NEW r \in 0..Len(s)
    PROVE  /\ [i \in 1..r |-> s[i].tx] = Take(TxList(s), r)
           /\ TxList(Drop(s, r)) = Drop(TxList(s), r)
<1>1. IsSeq(s) /\ Len(s) \in Nat /\ r \in Nat /\ r <= Len(s)
  BY ElementsIn
<1>2. IsSeq(TxList(s)) /\ Len(TxList(s)) = Len(s) /\ \A i \in 1..Len(s) : TxList(s)[i] = s[i].tx
  BY TxListed
<1> DEFINE d == Drop(s, r)
           u == Take(TxList(s), r)
           v == Drop(TxList(s), r)
<1>3. d \in Seq(RevertedTx)
  BY PartsIn
<1>4. /\ Len(d) = Len(s) - r /\ \A i \in 1..Len(s) - r : d[i] = s[r + i]
  BY <1>1, CutInTwo
<1>5. /\ IsSeq(u) /\ IsSeq(v) /\ Len(u) = r /\ Len(v) = Len(s) - r
      /\ \A i \in 1..r : u[i] = TxList(s)[i]
      /\ \A i \in 1..Len(s) - r : v[i] = TxList(s)[r + i]
  BY <1>2, CutInTwo
<1> DEFINE t == TxList(d)
<1> HIDE DEF u, v
<1>6. u = [i \in 1..r |-> u[i]] /\ v = [i \in 1..Len(s) - r |-> v[i]]
  BY <1>5, AsFunction
<1>7. /\ Len(TxList(d)) = Len(s) - r /\ IsSeq(TxList(d))
      /\ \A i \in 1..Len(s) - r : TxList(d)[i] = d[i].tx
  BY <1>3, <1>4, TxListed
<1> HIDE DEF d, t
<1>8. t = [i \in 1..Len(s) - r |-> t[i]]
  BY <1>7, AsFunction DEF t
<1>9. \A i \in 1..r : i \in 1..Len(s)
  BY <1>1
<1>10. \A i \in 1..Len(s) - r : r + i \in 1..Len(s)
  BY <1>1
<1>11. u = [i \in 1..r |-> s[i].tx]
  BY <1>2, <1>5, <1>6, <1>9
<1>12. v = t
  <2>1. ASSUME NEW i \in 1..Len(s) - r PROVE v[i] = t[i]
    <3>1. v[i] = TxList(s)[r + i] /\ r + i \in 1..Len(s)
      BY <1>5, <1>10
    <3>2. TxList(s)[r + i] = s[r + i].tx
      BY <1>2, <3>1
    <3>3. t[i] = d[i].tx /\ d[i] = s[r + i]
      BY <1>4, <1>7 DEF t
    <3> QED
      BY <3>1, <3>2, <3>3
  <2> QED
    BY <1>6, <1>8, <2>1
<1> QED
  BY <1>11, <1>12 DEF d, t, u, v

LEMMA TxListShape ==
    ASSUME NEW s, IsSeq(s)
    PROVE  /\ IsSeq(TxList(s)) /\ Len(TxList(s)) = Len(s)
           /\ \A i \in 1..Len(s) : TxList(s)[i] = s[i].tx
<1> DEFINE n == Len(s)
           T == {x.tx : x \in ToSet(s)}
<1>1. n \in Nat /\ DOMAIN s = 1..n
  BY Shape
<1>2. TxList(s) = [i \in 1..n |-> s[i].tx] /\ \A i \in 1..n : s[i].tx \in T
  BY <1>1 DEF TxList, ToSet
<1> HIDE DEF n, T
<1>3. TxList(s) \in Seq(T) /\ Len(TxList(s)) = n
  BY <1>1, <1>2
<1> QED
  BY <1>2, <1>3, SeqOver DEF n

Joins(u, s, t) ==
    /\ Len(u) = Len(s) + Len(t)
    /\ \A i \in 1..Len(s) : u[i] = s[i]
    /\ \A i \in 1..Len(t) : u[Len(s) + i] = t[i]

LEMMA SameJoin ==
    ASSUME NEW s, IsSeq(s), NEW t, IsSeq(t), NEW u, IsSeq(u), Joins(u, s, t)
    PROVE  u = s \o t
<1> DEFINE v == s \o t
           m == Len(s)
           n == Len(t)
<1>1. /\ IsSeq(v) /\ Len(v) = m + n
      /\ \A i \in 1..m : v[i] = s[i]
      /\ \A i \in 1..n : v[m + i] = t[i]
  BY Joined
<1>2. m \in Nat /\ n \in Nat
  BY Shape
<1> HIDE DEF v, m, n
<1>3. /\ Len(u) = m + n /\ \A i \in 1..m : u[i] = s[i]
      /\ \A i \in 1..n : u[m + i] = t[i]
  BY DEF m, n, Joins
<1>4. \A i \in 1..m + n : u[i] = v[i]
  <2> TAKE i \in 1..m + n
  <2>1. CASE i \in 1..m
    BY <1>1, <1>3, <2>1
  <2>2. CASE i \notin 1..m
    <3> DEFINE j == i - m
    <3>1. j \in 1..n /\ i = m + j
      BY <1>2, <2>2
    <3> HIDE DEF j
    <3> QED
      BY <1>1, <1>3, <3>1
  <2> QED
    BY <2>1, <2>2
<1>5. u = [i \in 1..m + n |-> u[i]] /\ v = [i \in 1..m + n |-> v[i]]
  BY <1>1, <1>3, AsFunction
<1>6. u = v
  BY <1>4, <1>5
<1> QED
  BY <1>6 DEF v

LEMMA TxListJoin ==
    ASSUME NEW s, IsSeq(s), NEW t, IsSeq(t)
    PROVE  TxList(s \o t) = TxList(s) \o TxList(t)
<1> DEFINE w == s \o t
           m == Len(s)
           n == Len(t)
<1>1. /\ IsSeq(w) /\ Len(w) = m + n
      /\ \A i \in 1..m : w[i] = s[i]
      /\ \A i \in 1..n : w[m + i] = t[i]
  BY Joined
<1>2. m \in Nat /\ n \in Nat
  BY Shape
<1>3. /\ IsSeq(TxList(s)) /\ Len(TxList(s)) = m /\ \A i \in 1..m : TxList(s)[i] = s[i].tx
      /\ IsSeq(TxList(t)) /\ Len(TxList(t)) = n /\ \A i \in 1..n : TxList(t)[i] = t[i].tx
  BY TxListShape
<1> HIDE DEF w
<1>4. IsSeq(TxList(w)) /\ Len(TxList(w)) = m + n /\ \A i \in 1..m + n : TxList(w)[i] = w[i].tx
  BY <1>1, TxListShape
<1> HIDE DEF m, n
<1>5. (\A i \in 1..m : i \in 1..m + n) /\ \A i \in 1..n : m + i \in 1..m + n
  BY <1>2
<1>6. /\ \A i \in 1..m : TxList(w)[i] = TxList(s)[i]
      /\ \A i \in 1..n : TxList(w)[m + i] = TxList(t)[i]
  BY <1>1, <1>3, <1>4, <1>5
<1> DEFINE p == TxList(s)
           q == TxList(t)
           u == TxList(w)
<1>7. IsSeq(p) /\ m = Len(p) /\ IsSeq(q) /\ n = Len(q) /\ IsSeq(u) /\ Len(u) = m + n
  BY <1>3, <1>4
<1>8. (\A i \in 1..m : u[i] = p[i]) /\ \A i \in 1..n : u[m + i] = q[i]
  BY <1>6
<1> HIDE DEF p, q, u
<1>9. u = p \o q
  <2>1. Joins(u, p, q)
    BY <1>7, <1>8 DEF Joins
  <2> QED
    BY <1>7, <2>1, SameJoin
<1>10. TxList(w) = TxList(s) \o TxList(t)
  BY <1>9 DEF p, q, u
<1> QED
  BY <1>10 DEF w

LEMMA SelectedTxsOnce ==
    ASSUME NEW s \in Seq(RevertedTx), Once(TxList(s)), NEW I, I \subseteq DOMAIN s,
           NEW kept \in Selections(s, I)
    PROVE  Once(TxList(kept)) /\ RevertedIn(kept) = {s[i].tx : i \in I}
<1>1. PICK p \in Ascending(I) : kept = [j \in DOMAIN p |-> s[p[j]]]
  BY DEF Selections
<1>2. IsFiniteSet(I)
  <2>1. Len(s) \in Nat /\ I \subseteq 1..Len(s)
    OBVIOUS
  <2> QED
    BY <2>1, FS_Interval, FS_Subset
<1>3. p \in [1..Cardinality(I) -> I] /\ ToSet(p) = I
  BY <1>1 DEF Ascending, Enumerations
<1>4. Once(p)
  BY <1>2, <1>3, ListedOnce
<1>5. DOMAIN kept = DOMAIN p /\ \A j \in DOMAIN p : kept[j] = s[p[j]] /\ p[j] \in I
  BY <1>1, <1>3
<1>6. \A j \in DOMAIN p : TxList(kept)[j] = TxList(s)[p[j]] /\ p[j] \in DOMAIN TxList(s)
  BY <1>5 DEF TxList
<1>7. DOMAIN TxList(kept) = DOMAIN p
  BY <1>5 DEF TxList
<1>8. Once(TxList(kept))
  BY <1>4, <1>6, <1>7 DEF Once
<1>9. \A i \in I : \E j \in DOMAIN p : i = p[j]
  BY <1>3 DEF ToSet
<1>10. RevertedIn(kept) = {s[i].tx : i \in I}
  BY <1>5, <1>9 DEF RevertedIn
<1> QED
  BY <1>8, <1>10

-----------------------------------------------------------------------------
(* The transactions of a sequence of blocks.                               *)
TxsListOf(blocks) == [i \in DOMAIN blocks |-> blocks[i].txs]

LEMMA TxsListIs ==
    ASSUME NEW V, \A b \in V : b.txs \in Seq(Variant), NEW blocks \in Seq(V)
    PROVE  /\ TxsListOf(blocks) \in Seq(Seq(Variant)) /\ Len(TxsListOf(blocks)) = Len(blocks)
           /\ \A i \in 1..Len(blocks) : TxsListOf(blocks)[i] = blocks[i].txs
           /\ Len(blocks) \in Nat /\ DOMAIN blocks = 1..Len(blocks)
<1>1. Len(blocks) \in Nat /\ DOMAIN blocks = 1..Len(blocks) /\ \A i \in 1..Len(blocks) : blocks[i] \in V
  OBVIOUS
<1> QED
  BY <1>1 DEF TxsListOf

LEMMA TxsAre ==
    ASSUME NEW V, \A b \in V : b.txs \in Seq(Variant), NEW blocks \in Seq(V)
    PROVE  /\ TxsOfBlocks(blocks) \in Seq(Variant) /\ IsSeq(TxsOfBlocks(blocks))
           /\ ToSet(TxsOfBlocks(blocks)) = TxsIn(blocks)
           /\ blocks = <<>> => TxsOfBlocks(blocks) = <<>>
<1> DEFINE s == TxsListOf(blocks)
           n == Len(blocks)
<1>1. /\ s \in Seq(Seq(Variant)) /\ Len(s) = n /\ n \in Nat /\ DOMAIN blocks = 1..n
      /\ \A i \in 1..n : s[i] = blocks[i].txs
  BY TxsListIs
<1>2. TxsOfBlocks(blocks) = FlattenSeq(s)
  BY DEF TxsOfBlocks, TxsListOf
<1> HIDE DEF s
<1>3. PICK f : Flattening(f, s, Variant)
  BY <1>1, FlatteningExists
<1>4. FlattenSeq(s) = f[n] /\ FlattenSeq(s) \in Seq(Variant)
  BY <1>1, <1>3, FlattensTo
<1>5. /\ f[0] = <<>>
      /\ \A k \in 0..n - 1 : f[k + 1] = f[k] \o s[k + 1]
      /\ \A k \in 0..n : f[k] \in Seq(Variant)
  <2>1. \A k \in 0..n - 1 : k + 1 \in 1..n /\ k + 1 - 1 = k
    BY <1>1
  <2> QED
    BY <1>1, <1>3, <2>1 DEF Flattening
<1> DEFINE G == {k \in 0..n : ToSet(f[k]) = UNION {ToSet(s[i]) : i \in 1..k}}
<1>6. 0 \in G
  BY <1>1, <1>5, NoElements
<1>7. ASSUME NEW k \in 0..n - 1, k \in G PROVE k + 1 \in G
  <2>1. k \in 0..n /\ k + 1 \in 1..n /\ k + 1 \in 0..n /\ k \in Nat
    BY <1>1
  <2>2. IsSeq(f[k]) /\ IsSeq(s[k + 1])
    <3>1. f[k] \in Seq(Variant) /\ s[k + 1] \in Seq(Variant)
      BY <1>1, <1>5, <2>1
    <3> QED
      BY <3>1, SeqOver
  <2>3. ToSet(f[k + 1]) = ToSet(f[k]) \cup ToSet(s[k + 1])
    <3>1. f[k + 1] = f[k] \o s[k + 1]
      BY <1>5
    <3>2. ToSet(f[k] \o s[k + 1]) = ToSet(f[k]) \cup ToSet(s[k + 1])
      BY <2>2, Joined
    <3> QED
      BY <3>1, <3>2
  <2>4. 1..k + 1 = 1..k \cup {k + 1}
    BY <2>1
  <2> QED
    BY <1>7, <2>1, <2>3, <2>4
<1> HIDE DEF G
<1>8. 0..n \subseteq G
  <2>1. 0 \in Int /\ n \in Int
    BY <1>1
  <2> HIDE DEF n
  <2> QED
    BY <1>6, <1>7, <2>1, IntervalInduction
<1>9. ToSet(f[n]) = UNION {ToSet(s[i]) : i \in 1..n}
  <2>1. n \in G
    BY <1>1, <1>8
  <2> QED
    BY <2>1 DEF G
<1>10. UNION {ToSet(s[i]) : i \in 1..n} = TxsIn(blocks)
  BY <1>1 DEF TxsIn
<1>11. blocks = <<>> => n = 0
  OBVIOUS
<1> QED
  BY <1>2, <1>4, <1>5, <1>9, <1>10, <1>11, SeqOver

LEMMA TxsAppended ==
    ASSUME NEW V, \A b \in V : b.txs \in Seq(Variant), NEW blocks \in Seq(V), NEW b \in V
    PROVE  TxsOfBlocks(Append(blocks, b)) = TxsOfBlocks(blocks) \o b.txs
<1> DEFINE s == TxsListOf(blocks)
           t == TxsListOf(Append(blocks, b))
           n == Len(blocks)
<1>1. s \in Seq(Seq(Variant)) /\ Len(s) = n /\ n \in Nat /\ \A i \in 1..n : s[i] = blocks[i].txs
  BY TxsListIs
<1>2. Append(blocks, b) \in Seq(V) /\ Len(Append(blocks, b)) = n + 1
      /\ (\A i \in 1..n : Append(blocks, b)[i] = blocks[i]) /\ Append(blocks, b)[n + 1] = b
  OBVIOUS
<1>3. t \in Seq(Seq(Variant)) /\ Len(t) = n + 1 /\ \A i \in 1..n + 1 : t[i] = Append(blocks, b)[i].txs
  BY <1>2, TxsListIs
<1>4. TxsOfBlocks(blocks) = FlattenSeq(s) /\ TxsOfBlocks(Append(blocks, b)) = FlattenSeq(t)
  BY DEF TxsOfBlocks, TxsListOf
<1> HIDE DEF s, t
<1>5. b.txs \in Seq(Variant)
  OBVIOUS
<1>6. t = Append(s, b.txs)
  <2> DEFINE u == Append(s, b.txs)
  <2>1. u \in Seq(Seq(Variant)) /\ Len(u) = n + 1 /\ u[n + 1] = b.txs /\ \A i \in 1..n : u[i] = s[i]
    BY <1>1, <1>5
  <2> HIDE DEF u
  <2>2. \A i \in 1..n + 1 : i \in 1..n \/ i = n + 1
    BY <1>1
  <2>3. \A i \in 1..n : i \in 1..n + 1
    BY <1>1
  <2>4. n + 1 \in 1..n + 1
    BY <1>1
  <2>5. \A i \in 1..n + 1 : t[i] = u[i]
    BY <1>1, <1>2, <1>3, <2>1, <2>2, <2>3, <2>4
  <2>6. t = [i \in 1..n + 1 |-> t[i]] /\ u = [i \in 1..n + 1 |-> u[i]]
    BY <1>3, <2>1
  <2> QED
    BY <2>5, <2>6 DEF u
<1> QED
  BY <1>1, <1>4, <1>5, <1>6, FlattenAppend

LEMMA TxsOfTail ==
    ASSUME NEW V, \A b \in V : b.txs \in Seq(Variant), NEW blocks \in Seq(V), blocks # <<>>
    PROVE  TxsOfBlocks(blocks) = Head(blocks).txs \o TxsOfBlocks(Tail(blocks))
<1> DEFINE s == TxsListOf(blocks)
           t == TxsListOf(Tail(blocks))
           n == Len(blocks)
<1>1. s \in Seq(Seq(Variant)) /\ Len(s) = n /\ n \in Nat /\ n # 0 /\ \A i \in 1..n : s[i] = blocks[i].txs
  BY TxsListIs
<1>2. Tail(blocks) \in Seq(V) /\ Len(Tail(blocks)) = n - 1
      /\ (\A i \in 1..n - 1 : Tail(blocks)[i] = blocks[i + 1]) /\ Head(blocks) = blocks[1]
  BY HeadTailProperties
<1>3. t \in Seq(Seq(Variant)) /\ Len(t) = n - 1 /\ \A i \in 1..n - 1 : t[i] = Tail(blocks)[i].txs
  BY <1>2, TxsListIs
<1>4. TxsOfBlocks(blocks) = FlattenSeq(s) /\ TxsOfBlocks(Tail(blocks)) = FlattenSeq(t)
  BY DEF TxsOfBlocks, TxsListOf
<1> HIDE DEF s, t
<1>5. s # <<>> /\ Head(s) = Head(blocks).txs
  BY <1>1, <1>2
<1>6. t = Tail(s)
  <2> DEFINE u == Tail(s)
  <2>1. u \in Seq(Seq(Variant)) /\ Len(u) = n - 1 /\ \A i \in 1..n - 1 : u[i] = s[i + 1]
    BY <1>1, <1>5, HeadTailProperties
  <2> HIDE DEF u
  <2>2. \A i \in 1..n - 1 : i + 1 \in 1..n
    BY <1>1
  <2>3. \A i \in 1..n - 1 : t[i] = u[i]
    BY <1>1, <1>2, <1>3, <2>1, <2>2
  <2>4. t = [i \in 1..n - 1 |-> t[i]] /\ u = [i \in 1..n - 1 |-> u[i]]
    BY <1>3, <2>1
  <2> QED
    BY <2>3, <2>4 DEF u
<1> QED
  BY <1>1, <1>4, <1>5, <1>6, FlattenTail

LEMMA TxsOfFront ==
    ASSUME NEW V, \A b \in V : b.txs \in Seq(Variant), NEW blocks \in Seq(V), blocks # <<>>
    PROVE  TxsOfBlocks(blocks) = TxsOfBlocks(Front(blocks)) \o Last(blocks).txs
<1> DEFINE n == Len(blocks)
           front == Front(blocks)
           b == Last(blocks)
           new == Append(front, b)
<1>1. n \in Nat /\ n # 0 /\ front \in Seq(V) /\ Len(front) = n - 1 /\ b = blocks[n] /\ b \in V
      /\ \A i \in 1..n - 1 : front[i] = blocks[i]
  <2>1. n \in Nat /\ n # 0 /\ Len(front) = n - 1 /\ (\A i \in 1..n - 1 : front[i] = blocks[i])
        /\ front \in Seq(V)
    <3>1. n \in Nat /\ n # 0 /\ front = SubSeq(blocks, 1, n - 1)
      BY DEF Front
    <3>2. Len(front) = n - 1 /\ (\A i \in 1..n - 1 : front[i] = blocks[i])
      <4> DEFINE k == n - 1
      <4>1. IsSeq(blocks) /\ k \in 0..Len(blocks) /\ front = Take(blocks, k)
        BY <3>1, SeqOver DEF Take
      <4> HIDE DEF k, front
      <4>2. Len(Take(blocks, k)) = k /\ \A i \in 1..k : Take(blocks, k)[i] = blocks[i]
        BY <4>1, CutInTwo
      <4> QED
        BY <4>1, <4>2 DEF k
    <3>3. front \in Seq(V)
      <4>1. n - 1 \in 0..Len(blocks)
        BY <3>1
      <4>2. Take(blocks, n - 1) \in Seq(V)
        BY <4>1, PartsIn
      <4> QED
        BY <3>1, <4>2 DEF Take
    <3> QED
      BY <3>1, <3>2, <3>3
  <2>2. b = blocks[n]
    BY DEF Last
  <2>3. n \in 1..n
    BY <2>1
  <2>4. blocks[n] \in V
    BY <2>3, ElementOfSeq
  <2> QED
    BY <2>1, <2>2, <2>4
<1> HIDE DEF front, b
<1>2. new \in Seq(V) /\ Len(new) = n /\ \A i \in 1..n : new[i] = blocks[i]
  <2>1. new \in Seq(V) /\ Len(new) = n - 1 + 1 /\ new[n - 1 + 1] = b
        /\ \A i \in 1..n - 1 : new[i] = front[i]
    <3>1. front \in Seq(V) /\ b \in V
      BY <1>1
    <3>2. new \in Seq(V) /\ Len(new) = Len(front) + 1 /\ new[Len(front) + 1] = b
          /\ \A i \in 1..Len(front) : new[i] = front[i]
      BY <3>1, AppendProperties
    <3> HIDE DEF new
    <3> QED
      BY <1>1, <3>2
  <2>2. n - 1 + 1 = n /\ \A i \in 1..n : i \in 1..n - 1 \/ i = n
    BY <1>1
  <2> HIDE DEF new
  <2> QED
    BY <1>1, <2>1, <2>2
<1>3. new = blocks
  <2> HIDE DEF new
  <2>1. new = [i \in 1..n |-> new[i]] /\ blocks = [i \in 1..n |-> blocks[i]]
    BY <1>2
  <2> QED
    BY <1>2, <2>1
<1>4. TxsOfBlocks(new) = TxsOfBlocks(front) \o b.txs
  BY <1>1, TxsAppended
<1> HIDE DEF new
<1> QED
  BY <1>3, <1>4 DEF front, b

-----------------------------------------------------------------------------
(* Where a transaction can be: pending, ready, reverted, in the proposed   *)
(* block, in an open block or in the chain.                                *)
Apart(p, q, r, s, t, u) ==
    /\ p \cap (q \cup r \cup s \cup t \cup u) = {} /\ q \cap (r \cup s \cup t \cup u) = {}
    /\ r \cap (s \cup t \cup u) = {} /\ s \cap (t \cup u) = {} /\ t \cap u = {}

PlacesOnce ==
    /\ Once(readyTxs) /\ Once(TxList(revertedTxs)) /\ Once(proposed.txs)
    /\ Once(TxsOfBlocks(keeperOpen)) /\ Once(TxsOfBlocks(dbChain)) /\ Once(TxList(dbReverted))

PlacesApart ==
    /\ Apart(pendingTxs, ToSet(readyTxs), RevertedIn(revertedTxs), ToSet(proposed.txs),
             TxsIn(keeperOpen), TxsIn(dbChain))
    /\ dbTxs \cap RevertedIn(dbReverted) = {}

\* What a handler holds is held by no other one and stored by no other one, and
\* in no queue or block until the handler adds it.
Holding == {"nonce", "size", "insert", "add"}
Elsewhere == InMemory \cup TxsIn(dbChain)
HeldBy(h, v) == handler[h].pc \in Holding /\ handler[h].variant = v

HeldApart ==
    /\ Durable \subseteq submitted
    /\ \A h \in Handler : handler[h].pc \in Holding =>
        /\ handler[h].variant \in submitted
        /\ handler[h].pc # "add" => handler[h].variant \notin Durable
        /\ handler[h].pc = "add" => handler[h].variant \in dbTxs /\ handler[h].variant \notin Elsewhere
        /\ \A g \in Handler : HeldBy(g, handler[h].variant) => g = h

OnceInv == PlacesOnce /\ PlacesApart /\ HeldApart

\* The lists of transactions have the transactions of their place.
PlacesListed ==
    /\ IsSeq(readyTxs) /\ IsSeq(proposed.txs) /\ proposed \in Block
    /\ revertedTxs \in Seq(RevertedTx) /\ dbReverted \in Seq(RevertedTx)
    /\ keeperOpen \in Seq(Block) /\ dbChain \in Seq(ChainBlock)
    /\ IsSeq(TxList(revertedTxs)) /\ ToSet(TxList(revertedTxs)) = RevertedIn(revertedTxs)
    /\ IsSeq(TxList(dbReverted)) /\ ToSet(TxList(dbReverted)) = RevertedIn(dbReverted)
    /\ IsSeq(TxsOfBlocks(keeperOpen)) /\ ToSet(TxsOfBlocks(keeperOpen)) = TxsIn(keeperOpen)
    /\ IsSeq(TxsOfBlocks(dbChain)) /\ ToSet(TxsOfBlocks(dbChain)) = TxsIn(dbChain)

LEMMA BlocksHaveTxs ==
    /\ \A b \in Block : b.txs \in Seq(Variant)
    /\ \A b \in ChainBlock : b.txs \in Seq(Variant)
BY DEF Block, ChainBlock

LEMMA PlacesAreListed == Types => PlacesListed
<1> SUFFICES ASSUME Types PROVE PlacesListed
  OBVIOUS
<1>1. /\ readyTxs \in Seq(Variant) /\ proposed \in Block
      /\ revertedTxs \in Seq(RevertedTx) /\ dbReverted \in Seq(RevertedTx)
      /\ keeperOpen \in Seq(Block) /\ dbChain \in Seq(ChainBlock)
  BY DEF Types, QueueTypes, BlockTypes, TableTypes, OuterTypes
<1>2. IsSeq(readyTxs) /\ IsSeq(proposed.txs)
  BY <1>1, BlocksHaveTxs, SeqOver
<1>3. /\ IsSeq(TxList(revertedTxs)) /\ ToSet(TxList(revertedTxs)) = RevertedIn(revertedTxs)
      /\ IsSeq(TxList(dbReverted)) /\ ToSet(TxList(dbReverted)) = RevertedIn(dbReverted)
  BY <1>1, TxListed
<1>4. IsSeq(TxsOfBlocks(keeperOpen)) /\ ToSet(TxsOfBlocks(keeperOpen)) = TxsIn(keeperOpen)
  BY <1>1, BlocksHaveTxs, TxsAre
<1>5. IsSeq(TxsOfBlocks(dbChain)) /\ ToSet(TxsOfBlocks(dbChain)) = TxsIn(dbChain)
  BY <1>1, BlocksHaveTxs, TxsAre
<1> QED
  BY <1>1, <1>2, <1>3, <1>4, <1>5 DEF PlacesListed

LEMMA OnceInit == Init => OnceInv
<1> SUFFICES ASSUME Init PROVE OnceInv
  OBVIOUS
<1>1. Once(<<>>) /\ TxList(<<>>) = <<>> /\ DOMAIN <<>> = {}
  BY DEF Once, TxList
<1>2. TxsOfBlocks(<<>>) = <<>>
  <2>1. <<>> \in Seq(Block)
    OBVIOUS
  <2> QED
    BY <2>1, BlocksHaveTxs, TxsAre
<1>3. PlacesOnce
  BY <1>1, <1>2 DEF Init, PlacesOnce, NoBlock
<1>4. ToSet(<<>>) = {} /\ TxsIn(<<>>) = {} /\ RevertedIn(<<>>) = {}
  BY <1>1, NoElements DEF TxsIn, RevertedIn
<1>5. PlacesApart
  BY <1>4 DEF Init, PlacesApart, Apart, NoBlock
<1>6. HeldApart
  BY <1>4 DEF Init, HeldApart, Durable, IdleHandler, Holding
<1> QED
  BY <1>3, <1>5, <1>6 DEF OnceInv

-----------------------------------------------------------------------------
(* The places, action by action.                                           *)
Placed == PlacesOnce /\ PlacesApart
placeVars == <<pendingTxs, readyTxs, revertedTxs, keeperOpen, dbChain, dbReverted>>

LEMMA PlacesFrame ==
    ASSUME Placed, UNCHANGED <<placeVars, dbTxs>>, proposed'.txs = proposed.txs \/ proposed'.txs = <<>>
    PROVE  Placed'
<1>1. UNCHANGED <<pendingTxs, readyTxs, revertedTxs, keeperOpen, dbChain, dbReverted, dbTxs>>
  BY DEF placeVars
<1>2. Once(<<>>) /\ ToSet(<<>>) = {}
  BY NoElements DEF Once
<1>3. PlacesOnce'
  <2>1. Once(proposed'.txs)
    BY <1>2 DEF Placed, PlacesOnce
  <2> QED
    BY <1>1, <2>1 DEF Placed, PlacesOnce
<1>4. PlacesApart'
  <2>1. ToSet(proposed'.txs) \subseteq ToSet(proposed.txs)
    BY <1>2
  <2> QED
    BY <1>1, <2>1 DEF Placed, PlacesApart, Apart
<1> QED
  BY <1>3, <1>4 DEF Placed

LEMMA AddTxPlaced ==
    ASSUME OnceInv, NEW h \in Handler, AddTx(h)
    PROVE  Placed'
<1> DEFINE v == handler[h].variant
<1>1. pendingTxs' = pendingTxs \cup {v}
      /\ UNCHANGED <<readyTxs, revertedTxs, proposed, keeperOpen, dbChain, dbReverted, dbTxs>>
  BY DEF AddTx, blocksVars, dbVars, keeperVars
<1>2. v \notin Elsewhere
  BY DEF OnceInv, HeldApart, AddTx, Holding
<1> HIDE DEF v
<1>3. /\ v \notin ToSet(readyTxs) /\ v \notin RevertedIn(revertedTxs) /\ v \notin ToSet(proposed.txs)
      /\ v \notin TxsIn(keeperOpen) /\ v \notin TxsIn(dbChain)
  BY <1>2 DEF Elsewhere, InMemory
<1>4. PlacesApart'
  BY <1>1, <1>3 DEF OnceInv, PlacesApart, Apart
<1>5. PlacesOnce'
  BY <1>1 DEF OnceInv, PlacesOnce
<1> QED
  BY <1>4, <1>5 DEF Placed

LEMMA InsertTxPlaced ==
    ASSUME OnceInv, NEW h \in Handler, InsertTx(h)
    PROVE  Placed'
<1> DEFINE v == handler[h].variant
<1>1. dbTxs' = dbTxs \cup {v}
      /\ UNCHANGED <<pendingTxs, readyTxs, revertedTxs, proposed, keeperOpen, dbChain, dbReverted>>
  BY DEF InsertTx, queueVars, txVars, blocksVars, dbVars, keeperVars
<1>2. v \notin Durable
  BY DEF OnceInv, HeldApart, InsertTx, Holding
<1> HIDE DEF v
<1>3. v \notin RevertedIn(dbReverted)
  BY <1>2 DEF Durable
<1>4. PlacesApart'
  BY <1>1, <1>3 DEF OnceInv, PlacesApart, Apart
<1>5. PlacesOnce'
  BY <1>1 DEF OnceInv, PlacesOnce
<1> QED
  BY <1>4, <1>5 DEF Placed

LEMMA SelectRevertedPlaced ==
    ASSUME PlacesListed, Placed, SelectedLast, SelectReverted, UNCHANGED <<keeperOpen, dbVars>>
    PROVE  Placed'
<1>1. PICK r, ops :
        /\ r \in 0..Len(revertedTxs)
        /\ revertedTxs' = Drop(revertedTxs, r)
        /\ proposed' = [proposed EXCEPT !.ops = ops,
                                        !.txs = [i \in 1..r |-> revertedTxs[i].tx]]
  BY DEF SelectReverted
<1> DEFINE list == TxList(revertedTxs)
<1>2. UNCHANGED <<pendingTxs, readyTxs, keeperOpen, dbChain, dbReverted, dbTxs>> /\ proposed.txs = <<>>
  BY DEF SelectReverted, SelectedLast, txVars, dbVars
<1>3. /\ revertedTxs \in Seq(RevertedTx) /\ proposed \in Block
      /\ IsSeq(list) /\ Once(list) /\ ToSet(list) = RevertedIn(revertedTxs)
  BY DEF PlacesListed, Placed, PlacesOnce
<1>4. Len(list) = Len(revertedTxs) /\ r \in 0..Len(list)
  BY <1>1, <1>3, TxListed
<1>5. [i \in 1..r |-> revertedTxs[i].tx] = Take(list, r) /\ TxList(revertedTxs') = Drop(list, r)
  BY <1>1, <1>3, TxListCut
<1>6. proposed'.txs = Take(list, r)
  BY <1>1, <1>3, <1>5 DEF Block
<1>7. revertedTxs' \in Seq(RevertedTx)
  BY <1>1, <1>3, PartsIn
<1>8. RevertedIn(revertedTxs') = ToSet(Drop(list, r))
  BY <1>5, <1>7, TxListed
<1> HIDE DEF list
<1>9. /\ Once(Take(list, r)) /\ Once(Drop(list, r))
      /\ ToSet(Take(list, r)) \cap ToSet(Drop(list, r)) = {}
      /\ ToSet(list) = ToSet(Take(list, r)) \cup ToSet(Drop(list, r))
  BY <1>3, <1>4, OnceCut
<1>10. PlacesOnce'
  BY <1>2, <1>5, <1>6, <1>9 DEF Placed, PlacesOnce
<1>11. PlacesApart'
  <2>1. /\ RevertedIn(revertedTxs) = ToSet(proposed'.txs) \cup RevertedIn(revertedTxs')
        /\ ToSet(proposed'.txs) \cap RevertedIn(revertedTxs') = {}
    BY <1>3, <1>6, <1>8, <1>9
  <2> QED
    BY <1>2, <2>1 DEF Placed, PlacesApart, Apart
<1> QED
  BY <1>10, <1>11 DEF Placed

LEMMA PrepareTxPlaced ==
    ASSUME PlacesListed, Placed, IsFiniteSet(pendingTxs), SelectedLast, PrepareTxForBlock,
           UNCHANGED <<keeperOpen, dbVars>>
    PROVE  Placed'
<1> DEFINE ripe == Ripe(pendingTxs, request.timestamp)
<1>1. PICK sorted \in ReadyOrders(ripe) : \E k \in 0..Len(readyTxs \o sorted) :
        /\ readyTxs' = Drop(readyTxs \o sorted, k)
        /\ proposed' = [proposed EXCEPT !.txs = Take(readyTxs \o sorted, k)]
  BY DEF PrepareTxForBlock
<1> DEFINE ready == readyTxs \o sorted
<1>2. PICK k \in 0..Len(ready) : /\ readyTxs' = Drop(ready, k)
                                 /\ proposed' = [proposed EXCEPT !.txs = Take(ready, k)]
  BY <1>1
<1>3. /\ pendingTxs' = pendingTxs \ ripe /\ proposed.txs = <<>>
      /\ UNCHANGED <<revertedTxs, keeperOpen, dbChain, dbReverted, dbTxs>>
  BY DEF PrepareTxForBlock, SelectedLast, dbVars
<1>4. ripe \subseteq pendingTxs /\ IsFiniteSet(ripe)
  <2>1. ripe \subseteq pendingTxs
    BY DEF Ripe
  <2> HIDE DEF ripe
  <2> QED
    BY <2>1, FS_Subset
<1>5. sorted \in [1..Cardinality(ripe) -> ripe] /\ ToSet(sorted) = ripe
  BY <1>1 DEF ReadyOrders, Enumerations
<1> HIDE DEF ripe
<1>6. IsSeq(sorted) /\ Once(sorted)
  BY <1>4, <1>5, Listed, ListedOnce
<1>7. IsSeq(readyTxs) /\ Once(readyTxs) /\ ToSet(readyTxs) \cap ripe = {}
  BY <1>4 DEF PlacesListed, Placed, PlacesOnce, PlacesApart, Apart
<1>8. IsSeq(ready) /\ Once(ready) /\ ToSet(ready) = ToSet(readyTxs) \cup ripe
  BY <1>5, <1>6, <1>7, Joined, OnceInJoin
<1> HIDE DEF ready
<1>9. /\ Once(Take(ready, k)) /\ Once(Drop(ready, k))
      /\ ToSet(Take(ready, k)) \cap ToSet(Drop(ready, k)) = {}
      /\ ToSet(ready) = ToSet(Take(ready, k)) \cup ToSet(Drop(ready, k))
  BY <1>8, OnceCut
<1>10. proposed'.txs = Take(ready, k)
  BY <1>2 DEF PlacesListed, Block
<1>11. PlacesOnce'
  BY <1>2, <1>3, <1>9, <1>10 DEF Placed, PlacesOnce
<1>12. PlacesApart'
  <2>1. /\ ToSet(readyTxs) \cup ripe = ToSet(proposed'.txs) \cup ToSet(readyTxs')
        /\ ToSet(proposed'.txs) \cap ToSet(readyTxs') = {}
    BY <1>2, <1>8, <1>9, <1>10
  <2>2. /\ ToSet(proposed'.txs) \subseteq ToSet(readyTxs) \cup ripe
        /\ ToSet(readyTxs') \subseteq ToSet(readyTxs) \cup ripe
        /\ pendingTxs' \cap (ToSet(readyTxs) \cup ripe) = {}
    BY <1>3, <2>1 DEF Placed, PlacesApart, Apart
  <2> DEFINE new == ToSet(readyTxs) \cup ripe
  <2>3. new \cap (RevertedIn(revertedTxs) \cup TxsIn(keeperOpen) \cup TxsIn(dbChain)) = {}
    BY <1>4 DEF Placed, PlacesApart, Apart
  <2> HIDE DEF new
  <2>4. ToSet(proposed'.txs) \subseteq new /\ ToSet(readyTxs') \subseteq new /\ pendingTxs' \cap new = {}
    BY <2>2 DEF new
  <2> QED
    BY <1>3, <2>1, <2>3, <2>4 DEF Placed, PlacesApart, Apart
<1> QED
  BY <1>11, <1>12 DEF Placed

\* What was proposed is sent: it goes behind the open blocks.
LEMMA SendBlockPlaced ==
    ASSUME PlacesListed, Placed, SendBlock
    PROVE  Placed'
<1>1. /\ keeperOpen' = keeperOpen \/ keeperOpen' = Append(keeperOpen, proposed)
      /\ keeperOpen' = keeperOpen => proposed.txs = <<>> \/ keeperOpen' = Append(keeperOpen, proposed)
      /\ proposed' = NoBlock
      /\ UNCHANGED <<pendingTxs, readyTxs, revertedTxs, dbChain, dbReverted, dbTxs>>
  BY DEF SendBlock, queueVars, txVars, dbVars
<1>2. /\ keeperOpen \in Seq(Block) /\ proposed \in Block
      /\ IsSeq(TxsOfBlocks(keeperOpen)) /\ ToSet(TxsOfBlocks(keeperOpen)) = TxsIn(keeperOpen)
      /\ IsSeq(proposed.txs)
  BY DEF PlacesListed
<1>3. /\ Once(proposed.txs) /\ Once(TxsOfBlocks(keeperOpen))
      /\ TxsIn(keeperOpen) \cap ToSet(proposed.txs) = {}
  BY DEF Placed, PlacesOnce, PlacesApart, Apart
<1>4. proposed'.txs = <<>> /\ Once(<<>>) /\ ToSet(<<>>) = {}
  BY <1>1, NoElements DEF NoBlock, Once
<1>5. CASE keeperOpen' = Append(keeperOpen, proposed)
  <2>1. TxsOfBlocks(keeperOpen') = TxsOfBlocks(keeperOpen) \o proposed.txs
    BY <1>2, <1>5, BlocksHaveTxs, TxsAppended
  <2>2. keeperOpen' \in Seq(Block)
    BY <1>2, <1>5
  <2>3. ToSet(TxsOfBlocks(keeperOpen')) = TxsIn(keeperOpen')
    BY <2>2, BlocksHaveTxs, TxsAre
  <2>4. Once(TxsOfBlocks(keeperOpen'))
    BY <1>2, <1>3, <2>1, OnceInJoin
  <2>5. TxsIn(keeperOpen') = TxsIn(keeperOpen) \cup ToSet(proposed.txs)
    BY <1>2, <2>1, <2>3, Joined
  <2>6. PlacesOnce'
    BY <1>1, <1>4, <2>4 DEF Placed, PlacesOnce
  <2>7. PlacesApart'
    BY <1>1, <1>4, <2>5 DEF Placed, PlacesApart, Apart
  <2> QED
    BY <2>6, <2>7 DEF Placed
<1>6. CASE keeperOpen' = keeperOpen /\ proposed.txs = <<>>
  BY <1>1, <1>4, <1>6, PlacesFrame DEF placeVars
<1> QED
  BY <1>1, <1>5, <1>6

\* What was proposed is gone when the send fails: it stays in the tables.
LEMMA SendFailsPlaced ==
    ASSUME Placed, SendFails
    PROVE  Placed'
<1>1. /\ proposed' = NoBlock
      /\ UNCHANGED <<pendingTxs, readyTxs, revertedTxs, keeperOpen, dbChain, dbReverted, dbTxs>>
  BY DEF SendFails, queueVars, txVars, dbVars, keeperVars
<1>2. proposed'.txs = <<>> /\ Once(<<>>) /\ ToSet(<<>>) = {}
  BY <1>1, NoElements DEF NoBlock, Once
<1>3. PlacesOnce'
  BY <1>1, <1>2 DEF Placed, PlacesOnce
<1>4. PlacesApart'
  BY <1>1, <1>2 DEF Placed, PlacesApart, Apart
<1> QED
  BY <1>3, <1>4 DEF Placed

LEMMA CommitBlockPlaced ==
    ASSUME PlacesListed, PlacesListed', Placed, CommitBlock
    PROVE  Placed'
<1> DEFINE block == Head(keeperOpen)
           rest == TxsOfBlocks(Tail(keeperOpen))
<1>1. PICK committed :
        /\ committed = [first |-> block.first, ops |-> block.ops, txs |-> block.txs,
                        before |-> dbAccounts]
        /\ dbChain' = Append(dbChain, committed)
  BY DEF CommitBlock
<1>2. /\ keeperOpen # <<>> /\ keeperOpen' = Tail(keeperOpen)
      /\ UNCHANGED <<pendingTxs, readyTxs, revertedTxs, proposed, dbReverted, dbTxs>>
  BY DEF CommitBlock, queueVars, txVars, blocksVars
<1>3. /\ keeperOpen \in Seq(Block) /\ dbChain \in Seq(ChainBlock)
      /\ IsSeq(TxsOfBlocks(dbChain)) /\ ToSet(TxsOfBlocks(dbChain)) = TxsIn(dbChain)
      /\ ToSet(TxsOfBlocks(keeperOpen)) = TxsIn(keeperOpen)
      /\ IsSeq(rest) /\ ToSet(rest) = TxsIn(keeperOpen')
      /\ dbChain' \in Seq(ChainBlock) /\ ToSet(TxsOfBlocks(dbChain')) = TxsIn(dbChain')
  BY <1>2 DEF PlacesListed
<1>4. block \in Block /\ block.txs \in Seq(Variant)
  <2>1. block \in Block
    BY <1>2, <1>3, HeadTailProperties
  <2> QED
    BY <2>1, BlocksHaveTxs
<1>5. IsSeq(block.txs) /\ committed.txs = block.txs
  BY <1>1, <1>4, SeqOver
<1>6. TxsOfBlocks(keeperOpen) = block.txs \o rest
  BY <1>2, <1>3, BlocksHaveTxs, TxsOfTail
<1>7. TxsOfBlocks(dbChain') = TxsOfBlocks(dbChain) \o block.txs
  <2>1. DOMAIN dbChain = 1..Len(dbChain) /\ Len(dbChain) \in Nat /\ dbChain' = Append(dbChain, committed)
        /\ Len(dbChain') = Len(dbChain) + 1 /\ dbChain'[Len(dbChain) + 1] = committed
    BY <1>1, <1>3
  <2>2. Len(dbChain) + 1 \in 1..Len(dbChain')
    BY <2>1
  <2>3. committed \in ChainBlock
    BY <1>3, <2>1, <2>2, ElementOfSeq
  <2> QED
    BY <1>3, <1>5, <2>1, <2>3, BlocksHaveTxs, TxsAppended
<1> HIDE DEF block, rest
<1>8. Once(block.txs \o rest) /\ Once(TxsOfBlocks(dbChain)) /\ TxsIn(dbChain) \cap TxsIn(keeperOpen) = {}
  BY <1>6 DEF Placed, PlacesOnce, PlacesApart, Apart
<1>9. Once(block.txs) /\ Once(rest) /\ ToSet(block.txs) \cap ToSet(rest) = {}
  BY <1>3, <1>5, <1>8, OnceParts
<1>10. TxsIn(keeperOpen) = ToSet(block.txs) \cup TxsIn(keeperOpen')
  BY <1>3, <1>5, <1>6, Joined
<1>11. Once(TxsOfBlocks(dbChain'))
  BY <1>3, <1>5, <1>7, <1>8, <1>9, <1>10, OnceInJoin
<1>12. TxsIn(dbChain') = TxsIn(dbChain) \cup ToSet(block.txs)
  BY <1>3, <1>5, <1>7, Joined
<1>13. PlacesOnce'
  BY <1>2, <1>9, <1>11 DEF Placed, PlacesOnce, rest
<1>14. PlacesApart'
  <2>1. ToSet(block.txs) \cap TxsIn(keeperOpen') = {}
    BY <1>3, <1>9
  <2> QED
    BY <1>2, <1>10, <1>12, <2>1 DEF Placed, PlacesApart, Apart
<1> QED
  BY <1>13, <1>14 DEF Placed

LEMMA NothingPlaced ==
    /\ Once(<<>>) /\ ToSet(<<>>) = {} /\ TxsIn(<<>>) = {} /\ RevertedIn(<<>>) = {}
    /\ TxList(<<>>) = <<>> /\ TxsOfBlocks(<<>>) = <<>> /\ NoBlock.txs = <<>>
<1>1. Once(<<>>) /\ TxList(<<>>) = <<>> /\ DOMAIN <<>> = {}
  BY DEF Once, TxList
<1>2. TxsOfBlocks(<<>>) = <<>>
  <2>1. <<>> \in Seq(Block)
    OBVIOUS
  <2> QED
    BY <2>1, BlocksHaveTxs, TxsAre
<1>3. ToSet(<<>>) = {} /\ TxsIn(<<>>) = {} /\ RevertedIn(<<>>) = {}
  BY <1>1, NoElements DEF TxsIn, RevertedIn
<1> QED
  BY <1>1, <1>2, <1>3 DEF NoBlock

LEMMA CrashPlaced ==
    ASSUME Placed, Crash
    PROVE  Placed'
<1>1. /\ revertedTxs' = <<>> /\ readyTxs' = <<>> /\ pendingTxs' = {}
      /\ proposed' = NoBlock /\ keeperOpen' = <<>>
      /\ UNCHANGED <<dbChain, dbReverted, dbTxs>>
  BY DEF Crash, dbVars
<1>2. PlacesOnce'
  BY <1>1, NothingPlaced DEF Placed, PlacesOnce
<1>3. PlacesApart'
  BY <1>1, NothingPlaced DEF Placed, PlacesApart, Apart
<1> QED
  BY <1>2, <1>3 DEF Placed

LEMMA RevertBlockPlaced ==
    ASSUME PlacesListed, PlacesListed', Placed, Stopped, RevertBlock
    PROVE  Placed'
<1> DEFINE block == Last(dbChain)
           next == block.first + Len(block.ops)
           txs == [i \in DOMAIN block.txs |-> [tx |-> block.txs[i], next |-> next]]
           others == {i \in DOMAIN dbReverted : dbReverted[i].tx \notin ToSet(block.txs)}
           front == TxsOfBlocks(Front(dbChain))
<1>1. PICK kept \in Selections(dbReverted, others) : dbReverted' = txs \o kept
  BY DEF RevertBlock
<1>2. /\ ~up /\ dbChain # <<>> /\ dbChain' = Front(dbChain)
      /\ dbTxs' = dbTxs \ ToSet(block.txs)
      /\ UNCHANGED <<pendingTxs, readyTxs, revertedTxs, proposed, keeperOpen>>
  BY DEF RevertBlock, queueVars, txVars, blocksVars, keeperVars
<1>3. /\ dbChain \in Seq(ChainBlock) /\ dbReverted \in Seq(RevertedTx) /\ dbReverted' \in Seq(RevertedTx)
      /\ IsSeq(front) /\ ToSet(front) = TxsIn(dbChain')
      /\ ToSet(TxsOfBlocks(dbChain)) = TxsIn(dbChain)
  BY <1>2 DEF PlacesListed
<1>4. TxsOfBlocks(dbChain) = front \o block.txs
  BY <1>2, <1>3, BlocksHaveTxs, TxsOfFront
<1>5. block.txs \in Seq(Variant)
  <2>1. Len(dbChain) \in 1..Len(dbChain) /\ block = dbChain[Len(dbChain)]
    BY <1>2, <1>3 DEF Last
  <2>2. block \in ChainBlock
    BY <1>3, <2>1, ElementOfSeq
  <2> QED
    BY <2>2, BlocksHaveTxs
<1>6. IsSeq(block.txs) /\ DOMAIN block.txs = 1..Len(block.txs) /\ Len(block.txs) \in Nat
  BY <1>5, ElementsIn
<1>7. kept \in Seq(RevertedTx)
  <2>1. others \subseteq DOMAIN dbReverted
    OBVIOUS
  <2> HIDE DEF others
  <2> QED
    BY <1>1, <1>3, <2>1, SelectionIn
<1>8. Once(TxList(dbReverted)) /\ Once(front \o block.txs)
  BY <1>4 DEF Placed, PlacesOnce
<1>9. Once(TxList(kept)) /\ RevertedIn(kept) = RevertedIn(dbReverted) \ ToSet(block.txs)
  <2>1. others \subseteq DOMAIN dbReverted
    OBVIOUS
  <2>2. RevertedIn(dbReverted) \ ToSet(block.txs) = {dbReverted[i].tx : i \in others}
    BY DEF RevertedIn
  <2> HIDE DEF others
  <2>3. Once(TxList(kept)) /\ RevertedIn(kept) = {dbReverted[i].tx : i \in others}
    BY <1>1, <1>3, <1>8, <2>1, SelectedTxsOnce
  <2> QED
    BY <2>2, <2>3
<1>10. Len(txs) = Len(block.txs) /\ IsSeq(txs) /\ TxList(txs) = block.txs
  <2>1. txs = [i \in 1..Len(block.txs) |-> [tx |-> block.txs[i], next |-> next]]
    BY <1>6
  <2>2. \A i \in 1..Len(block.txs) : txs[i] \in ToSet(txs)
    BY <2>1 DEF ToSet
  <2>3. TxList(txs) = [i \in 1..Len(block.txs) |-> block.txs[i]]
    BY <2>1 DEF TxList
  <2>4. block.txs = [i \in 1..Len(block.txs) |-> block.txs[i]]
    BY <1>5
  <2> DEFINE T == ToSet(txs)
             n == Len(block.txs)
  <2>5. DOMAIN txs = 1..n /\ (\A i \in 1..n : txs[i] \in T) /\ txs = [i \in 1..n |-> txs[i]] /\ n \in Nat
    BY <1>6, <2>1, <2>2
  <2> HIDE DEF T, n, txs
  <2>6. txs \in Seq(T) /\ Len(txs) = n
    BY <2>5
  <2> QED
    BY <2>3, <2>4, <2>6 DEF IsSeq, T, n
<1> HIDE DEF block, next, txs, others, front
<1>11. Once(front) /\ Once(block.txs) /\ ToSet(front) \cap ToSet(block.txs) = {}
  BY <1>3, <1>6, <1>8, OnceParts
<1>12. TxList(dbReverted') = TxList(txs) \o TxList(kept)
  <2>1. IsSeq(kept)
    BY <1>7, ElementsIn
  <2> QED
    BY <1>1, <1>10, <2>1, TxListJoin
<1>13. Once(TxList(dbReverted')) /\ RevertedIn(dbReverted') = ToSet(block.txs) \cup RevertedIn(kept)
  <2>1. IsSeq(TxList(kept)) /\ ToSet(TxList(kept)) = RevertedIn(kept)
    BY <1>7, TxListed
  <2>2. ToSet(block.txs) \cap ToSet(TxList(kept)) = {}
    BY <1>9, <2>1
  <2>3. Once(block.txs \o TxList(kept))
    BY <1>6, <1>9, <1>11, <2>1, <2>2, OnceInJoin
  <2>4. ToSet(TxList(dbReverted')) = RevertedIn(dbReverted')
    BY <1>3, TxListed
  <2> QED
    BY <1>6, <1>10, <1>12, <2>1, <2>3, <2>4, Joined
<1>14. /\ revertedTxs' = <<>> /\ readyTxs' = <<>> /\ pendingTxs' = {}
       /\ proposed' = NoBlock /\ keeperOpen' = <<>>
  BY <1>2 DEF Stopped
<1>15. PlacesOnce'
  BY <1>2, <1>11, <1>13, <1>14, NothingPlaced DEF PlacesOnce, front
<1>16. PlacesApart'
  <2>1. dbTxs' \cap RevertedIn(dbReverted') = {}
    BY <1>2, <1>9, <1>13 DEF Placed, PlacesApart
  <2> QED
    BY <1>14, <2>1, NothingPlaced DEF PlacesApart, Apart
<1> QED
  BY <1>15, <1>16 DEF Placed

LEMMA ExecutedIsGarbage ==
    ASSUME dbChain \in Seq(ChainBlock)
    PROVE  TxsIn(dbChain) \subseteq Garbage
<1>1. ASSUME NEW v \in TxsIn(dbChain) PROVE v \in Variant /\ SameTx(v, v)
  <2>1. PICK b \in ToSet(dbChain) : v \in ToSet(b.txs)
    BY TxsOfElements
  <2>2. b \in ChainBlock
    BY <2>1, ElementsIn
  <2>3. b.txs \in Seq(Variant)
    BY <2>2, BlocksHaveTxs
  <2>4. v \in Variant
    BY <2>1, <2>3, ElementsIn
  <2> QED
    BY <2>4 DEF SameTx
<1> QED
  BY <1>1 DEF Garbage

LEMMA RestorePlaced ==
    ASSUME PlacesListed, Placed, Stopped, RestoreFromDb
    PROVE  Placed'
<1> DEFINE waiting == {i \in DOMAIN dbReverted : dbReverted[i].tx \notin Garbage}
<1>1. /\ ~up /\ dbTxs' = dbTxs \ Garbage /\ dbReverted' \in Selections(dbReverted, waiting)
      /\ revertedTxs' = dbReverted' /\ readyTxs' = <<>> /\ pendingTxs' = dbTxs'
      /\ UNCHANGED <<proposed, keeperOpen, dbChain>>
  BY DEF RestoreFromDb, blocksVars
<1>2. proposed' = NoBlock /\ keeperOpen' = <<>>
  BY <1>1 DEF Stopped
<1>3. Once(TxList(dbReverted')) /\ RevertedIn(dbReverted') = RevertedIn(dbReverted) \ Garbage
  <2>1. waiting \subseteq DOMAIN dbReverted /\ dbReverted \in Seq(RevertedTx) /\ Once(TxList(dbReverted))
    BY DEF PlacesListed, Placed, PlacesOnce
  <2>2. RevertedIn(dbReverted) \ Garbage = {dbReverted[i].tx : i \in waiting}
    BY DEF RevertedIn
  <2> HIDE DEF waiting
  <2> QED
    BY <1>1, <2>1, <2>2, SelectedTxsOnce
<1>4. PlacesOnce'
  BY <1>1, <1>2, <1>3, NothingPlaced DEF Placed, PlacesOnce
<1>5. TxsIn(dbChain) \subseteq Garbage
  BY ExecutedIsGarbage DEF PlacesListed
<1>6. PlacesApart'
  BY <1>1, <1>2, <1>3, <1>5, NothingPlaced DEF Placed, PlacesApart, Apart
<1> QED
  BY <1>4, <1>6 DEF Placed

\* The steps that leave every place as it is.
LEMMA SelectionsPlaced ==
    ASSUME PlacesListed, Placed, IsFiniteSet(pendingTxs), SelectedLast, ProposeNewBlock
    PROVE  Placed'
<1>1. UNCHANGED <<keeperOpen, dbVars>> /\ UNCHANGED <<keeperOpen, dbChain, dbReverted, dbTxs>>
  BY DEF ProposeNewBlock, keeperVars, dbVars
<1>2. CASE SelectReverted
  BY <1>1, <1>2, SelectRevertedPlaced
<1>3. CASE PrepareTxForBlock
  BY <1>1, <1>3, PrepareTxPlaced
<1>4. CASE NothingReverted \/ RevertedOpDoesNotFit \/ RevertedOpIsMissing \/ SelectPriorityOps
  <2>1. UNCHANGED <<pendingTxs, readyTxs, revertedTxs>>
    BY <1>4 DEF NothingReverted, RevertedOpDoesNotFit, RevertedOpIsMissing, SelectPriorityOps,
                queueVars, txVars
  <2>2. proposed'.txs = proposed.txs
    <3>1. proposed \in Block
      BY DEF PlacesListed
    <3>2. CASE NothingReverted \/ RevertedOpIsMissing
      BY <3>2 DEF NothingReverted, RevertedOpIsMissing
    <3>3. CASE RevertedOpDoesNotFit
      <4>1. PICK ops : proposed' = [proposed EXCEPT !.ops = ops]
        BY <3>3 DEF RevertedOpDoesNotFit
      <4> QED
        BY <3>1, <4>1 DEF Block
    <3>4. CASE SelectPriorityOps
      <4>1. PICK ops : proposed' = [proposed EXCEPT !.ops = ops]
        BY <3>4 DEF SelectPriorityOps
      <4> QED
        BY <3>1, <4>1 DEF Block
    <3> QED
      BY <1>4, <3>2, <3>3, <3>4
  <2> QED
    BY <1>1, <2>1, <2>2, PlacesFrame DEF placeVars
<1> QED
  BY <1>2, <1>3, <1>4 DEF ProposeNewBlock

LEMMA PlacedStep == Types /\ OrderInv /\ TxInv /\ OnceInv /\ Next => Placed'
<1> SUFFICES ASSUME Types, OrderInv, TxInv, OnceInv, Next PROVE Placed'
  OBVIOUS
<1>1. PlacesListed /\ PlacesListed'
  <2>1. Types'
    BY TypesStep
  <2> QED
    BY <2>1, PlacesAreListed, PTL
<1>2. Placed /\ SelectedLast /\ IsFiniteSet(pendingTxs) /\ Stopped
  BY DEF OnceInv, Placed, TxInv, Queues, OrderInv
<1>3. CASE UNCHANGED <<placeVars, dbTxs, proposed>>
  BY <1>2, <1>3, PlacesFrame
<1>4. ASSUME NEW h \in Handler, TransactionsHandler(h), ~AddTx(h), ~InsertTx(h)
      PROVE  UNCHANGED <<placeVars, dbTxs, proposed>>
  BY <1>4, HandlersUntouched DEF Untouched, memoryVars, tableVars, placeVars
<1>5. ASSUME NEW h \in Handler, TransactionsHandler(h) PROVE Placed'
  BY <1>3, <1>4, <1>5, AddTxPlaced, InsertTxPlaced
<1>6. CASE ReceiveGetBlock
  <2>1. UNCHANGED <<placeVars, dbTxs>>
    BY <1>6 DEF ReceiveGetBlock, queueVars, txVars, dbVars, keeperVars, placeVars
  <2>2. proposed'.txs = <<>>
    <3>1. PICK first : proposed' = [NoBlock EXCEPT !.first = first]
      BY <1>6 DEF ReceiveGetBlock
    <3> QED
      BY <3>1 DEF NoBlock
  <2> QED
    BY <1>2, <2>1, <2>2, PlacesFrame
<1>7. ReceiveUpdateNonces \/ UpdateAccount \/ UpdatesDone \/ RequestBlock \/ Tick
      => UNCHANGED <<placeVars, dbTxs, proposed>>
  BY DEF ReceiveUpdateNonces, UpdateAccount, UpdatesDone, RequestBlock, Tick, queueVars, txVars,
         blocksVars, dbVars, keeperVars, placeVars
<1>8. CASE BlocksHandler
  BY <1>1, <1>2, <1>3, <1>6, <1>7, <1>8, SelectionsPlaced, SendBlockPlaced, SendFailsPlaced
     DEF BlocksHandler
<1>9. CASE StateKeeper
  BY <1>1, <1>2, <1>3, <1>7, <1>9, CommitBlockPlaced DEF StateKeeper
<1>10. CASE Process
  BY <1>1, <1>2, <1>10, CrashPlaced, RevertBlockPlaced, RestorePlaced DEF Process
<1> QED
  BY <1>5, <1>8, <1>9, <1>10 DEF Next

-----------------------------------------------------------------------------
(* What the handlers hold, action by action.                               *)

\* A handler that goes on with the transaction it had, or holds none.
GoesOn(h) ==
    \/ handler'[h] = handler[h]
    \/ handler'[h].pc \notin Holding
    \/ /\ handler[h].pc \in Holding \ {"add"} /\ handler'[h].pc \in Holding \ {"add"}
       /\ handler'[h].variant = handler[h].variant

LEMMA HeldFrame ==
    ASSUME HeldApart, \A h \in Handler : GoesOn(h),
           UNCHANGED dbTxs, Durable' \subseteq Durable, Elsewhere' \subseteq Elsewhere,
           Durable' \subseteq submitted',
           \A h \in Handler : handler'[h].pc \in Holding => handler'[h].variant \in submitted'
    PROVE  HeldApart'
<1>1. ASSUME NEW h \in Handler, handler'[h].pc \in Holding
      PROVE  /\ handler[h].pc \in Holding /\ handler'[h].variant = handler[h].variant
             /\ handler'[h].pc = "add" <=> handler[h].pc = "add"
  BY <1>1 DEF GoesOn
<1>2. ASSUME NEW h \in Handler, handler'[h].pc \in Holding
      PROVE  /\ handler'[h].pc # "add" => handler'[h].variant \notin Durable'
             /\ handler'[h].pc = "add" => /\ handler'[h].variant \in dbTxs'
                                          /\ handler'[h].variant \notin Elsewhere'
  BY <1>1, <1>2 DEF HeldApart
<1>3. ASSUME NEW h \in Handler, handler'[h].pc \in Holding, NEW g \in Handler,
             handler'[g].pc \in Holding, handler'[g].variant = handler'[h].variant
      PROVE  g = h
  <2>1. HeldBy(g, handler[h].variant) /\ handler[h].pc \in Holding
    BY <1>1, <1>3 DEF HeldBy
  <2> QED
    BY <2>1 DEF HeldApart
<1> QED
  BY <1>2, <1>3 DEF HeldApart, HeldBy

LEMMA IdleHoldsNothing == IdleHandler.pc \notin Holding
BY DEF IdleHandler, Holding

\* Nothing is stored, queued or taken out: only the handler h moves.
LEMMA HeldByHandlers ==
    ASSUME HeldApart, handler \in [Handler -> HandlerState], NEW h \in Handler, NEW STATE new,
           handler' = [handler EXCEPT ![h] = new],
           new.pc \notin Holding \/ (/\ handler[h].pc \in Holding \ {"add"}
                                     /\ new.pc \in Holding \ {"add"}
                                     /\ new.variant = handler[h].variant),
           UNCHANGED <<dbTxs, submitted>>, Durable' = Durable, Elsewhere' = Elsewhere
    PROVE  HeldApart'
<1>1. handler'[h] = new /\ \A g \in Handler : g # h => handler'[g] = handler[g]
  OBVIOUS
<1>2. \A g \in Handler : GoesOn(g)
  BY <1>1 DEF GoesOn
<1>3. \A g \in Handler : handler'[g].pc \in Holding => handler'[g].variant \in submitted'
  BY <1>1 DEF HeldApart
<1> QED
  BY <1>2, <1>3, HeldFrame DEF HeldApart

LEMMA RefuseTxHeld ==
    ASSUME HeldApart, handler \in [Handler -> HandlerState], NEW h \in Handler, RefuseTx(h),
           handler[h].pc \in Holding \ {"add"},
           UNCHANGED dbTxs, Durable' = Durable, Elsewhere' = Elsewhere
    PROVE  HeldApart'
<1> DEFINE v == handler[h].variant
<1>1. submitted' = submitted \ {v} /\ handler'[h] = IdleHandler
      /\ \A g \in Handler : g # h => handler'[g] = handler[g]
  BY DEF RefuseTx
<1>2. v \notin Durable
  BY DEF HeldApart
<1>3. \A g \in Handler : g # h /\ handler[g].pc \in Holding => handler[g].variant # v
  BY DEF HeldApart, HeldBy
<1> HIDE DEF v
<1>4. \A g \in Handler : GoesOn(g)
  BY <1>1, IdleHoldsNothing DEF GoesOn
<1>5. \A g \in Handler : handler'[g].pc \in Holding => handler'[g].variant \in submitted'
  BY <1>1, <1>3, IdleHoldsNothing DEF HeldApart
<1>6. Durable' \subseteq submitted'
  BY <1>1, <1>2 DEF HeldApart
<1> QED
  BY <1>4, <1>5, <1>6, HeldFrame

LEMMA ReceiveTxHeld ==
    ASSUME HeldApart, handler \in [Handler -> HandlerState], NEW h \in Handler, NEW v, ReceiveTx(h, v)
    PROVE  HeldApart'
<1>1. /\ v \notin submitted /\ submitted' = submitted \cup {v}
      /\ \A g \in Handler : g # h => handler'[g] = handler[g]
      /\ handler'[h].pc = "nonce" /\ handler'[h].variant = v
  <2>1. /\ v \notin submitted /\ submitted' = submitted \cup {v}
        /\ handler' = [handler EXCEPT ![h].pc = "nonce", ![h].variant = v]
    BY DEF ReceiveTx
  <2>2. handler[h] \in HandlerState
    OBVIOUS
  <2> DEFINE new == [handler[h] EXCEPT !.pc = "nonce", !.variant = v]
  <2>3. new.pc = "nonce" /\ new.variant = v
    BY <2>2 DEF HandlerState
  <2>4. handler' = [handler EXCEPT ![h] = new]
    BY <2>1
  <2> HIDE DEF new
  <2> QED
    BY <2>1, <2>3, <2>4
<1>2. Durable' = Durable /\ Elsewhere' = Elsewhere /\ dbTxs' = dbTxs
  BY DEF ReceiveTx, Durable, Elsewhere, InMemory, queueVars, txVars, blocksVars, dbVars, keeperVars
<1>3. v \notin Durable /\ \A g \in Handler : handler[g].pc \in Holding => handler[g].variant # v
  BY <1>1 DEF HeldApart
<1>4. Durable' \subseteq submitted'
  BY <1>1, <1>2 DEF HeldApart
<1>5. ASSUME NEW g \in Handler, handler'[g].pc \in Holding
      PROVE  /\ handler'[g].variant \in submitted'
             /\ handler'[g].pc # "add" => handler'[g].variant \notin Durable'
             /\ handler'[g].pc = "add" => /\ handler'[g].variant \in dbTxs'
                                          /\ handler'[g].variant \notin Elsewhere'
  <2>1. CASE g = h
    BY <1>1, <1>2, <1>3, <2>1
  <2>2. CASE g # h
    BY <1>1, <1>2, <1>5, <2>2 DEF HeldApart
  <2> QED
    BY <2>1, <2>2
<1>6. ASSUME NEW g \in Handler, handler'[g].pc \in Holding, NEW f \in Handler,
             handler'[f].pc \in Holding, handler'[f].variant = handler'[g].variant
      PROVE  f = g
  <2>1. CASE f # h /\ g # h
    BY <1>1, <1>6, <2>1 DEF HeldApart, HeldBy
  <2>2. CASE f = h \/ g = h
    BY <1>1, <1>3, <1>6, <2>2
  <2> QED
    BY <2>1, <2>2
<1> QED
  BY <1>4, <1>5, <1>6 DEF HeldApart, HeldBy

LEMMA InsertTxHeld ==
    ASSUME HeldApart, TxInv, NEW h \in Handler, InsertTx(h)
    PROVE  HeldApart'
<1> DEFINE v == handler[h].variant
<1>1. /\ handler[h].pc = "insert" /\ handler' = [handler EXCEPT ![h].pc = "add"]
      /\ dbTxs' = dbTxs \cup {v}
      /\ UNCHANGED <<memoryVars, dbReverted, dbChain, submitted>>
  BY DEF InsertTx, queueVars, txVars, blocksVars, keeperVars, clientVars, memoryVars
<1>2. /\ \A g \in Handler : g # h => handler'[g] = handler[g]
      /\ handler'[h].pc = "add" /\ handler'[h].variant = v
  <2>1. handler \in [Handler -> HandlerState] /\ handler[h] \in HandlerState
    BY DEF TxInv
  <2> DEFINE new == [handler[h] EXCEPT !.pc = "add"]
  <2>2. new.pc = "add" /\ new.variant = v
    BY <2>1 DEF HandlerState
  <2>3. handler' = [handler EXCEPT ![h] = new]
    BY <1>1
  <2> HIDE DEF new
  <2> QED
    BY <2>1, <2>2, <2>3
<1>3. v \in submitted /\ v \notin Durable /\ handler[h].pc \in Holding /\ "add" \in Holding
  BY <1>1 DEF HeldApart, Holding
<1>4. \A g \in Handler : g # h /\ handler[g].pc \in Holding => handler[g].variant # v
  BY <1>3 DEF HeldApart, HeldBy
<1> HIDE DEF v
<1>5. Durable' = Durable \cup {v} /\ Elsewhere' = Elsewhere
  BY <1>1 DEF Durable, Elsewhere, InMemory, memoryVars
<1>6. v \notin Elsewhere
  <2>1. InMemory \subseteq Durable /\ TxsIn(dbChain) \subseteq Durable
    BY DEF TxInv, AckedIsDurable, Durable
  <2> QED
    BY <1>3, <2>1 DEF Elsewhere
<1>7. Durable' \subseteq submitted'
  BY <1>1, <1>3, <1>5 DEF HeldApart
<1>8. ASSUME NEW g \in Handler, handler'[g].pc \in Holding
      PROVE  /\ handler'[g].variant \in submitted'
             /\ handler'[g].pc # "add" => handler'[g].variant \notin Durable'
             /\ handler'[g].pc = "add" => /\ handler'[g].variant \in dbTxs'
                                          /\ handler'[g].variant \notin Elsewhere'
  <2>1. CASE g = h
    BY <1>1, <1>2, <1>3, <1>5, <1>6, <2>1
  <2>2. CASE g # h
    BY <1>1, <1>2, <1>4, <1>5, <1>8, <2>2 DEF HeldApart
  <2> QED
    BY <2>1, <2>2
<1>9. ASSUME NEW g \in Handler, handler'[g].pc \in Holding, NEW f \in Handler,
             handler'[f].pc \in Holding, handler'[f].variant = handler'[g].variant
      PROVE  f = g
  <2>1. CASE f # h /\ g # h
    BY <1>2, <1>9, <2>1 DEF HeldApart, HeldBy
  <2>2. CASE f = h \/ g = h
    BY <1>2, <1>4, <1>9, <2>2
  <2> QED
    BY <2>1, <2>2
<1> QED
  BY <1>7, <1>8, <1>9 DEF HeldApart, HeldBy

LEMMA AddTxHeld ==
    ASSUME HeldApart, TxInv, NEW h \in Handler, AddTx(h)
    PROVE  HeldApart'
<1> DEFINE v == handler[h].variant
<1>1. /\ handler[h].pc = "add" /\ handler' = [handler EXCEPT ![h] = IdleHandler]
      /\ pendingTxs' = pendingTxs \cup {v}
      /\ UNCHANGED <<readyTxs, revertedTxs, proposed, keeperOpen, dbChain, dbReverted, dbTxs, submitted>>
  BY DEF AddTx, blocksVars, dbVars, keeperVars
<1>2. /\ \A g \in Handler : g # h => handler'[g] = handler[g]
      /\ handler'[h] = IdleHandler
  BY <1>1 DEF TxInv
<1>3. handler[h].pc \in Holding
  BY <1>1 DEF Holding
<1>4. \A g \in Handler : g # h /\ handler[g].pc \in Holding => handler[g].variant # v
  BY <1>3 DEF HeldApart, HeldBy
<1> HIDE DEF v
<1>5. Durable' = Durable /\ Elsewhere' = Elsewhere \cup {v}
  BY <1>1 DEF Durable, Elsewhere, InMemory
<1>6. Durable' \subseteq submitted'
  BY <1>1, <1>5 DEF HeldApart
<1>7. ASSUME NEW g \in Handler, handler'[g].pc \in Holding
      PROVE  g # h /\ handler'[g] = handler[g] /\ handler[g].variant # v
  BY <1>2, <1>4, <1>7, IdleHoldsNothing
<1>8. ASSUME NEW g \in Handler, handler'[g].pc \in Holding
      PROVE  /\ handler'[g].variant \in submitted'
             /\ handler'[g].pc # "add" => handler'[g].variant \notin Durable'
             /\ handler'[g].pc = "add" => /\ handler'[g].variant \in dbTxs'
                                          /\ handler'[g].variant \notin Elsewhere'
  BY <1>1, <1>5, <1>7, <1>8 DEF HeldApart
<1>9. ASSUME NEW g \in Handler, handler'[g].pc \in Holding, NEW f \in Handler,
             handler'[f].pc \in Holding, handler'[f].variant = handler'[g].variant
      PROVE  f = g
  BY <1>7, <1>9 DEF HeldApart, HeldBy
<1> QED
  BY <1>6, <1>8, <1>9 DEF HeldApart, HeldBy

\* The handler h goes on with its transaction, but stores or queues nothing.
MovesTo(h, new) ==
    /\ handler' = [handler EXCEPT ![h] = new]
    /\ \/ new.pc \notin Holding
       \/ /\ handler[h].pc \in Holding \ {"add"} /\ new.pc \in Holding \ {"add"}
          /\ new.variant = handler[h].variant

LEMMA HandlersHeld ==
    ASSUME HeldApart, TxInv, NEW h \in Handler, TransactionsHandler(h)
    PROVE  HeldApart'
<1>1. handler \in [Handler -> HandlerState] /\ handler[h] \in HandlerState
  BY DEF TxInv
<1>2. CASE (\E v \in Variant : ReceiveTx(h, v)) \/ InsertTx(h) \/ AddTx(h)
  BY <1>1, <1>2, ReceiveTxHeld, InsertTxHeld, AddTxHeld
<1>3. CASE ~InsertTx(h) /\ ~AddTx(h) /\ ~\E v \in Variant : ReceiveTx(h, v)
  <2>1. \/ CheckNonce(h) \/ CheckBatchSize(h) \/ InsertTxFails(h) \/ ReceiveConfirmedOps(h)
        \/ ReceiveUnconfirmedOp(h) \/ ReadMaxSerial(h) \/ InsertOps(h) \/ OpsFail(h) \/ AddOps(h)
    BY <1>3 DEF TransactionsHandler
  <2>2. Durable' = Durable /\ Elsewhere' = Elsewhere /\ UNCHANGED dbTxs
    BY <1>3, HandlersUntouched DEF Untouched, memoryVars, tableVars, Durable, Elsewhere, InMemory
  <2>3. CASE RefuseTx(h) /\ handler[h].pc \in Holding \ {"add"}
    BY <1>1, <2>2, <2>3, RefuseTxHeld
  <2>4. CASE UNCHANGED submitted /\ \E new : MovesTo(h, new)
    <3>1. PICK new : MovesTo(h, new)
      BY <2>4
    <3> QED
      BY <1>1, <2>2, <2>4, <3>1, HeldByHandlers DEF MovesTo
  <2>5. CASE CheckNonce(h)
    <3> DEFINE next == [handler[h] EXCEPT !.index = @ + 1]
               checked == [handler[h] EXCEPT !.pc = NextCheck(handler[h].variant)]
    <3>1. /\ handler[h].pc \in Holding \ {"add"}
          /\ \/ RefuseTx(h)
             \/ UNCHANGED submitted /\ handler' = [handler EXCEPT ![h] = next]
             \/ UNCHANGED submitted /\ handler' = [handler EXCEPT ![h] = checked]
      BY <2>5 DEF CheckNonce, Holding
    <3>2. next.pc = handler[h].pc /\ next.variant = handler[h].variant
      BY <1>1 DEF HandlerState
    <3>3. checked.pc \in Holding \ {"add"} /\ checked.variant = handler[h].variant
      BY <1>1 DEF HandlerState, NextCheck, Holding
    <3> HIDE DEF next, checked
    <3> QED
      BY <2>3, <2>4, <3>1, <3>2, <3>3 DEF MovesTo
  <2>6. CASE CheckBatchSize(h)
    <3> DEFINE fits == [handler[h] EXCEPT !.pc = "insert"]
    <3>1. /\ handler[h].pc \in Holding \ {"add"}
          /\ \/ RefuseTx(h)
             \/ UNCHANGED submitted /\ handler' = [handler EXCEPT ![h] = fits]
      BY <2>6 DEF CheckBatchSize, Holding
    <3>2. fits.pc \in Holding \ {"add"} /\ fits.variant = handler[h].variant
      BY <1>1 DEF HandlerState, Holding
    <3> HIDE DEF fits
    <3> QED
      BY <2>3, <2>4, <3>1, <3>2 DEF MovesTo
  <2>7. CASE InsertTxFails(h)
    BY <2>3, <2>7 DEF InsertTxFails, Holding
  <2>8. CASE ReceiveConfirmedOps(h) \/ ReceiveUnconfirmedOp(h)
    <3>1. UNCHANGED submitted
      BY <2>8 DEF ReceiveConfirmedOps, ReceiveUnconfirmedOp, clientVars
    <3>2. CASE ReceiveConfirmedOps(h)
      <4>1. PICK lo, hi : handler' = [handler EXCEPT ![h].pc = "readSerial", ![h].ops = lo..hi,
                                                     ![h].confirmed = TRUE]
        BY <3>2 DEF ReceiveConfirmedOps
      <4> DEFINE new == [handler[h] EXCEPT !.pc = "readSerial", !.ops = lo..hi, !.confirmed = TRUE]
      <4>2. new.pc \notin Holding
        BY <1>1 DEF HandlerState, Holding
      <4>3. handler' = [handler EXCEPT ![h] = new]
        BY <4>1
      <4> HIDE DEF new
      <4> QED
        BY <2>4, <3>1, <4>2, <4>3 DEF MovesTo
    <3>3. CASE ReceiveUnconfirmedOp(h)
      <4>1. PICK s : handler' = [handler EXCEPT ![h].pc = "readSerial", ![h].ops = {s}]
        BY <3>3 DEF ReceiveUnconfirmedOp
      <4> DEFINE new == [handler[h] EXCEPT !.pc = "readSerial", !.ops = {s}]
      <4>2. new.pc \notin Holding
        BY <1>1 DEF HandlerState, Holding
      <4>3. handler' = [handler EXCEPT ![h] = new]
        BY <4>1
      <4> HIDE DEF new
      <4> QED
        BY <2>4, <3>1, <4>2, <4>3 DEF MovesTo
    <3> QED
      BY <2>8, <3>2, <3>3
  <2>9. CASE ReadMaxSerial(h) \/ InsertOps(h)
    <3> DEFINE new(ops) == [handler[h] EXCEPT !.pc = "insertOps", !.ops = ops]
               stored == [handler[h] EXCEPT !.pc = "addOps"]
    <3>1. UNCHANGED submitted
      BY <2>9 DEF ReadMaxSerial, InsertOps, clientVars
    <3>2. \/ handler' = [handler EXCEPT ![h] = IdleHandler]
          \/ \E ops : handler' = [handler EXCEPT ![h] = new(ops)]
          \/ handler' = [handler EXCEPT ![h] = stored]
      BY <2>9 DEF ReadMaxSerial, InsertOps
    <3>3. (\A ops : new(ops).pc \notin Holding) /\ stored.pc \notin Holding
      BY <1>1 DEF HandlerState, Holding
    <3> HIDE DEF new, stored
    <3> QED
      BY <2>4, <3>1, <3>2, <3>3, IdleHoldsNothing DEF MovesTo
  <2>10. CASE OpsFail(h) \/ AddOps(h)
    <3>1. UNCHANGED submitted /\ handler' = [handler EXCEPT ![h] = IdleHandler]
      BY <2>10 DEF OpsFail, AddOps, clientVars
    <3> QED
      BY <2>4, <3>1, IdleHoldsNothing DEF MovesTo
  <2> QED
    BY <2>1, <2>5, <2>6, <2>7, <2>8, <2>9, <2>10
<1> QED
  BY <1>2, <1>3

LEMMA HeldStep == Types /\ OrderInv /\ TxInv /\ OnceInv /\ Next => HeldApart'
<1> SUFFICES ASSUME Types, OrderInv, TxInv, OnceInv, Next PROVE HeldApart'
  OBVIOUS
<1>1. HeldApart /\ Stopped
  BY DEF OnceInv, OrderInv
<1>2. ASSUME NEW h \in Handler, TransactionsHandler(h) PROVE HeldApart'
  BY <1>1, <1>2, HandlersHeld
<1>3. ASSUME UNCHANGED <<handler, submitted, dbTxs>>, Durable' = Durable, Elsewhere' = Elsewhere
      PROVE  HeldApart'
  <2>1. \A h \in Handler : GoesOn(h)
    BY <1>3 DEF GoesOn
  <2> QED
    BY <1>1, <1>3, <2>1, HeldFrame DEF HeldApart
<1>4. CASE BlocksHandler
  <2>3. CASE SendFails
    <3>1. /\ UNCHANGED <<handler, submitted, dbTxs, dbReverted, dbChain>>
          /\ UNCHANGED <<pendingTxs, readyTxs, revertedTxs, keeperOpen>> /\ proposed'.txs = <<>>
      BY <2>3 DEF SendFails, NoBlock, queueVars, txVars, dbVars, keeperVars, clientVars
    <3>2. Durable' = Durable /\ Elsewhere' \subseteq Elsewhere
      BY <3>1, NoElements DEF Durable, Elsewhere, InMemory
    <3>3. \A h \in Handler : GoesOn(h)
      BY <3>1 DEF GoesOn
    <3> QED
      BY <1>1, <3>1, <3>2, <3>3, HeldFrame DEF HeldApart
  <2>1. UNCHANGED <<handler, submitted, dbTxs, dbReverted, dbChain>>
    BY <1>4 DEF BlocksHandler, ReceiveGetBlock, ProposeNewBlock, SendBlock, SendFails,
                ReceiveUpdateNonces,
                UpdateAccount, UpdatesDone, dbVars, clientVars
  <2>2. CASE ~SendFails
    <3>1. InMemory' = InMemory
      BY <1>4, <2>2, BlocksHandlerKeeps DEF KeepsAll
    <3>2. Durable' = Durable /\ Elsewhere' = Elsewhere
      BY <2>1, <3>1 DEF Durable, Elsewhere
    <3> QED
      BY <1>3, <2>1, <3>2
  <2> QED
    BY <2>2, <2>3
<1>5. CASE RequestBlock \/ Tick
  <2>1. /\ UNCHANGED <<handler, submitted, dbTxs, dbReverted, dbChain>>
        /\ UNCHANGED <<pendingTxs, readyTxs, revertedTxs, proposed, keeperOpen>>
    BY <1>5 DEF RequestBlock, Tick, queueVars, txVars, blocksVars, dbVars, keeperVars, clientVars
  <2>2. Durable' = Durable /\ Elsewhere' = Elsewhere
    BY <2>1 DEF Durable, Elsewhere, InMemory
  <2> QED
    BY <1>3, <2>1, <2>2
<1>6. CASE CommitBlock
  <2>1. UNCHANGED <<handler, submitted, dbTxs>>
    BY <1>6 DEF CommitBlock, clientVars
  <2>2. Durable' = Durable /\ Elsewhere' = Elsewhere
    BY <1>6, CommitBlockHolds DEF SameDurable, SameElsewhere, Elsewhere
  <2> QED
    BY <1>3, <2>1, <2>2
<1>7. ASSUME UNCHANGED submitted, Durable' \subseteq Durable, \A h \in Handler : handler'[h] = IdleHandler
      PROVE  HeldApart'
  BY <1>1, <1>7, IdleHoldsNothing DEF HeldApart
<1>8. CASE Crash
  <2>1. /\ UNCHANGED <<submitted, dbTxs, dbReverted, dbChain>>
        /\ \A h \in Handler : handler'[h] = IdleHandler
    BY <1>8 DEF Crash, dbVars, clientVars
  <2>2. Durable' = Durable
    BY <2>1 DEF Durable
  <2> QED
    BY <1>7, <2>1, <2>2
<1>9. CASE RevertBlock \/ RestoreFromDb
  <2>1. UNCHANGED <<submitted, handler>> /\ ~up
    BY <1>9 DEF RevertBlock, RestoreFromDb, clientVars
  <2>2. Durable' \subseteq Durable
    BY <1>9, RevertBlockHolds, RestoreHolds DEF SameDurable, Collected
  <2> QED
    BY <1>1, <1>7, <2>1, <2>2 DEF Stopped
<1> QED
  BY <1>2, <1>4, <1>5, <1>6, <1>8, <1>9 DEF Next, StateKeeper, Process

LEMMA OnceStep == Types /\ OrderInv /\ TxInv /\ OnceInv /\ [Next]_vars => OnceInv'
<1> SUFFICES ASSUME Types, OrderInv, TxInv, OnceInv, [Next]_vars PROVE OnceInv'
  OBVIOUS
<1>1. CASE Next
  BY <1>1, PlacedStep, HeldStep DEF OnceInv, Placed
<1>2. CASE UNCHANGED vars
  <2>1. /\ UNCHANGED <<handler, submitted, dbTxs, dbReverted, dbChain>>
        /\ UNCHANGED <<pendingTxs, readyTxs, revertedTxs, proposed, keeperOpen>>
    BY <1>2 DEF vars, queueVars, txVars, blocksVars, dbVars, keeperVars, clientVars
  <2>2. Placed'
    BY <2>1, PlacesFrame DEF placeVars, OnceInv, Placed
  <2>3. HeldApart'
    <3>1. Durable' = Durable /\ Elsewhere' = Elsewhere
      BY <2>1 DEF Durable, Elsewhere, InMemory
    <3>2. \A h \in Handler : GoesOn(h)
      BY <2>1 DEF GoesOn
    <3> QED
      BY <2>1, <3>1, <3>2, HeldFrame DEF OnceInv, HeldApart
  <2> QED
    BY <2>2, <2>3 DEF OnceInv, Placed
<1> QED
  BY <1>1, <1>2

-----------------------------------------------------------------------------
(* Places that repeat nothing and have nothing in common count nothing     *)
(* twice.                                                                  *)
CountIn(v, S) == IF v \in S THEN 1 ELSE 0

LEMMA CountsAre ==
    ASSUME NEW s, Once(s), NEW v
    PROVE  Occurrences(v, s) = CountIn(v, ToSet(s))
<1> DEFINE I == {i \in DOMAIN s : s[i] = v}
<1>1. CASE v \in ToSet(s)
  <2>1. PICK i \in DOMAIN s : s[i] = v
    BY <1>1 DEF ToSet
  <2>2. I = {i}
    BY <2>1 DEF Once
  <2>3. Cardinality({i}) = 1
    BY FS_Singleton
  <2> QED
    BY <1>1, <2>2, <2>3 DEF Occurrences, CountIn
<1>2. CASE v \notin ToSet(s)
  <2>1. I = {}
    BY <1>2 DEF ToSet
  <2> QED
    BY <1>2, <2>1, FS_EmptySet DEF Occurrences, CountIn
<1> QED
  BY <1>1, <1>2

LEMMA ApartIsOnce ==
    ASSUME NEW p, NEW q, NEW r, NEW s, NEW t, NEW u, Apart(p, q, r, s, t, u), NEW v, NEW b \in {0, 1},
           b <= CountIn(v, u)
    PROVE  CountIn(v, p) + CountIn(v, q) + CountIn(v, r) + CountIn(v, s) + CountIn(v, t) + b <= 1
<1>1. CASE v \in p
  BY <1>1 DEF Apart, CountIn
<1>2. CASE v \notin p /\ v \in q
  BY <1>2 DEF Apart, CountIn
<1>3. CASE v \notin p /\ v \notin q /\ v \in r
  BY <1>3 DEF Apart, CountIn
<1>4. CASE v \notin p /\ v \notin q /\ v \notin r /\ v \in s
  BY <1>4 DEF Apart, CountIn
<1>5. CASE v \notin p /\ v \notin q /\ v \notin r /\ v \notin s /\ v \in t
  BY <1>5 DEF Apart, CountIn
<1>6. CASE v \notin p /\ v \notin q /\ v \notin r /\ v \notin s /\ v \notin t
  BY <1>6 DEF CountIn
<1> QED
  BY <1>1, <1>2, <1>3, <1>4, <1>5, <1>6

LEMMA OnceIsAtMostOnce == Types /\ OnceInv => TxAtMostOnce
<1> SUFFICES ASSUME Types, OnceInv, NEW v \in Variant
             PROVE  (IF v \in pendingTxs THEN 1 ELSE 0)
                    + Occurrences(v, readyTxs)
                    + Cardinality({i \in DOMAIN revertedTxs : revertedTxs[i].tx = v})
                    + Occurrences(v, proposed.txs)
                    + Occurrences(v, TxsOfBlocks(keeperOpen))
                    + (IF up THEN Occurrences(v, TxsOfBlocks(dbChain)) ELSE 0) <= 1
  BY DEF TxAtMostOnce
<1> DEFINE chain == IF up THEN Occurrences(v, TxsOfBlocks(dbChain)) ELSE 0
<1>1. PlacesListed
  BY PlacesAreListed
<1>2. (IF v \in pendingTxs THEN 1 ELSE 0) = CountIn(v, pendingTxs)
  BY DEF CountIn
<1>3. Occurrences(v, readyTxs) = CountIn(v, ToSet(readyTxs))
  BY CountsAre DEF OnceInv, PlacesOnce
<1>4. Cardinality({i \in DOMAIN revertedTxs : revertedTxs[i].tx = v}) = CountIn(v, RevertedIn(revertedTxs))
  <2>1. Occurrences(v, TxList(revertedTxs)) = CountIn(v, ToSet(TxList(revertedTxs)))
    BY CountsAre DEF OnceInv, PlacesOnce
  <2>2. {i \in DOMAIN TxList(revertedTxs) : TxList(revertedTxs)[i] = v}
        = {i \in DOMAIN revertedTxs : revertedTxs[i].tx = v}
    BY DEF TxList
  <2> QED
    BY <1>1, <2>1, <2>2 DEF PlacesListed, Occurrences
<1>5. Occurrences(v, proposed.txs) = CountIn(v, ToSet(proposed.txs))
  BY CountsAre DEF OnceInv, PlacesOnce
<1>6. Occurrences(v, TxsOfBlocks(keeperOpen)) = CountIn(v, TxsIn(keeperOpen))
  <2>1. Occurrences(v, TxsOfBlocks(keeperOpen)) = CountIn(v, ToSet(TxsOfBlocks(keeperOpen)))
    BY CountsAre DEF OnceInv, PlacesOnce
  <2> QED
    BY <1>1, <2>1 DEF PlacesListed
<1>7. chain \in {0, 1} /\ chain <= CountIn(v, TxsIn(dbChain))
  <2>1. Occurrences(v, TxsOfBlocks(dbChain)) = CountIn(v, ToSet(TxsOfBlocks(dbChain)))
    BY CountsAre DEF OnceInv, PlacesOnce
  <2>2. Occurrences(v, TxsOfBlocks(dbChain)) = CountIn(v, TxsIn(dbChain))
    BY <1>1, <2>1 DEF PlacesListed
  <2>3. CountIn(v, TxsIn(dbChain)) \in {0, 1}
    BY DEF CountIn
  <2> QED
    BY <2>2, <2>3
<1>8. Apart(pendingTxs, ToSet(readyTxs), RevertedIn(revertedTxs), ToSet(proposed.txs),
            TxsIn(keeperOpen), TxsIn(dbChain))
  BY DEF OnceInv, PlacesApart
<1> HIDE DEF chain
<1>9. CountIn(v, pendingTxs) + CountIn(v, ToSet(readyTxs)) + CountIn(v, RevertedIn(revertedTxs))
      + CountIn(v, ToSet(proposed.txs)) + CountIn(v, TxsIn(keeperOpen)) + chain <= 1
  BY <1>7, <1>8, ApartIsOnce
<1> QED
  BY <1>2, <1>3, <1>4, <1>5, <1>6, <1>9 DEF chain

(* What was accepted once is never in two places, so that a transaction is *)
(* executed at most as often as it was accepted, however often it is sent: *)
(* two handlers never hold the same request, restore_from_db loads nothing *)
(* that the chain has, and what the selections pop leaves its queue        *)
(* (mod.rs: add_tx, add_batch, propose_new_block, prepare_tx_for_block,    *)
(* restore_from_db).  Copies of one transaction are distinct variants with *)
(* the same hash: the theorem allows any number of them.                   *)
THEOREM NowhereTwice == Spec => []TxAtMostOnce
<1>1. Init => Types /\ OrderInv /\ TxInv /\ OnceInv
  BY TypesInit, OrderInit, TxInit, OnceInit
<1>2. Types /\ OrderInv /\ TxInv /\ OnceInv /\ [Next]_vars => (Types /\ OrderInv /\ TxInv /\ OnceInv)'
  BY TypesStep, OrderStep, TxStep, OnceStep
<1>3. Types /\ OnceInv => TxAtMostOnce
  BY OnceIsAtMostOnce
<1> QED
  BY <1>1, <1>2, <1>3, PTL DEF Spec

-----------------------------------------------------------------------------
(* Chunks: the sums over sequences are numbers.                             *)
LEMMA OpsChunksAreNat ==
    ASSUME NEW ops \in Seq(SerialId)
    PROVE  /\ ChunksOfOps(ops) \in Nat
           /\ ops = <<>> => ChunksOfOps(ops) = 0
           /\ Len(ops) = 1 => ChunksOfOps(ops) = OpChunks[ops[1]]
<1> DEFINE D == DOMAIN ops
           w == [i \in D |-> OpChunks[ops[i]]]
           IsSum(g) == g = [s \in SUBSET D |->
                              IF s = {} THEN 0
                              ELSE OpChunks[ops[CHOOSE x \in s : TRUE]]
                                   + g[s \ {CHOOSE x \in s : TRUE}]]
           sum == CHOOSE g : IsSum(g)
<1>1. ChunksOfOps(ops) = sum[D]
  BY DEF ChunksOfOps, SumOver, MapThenSumSet, MapThenFoldSet
<1>2. IsFiniteSet(D) /\ w \in [D -> Nat]
  <2>1. D = 1 .. Len(ops) /\ Len(ops) \in Nat /\ \A i \in D : ops[i] \in SerialId
    OBVIOUS
  <2>2. IsFiniteSet(1 .. Len(ops))
    BY <2>1, FS_Interval
  <2>3. \A i \in D : OpChunks[ops[i]] \in Nat
    BY <2>1, SerialAssumption
  <2> HIDE DEF D
  <2> QED
    BY <2>1, <2>2, <2>3
<1>3. ASSUME NEW g PROVE IsSum(g) <=> Sums(g, w, D)
  <2>1. \A s \in SUBSET D : s # {} => (CHOOSE x \in s : TRUE) \in D
    OBVIOUS
  <2>2. \A s \in SUBSET D : s # {} =>
            w[CHOOSE x \in s : TRUE] = OpChunks[ops[CHOOSE x \in s : TRUE]]
    BY <2>1
  <2>3. \A s \in SUBSET D : SumStep(w, g, s)
          = IF s = {} THEN 0
            ELSE OpChunks[ops[CHOOSE x \in s : TRUE]] + g[s \ {CHOOSE x \in s : TRUE}]
    BY <2>2 DEF SumStep, Some
  <2> HIDE DEF w, D
  <2> QED
    BY <2>3 DEF Sums
<1> HIDE DEF w, IsSum, D
<1>4. IsSum(sum)
  <2>1. PICK g : Sums(g, w, D)
    BY <1>2, SumsExist
  <2>2. IsSum(g)
    BY <1>3, <2>1
  <2> QED
    BY <2>2
<1> HIDE DEF sum
<1>5. Sums(sum, w, D)
  BY <1>3, <1>4
<1>6. (\A s \in SUBSET D : sum[s] \in Nat) /\ sum[{}] = 0
  BY <1>2, <1>5, SumsAreNat
<1>7. sum[D] \in Nat
  BY <1>6
<1>8. ASSUME Len(ops) = 1 PROVE sum[D] = OpChunks[ops[1]]
  <2>1. D = {1} /\ 1 \in D
    BY <1>8 DEF D
  <2>2. sum[D] = w[1]
    BY <1>2, <1>5, <2>1, SumOfOne
  <2>3. w[1] = OpChunks[ops[1]]
    BY <2>1 DEF w
  <2> QED
    BY <2>1, <2>2, <2>3
<1> QED
  BY <1>1, <1>6, <1>7, <1>8 DEF D

LEMMA VariantChunksAreNat ==
    ASSUME NEW v \in Variant, NEW known
    PROVE  RequiredChunks(v, known) \in Nat
<1> DEFINE D == DOMAIN TxsOf[v]
           w == [i \in D |-> ChunksForTx(TxsOf[v][i], known)]
           IsSum(g) == g = [s \in SUBSET D |->
                              IF s = {} THEN 0
                              ELSE ChunksForTx(TxsOf[v][CHOOSE x \in s : TRUE], known)
                                   + g[s \ {CHOOSE x \in s : TRUE}]]
           sum == CHOOSE g : IsSum(g)
<1>1. RequiredChunks(v, known) = sum[D]
  BY DEF RequiredChunks, SumOver, MapThenSumSet, MapThenFoldSet
<1>2. IsFiniteSet(D) /\ w \in [D -> Nat]
  <2>1. D = 1 .. Len(TxsOf[v]) /\ Len(TxsOf[v]) \in Nat /\ \A i \in D : TxsOf[v][i] \in Tx
    BY VariantAssumption
  <2>2. IsFiniteSet(1 .. Len(TxsOf[v]))
    BY <2>1, FS_Interval
  <2>3. \A i \in D : ChunksForTx(TxsOf[v][i], known) \in Nat
    BY <2>1, ChunksAssumption DEF ChunksForTx, Tx
  <2> HIDE DEF D
  <2> QED
    BY <2>1, <2>2, <2>3
<1>3. ASSUME NEW g PROVE IsSum(g) <=> Sums(g, w, D)
  <2>1. \A s \in SUBSET D : s # {} => (CHOOSE x \in s : TRUE) \in D
    OBVIOUS
  <2>2. \A s \in SUBSET D : s # {} =>
            w[CHOOSE x \in s : TRUE] = ChunksForTx(TxsOf[v][CHOOSE x \in s : TRUE], known)
    BY <2>1
  <2>3. \A s \in SUBSET D : SumStep(w, g, s)
          = IF s = {} THEN 0
            ELSE ChunksForTx(TxsOf[v][CHOOSE x \in s : TRUE], known) + g[s \ {CHOOSE x \in s : TRUE}]
    BY <2>2 DEF SumStep, Some
  <2> HIDE DEF w, D
  <2> QED
    BY <2>3 DEF Sums
<1> HIDE DEF w, IsSum, D
<1>4. IsSum(sum)
  <2>1. PICK g : Sums(g, w, D)
    BY <1>2, SumsExist
  <2>2. IsSum(g)
    BY <1>3, <2>1
  <2> QED
    BY <2>2
<1> HIDE DEF sum
<1>5. Sums(sum, w, D)
  BY <1>3, <1>4
<1>6. (\A s \in SUBSET D : sum[s] \in Nat) /\ sum[{}] = 0
  BY <1>2, <1>5, SumsAreNat
<1>7. sum[D] \in Nat
  BY <1>6
<1> QED
  BY <1>1, <1>6, <1>7

LEMMA TxsChunksAreNat ==
    ASSUME NEW vs \in Seq(Variant), NEW known
    PROVE  /\ ChunksOfTxs(vs, known) \in Nat
           /\ vs = <<>> => ChunksOfTxs(vs, known) = 0
           /\ Len(vs) = 1 => ChunksOfTxs(vs, known) = RequiredChunks(vs[1], known)
<1> DEFINE D == DOMAIN vs
           w == [i \in D |-> RequiredChunks(vs[i], known)]
           IsSum(g) == g = [s \in SUBSET D |->
                              IF s = {} THEN 0
                              ELSE RequiredChunks(vs[CHOOSE x \in s : TRUE], known)
                                   + g[s \ {CHOOSE x \in s : TRUE}]]
           sum == CHOOSE g : IsSum(g)
<1>1. ChunksOfTxs(vs, known) = sum[D]
  BY DEF ChunksOfTxs, SumOver, MapThenSumSet, MapThenFoldSet
<1>2. IsFiniteSet(D) /\ w \in [D -> Nat]
  <2>1. D = 1 .. Len(vs) /\ Len(vs) \in Nat /\ \A i \in D : vs[i] \in Variant
    OBVIOUS
  <2>2. IsFiniteSet(1 .. Len(vs))
    BY <2>1, FS_Interval
  <2>3. \A i \in D : RequiredChunks(vs[i], known) \in Nat
    BY <2>1, VariantChunksAreNat
  <2> HIDE DEF D
  <2> QED
    BY <2>1, <2>2, <2>3
<1>3. ASSUME NEW g PROVE IsSum(g) <=> Sums(g, w, D)
  <2>1. \A s \in SUBSET D : s # {} => (CHOOSE x \in s : TRUE) \in D
    OBVIOUS
  <2>2. \A s \in SUBSET D : s # {} =>
            w[CHOOSE x \in s : TRUE] = RequiredChunks(vs[CHOOSE x \in s : TRUE], known)
    BY <2>1
  <2>3. \A s \in SUBSET D : SumStep(w, g, s)
          = IF s = {} THEN 0
            ELSE RequiredChunks(vs[CHOOSE x \in s : TRUE], known) + g[s \ {CHOOSE x \in s : TRUE}]
    BY <2>2 DEF SumStep, Some
  <2> HIDE DEF w, D
  <2> QED
    BY <2>3 DEF Sums
<1> HIDE DEF w, IsSum, D
<1>4. IsSum(sum)
  <2>1. PICK g : Sums(g, w, D)
    BY <1>2, SumsExist
  <2>2. IsSum(g)
    BY <1>3, <2>1
  <2> QED
    BY <2>2
<1> HIDE DEF sum
<1>5. Sums(sum, w, D)
  BY <1>3, <1>4
<1>6. (\A s \in SUBSET D : sum[s] \in Nat) /\ sum[{}] = 0
  BY <1>2, <1>5, SumsAreNat
<1>7. sum[D] \in Nat
  BY <1>6
<1>8. ASSUME Len(vs) = 1 PROVE sum[D] = RequiredChunks(vs[1], known)
  <2>1. D = {1} /\ 1 \in D
    BY <1>8 DEF D
  <2>2. sum[D] = w[1]
    BY <1>2, <1>5, <2>1, SumOfOne
  <2>3. w[1] = RequiredChunks(vs[1], known)
    BY <2>1 DEF w
  <2> QED
    BY <2>1, <2>2, <2>3
<1> QED
  BY <1>1, <1>6, <1>7, <1>8 DEF D

-----------------------------------------------------------------------------
(* A proposed block fits: chunksLeft is what the operations of the block   *)
(* leave, and nothing that changes what a transaction costs happens until  *)
(* the block is sent.                                                      *)
Fits(ops, txs, known) == ChunksOfOps(ops) + ChunksOfTxs(txs, known) <= MaxBlockChunks
ChunksCounted == blocksPc = "txs" => chunksLeft = MaxBlockChunks - ChunksOfOps(proposed.ops)
FitsInv == ChunksCounted /\ BlockFits

LEMMA FitsInit == Init => FitsInv
BY DEF Init, FitsInv, ChunksCounted, BlockFits

LEMMA FitsFrame ==
    ASSUME FitsInv, UNCHANGED <<blocksPc, proposed, chunksLeft, accountNonces>>
    PROVE  FitsInv'
BY DEF FitsInv, ChunksCounted, BlockFits, KnownAccounts

LEMMA FitsElsewhere ==
    ASSUME blocksPc' \notin {"txs", "send"}
    PROVE  FitsInv'
BY DEF FitsInv, ChunksCounted, BlockFits

LEMMA BecomesFit ==
    ASSUME blocksPc' # "txs", accountNonces' = accountNonces,
           Fits(proposed'.ops, proposed'.txs, KnownAccounts)
    PROVE  FitsInv'
BY DEF FitsInv, ChunksCounted, BlockFits, KnownAccounts, Fits

LEMMA FitsIntoRest ==
    ASSUME NEW ops \in Seq(SerialId), NEW txs \in Seq(Variant), NEW known, NEW left,
           left = MaxBlockChunks - ChunksOfOps(ops), ChunksOfTxs(txs, known) <= left
    PROVE  Fits(ops, txs, known)
<1>1. ChunksOfOps(ops) \in Nat /\ ChunksOfTxs(txs, known) \in Nat /\ MaxBlockChunks \in Nat
  BY OpsChunksAreNat, TxsChunksAreNat, MempoolAssumption
<1> QED
  BY <1>1 DEF Fits

LEMMA SelectRevertedFits ==
    ASSUME QueueNow, SelectReverted, accountNonces' = accountNonces
    PROVE  FitsInv'
<1>1. PICK k \in 0..Len(priorityOps), r \in 0..Len(revertedTxs) :
        \E ops \in FoundOps(priorityOps, k, request.first, MissingOps) :
            /\ ChunksOfTxs([i \in 1..r |-> revertedTxs[i].tx], KnownAccounts) <= MaxBlockChunks - ChunksOfOps(ops)
            /\ proposed' = [proposed EXCEPT !.ops = ops, !.txs = [i \in 1..r |-> revertedTxs[i].tx]]
            /\ blocksPc' = IF ops = <<>> /\ r = 0 THEN "ops" ELSE "send"
  BY DEF SelectReverted, StopsAt, ChunksLeft
<1>2. PICK ops \in FoundOps(priorityOps, k, request.first, MissingOps) :
        /\ ChunksOfTxs([i \in 1..r |-> revertedTxs[i].tx], KnownAccounts) <= MaxBlockChunks - ChunksOfOps(ops)
        /\ proposed' = [proposed EXCEPT !.ops = ops, !.txs = [i \in 1..r |-> revertedTxs[i].tx]]
        /\ blocksPc' = IF ops = <<>> /\ r = 0 THEN "ops" ELSE "send"
  BY <1>1
<1> DEFINE txs == [i \in 1..r |-> revertedTxs[i].tx]
<1>3. proposed \in Block /\ proposed'.ops = ops /\ proposed'.txs = txs
  <2>1. proposed \in Block
    BY DEF QueueNow
  <2> HIDE DEF txs
  <2>2. proposed' = [proposed EXCEPT !.ops = ops, !.txs = txs]
    BY <1>2 DEF txs
  <2> QED
    BY <2>1, <2>2 DEF Block
<1>4. ops \in Seq(SerialId) /\ txs \in Seq(Variant)
  <2>1. Selection
    BY SelectRevertedSelects
  <2> QED
    BY <1>3, <2>1 DEF Selection, Block
<1> HIDE DEF txs
<1>5. Fits(ops, txs, KnownAccounts)
  <2>1. ChunksOfTxs(txs, KnownAccounts) <= MaxBlockChunks - ChunksOfOps(ops)
    BY <1>2 DEF txs
  <2> QED
    BY <1>4, <2>1, FitsIntoRest
<1> QED
  BY <1>2, <1>3, <1>5, BecomesFit

LEMMA DoesNotFitFits ==
    ASSUME QueueNow, proposed.txs = <<>>, RevertedOpDoesNotFit, accountNonces' = accountNonces
    PROVE  FitsInv'
<1>1. PICK n \in 0..MissingOps - 1, k \in 1..Len(priorityOps) :
        \E found \in FoundOps(priorityOps, k, request.first, n + 1) :
            /\ ChunksOfOps(Take(found, n)) <= MaxBlockChunks
            /\ proposed' = [proposed EXCEPT !.ops = Take(found, n)]
            /\ blocksPc' = IF n = 0 THEN "ops" ELSE "send"
  BY DEF RevertedOpDoesNotFit
<1>2. PICK ops : /\ ChunksOfOps(ops) <= MaxBlockChunks
                 /\ proposed' = [proposed EXCEPT !.ops = ops]
                 /\ blocksPc' \in {"ops", "send"}
  BY <1>1
<1>3. proposed'.ops = ops /\ proposed'.txs = <<>>
  BY <1>2 DEF QueueNow, Block
<1>4. ops \in Seq(SerialId)
  <2>1. Selection
    BY DoesNotFitSelects
  <2> QED
    BY <1>3, <2>1 DEF Selection, Block
<1>5. Fits(ops, <<>>, KnownAccounts)
  <2>1. <<>> \in Seq(Variant)
    OBVIOUS
  <2>2. ChunksOfTxs(<<>>, KnownAccounts) = 0
    BY <2>1, TxsChunksAreNat
  <2>3. ChunksOfOps(ops) \in Nat
    BY <1>4, OpsChunksAreNat
  <2> QED
    BY <1>2, <2>2, <2>3 DEF Fits
<1> QED
  BY <1>2, <1>3, <1>5, BecomesFit

LEMMA PriorityOpsFit ==
    ASSUME QueueNow, SelectPriorityOps
    PROVE  FitsInv'
<1>1. PICK ops : /\ proposed' = [proposed EXCEPT !.ops = ops]
                 /\ chunksLeft' = MaxBlockChunks - ChunksOfOps(ops)
  BY DEF SelectPriorityOps, ChunksLeft
<1>2. proposed'.ops = ops
  BY <1>1 DEF QueueNow, Block
<1>3. blocksPc' # "send"
  BY DEF SelectPriorityOps
<1> QED
  BY <1>1, <1>2, <1>3 DEF FitsInv, ChunksCounted, BlockFits

LEMMA PrepareTxFits ==
    ASSUME QueueNow, ChunksCounted, PrepareTxForBlock, accountNonces' = accountNonces
    PROVE  FitsInv'
<1>1. PICK txs : /\ proposed' = [proposed EXCEPT !.txs = txs]
                 /\ ChunksOfTxs(txs, KnownAccounts) <= chunksLeft
  BY DEF PrepareTxForBlock, StopsAt
<1>2. proposed'.ops = proposed.ops /\ proposed'.txs = txs /\ proposed.ops \in Seq(SerialId)
  BY <1>1 DEF QueueNow, Block
<1>3. txs \in Seq(Variant)
  <2>1. Selection
    BY PrepareTxSelects
  <2> QED
    BY <1>2, <2>1 DEF Selection, Block
<1>4. blocksPc = "txs" /\ blocksPc' = "send"
  BY DEF PrepareTxForBlock
<1>5. Fits(proposed.ops, txs, KnownAccounts)
  BY <1>1, <1>2, <1>3, <1>4, FitsIntoRest DEF ChunksCounted
<1> QED
  BY <1>2, <1>4, <1>5, BecomesFit

LEMMA FitsStep == Types /\ OrderInv /\ TxInv /\ FitsInv /\ [Next]_vars => FitsInv'
<1> SUFFICES ASSUME Types, OrderInv, TxInv, FitsInv, [Next]_vars PROVE FitsInv'
  OBVIOUS
<1>1. QueueNow
  BY DEF Types, BlockTypes, QueueNow
<1>2. ASSUME NEW h \in Handler, TransactionsHandler(h)
      PROVE  UNCHANGED <<blocksPc, proposed, chunksLeft, accountNonces>>
  BY <1>2 DEF TransactionsHandler, ReceiveTx, CheckNonce, CheckBatchSize, InsertTx, InsertTxFails,
              AddTx, ReceiveConfirmedOps, ReceiveUnconfirmedOp, ReadMaxSerial, InsertOps, OpsFail,
              AddOps, blocksVars, accountVars
<1>3. CASE ProposeNewBlock
  <2>1. accountNonces' = accountNonces
    BY <1>3 DEF ProposeNewBlock, accountVars
  <2>2. CASE NothingReverted \/ RevertedOpIsMissing
    BY <2>2, FitsElsewhere DEF NothingReverted, RevertedOpIsMissing
  <2>3. CASE SelectReverted
    BY <1>1, <2>1, <2>3, SelectRevertedFits
  <2>4. CASE RevertedOpDoesNotFit
    <3>1. proposed.txs = <<>>
      BY <2>4 DEF TxInv, SelectedLast, RevertedOpDoesNotFit
    <3> QED
      BY <1>1, <2>1, <2>4, <3>1, DoesNotFitFits
  <2>5. CASE SelectPriorityOps
    BY <1>1, <2>5, PriorityOpsFit
  <2>6. CASE PrepareTxForBlock
    BY <1>1, <2>1, <2>6, PrepareTxFits DEF FitsInv
  <2> QED
    BY <1>3, <2>2, <2>3, <2>4, <2>5, <2>6 DEF ProposeNewBlock
<1>4. CASE ReceiveGetBlock \/ SendBlock \/ SendFails \/ ReceiveUpdateNonces \/ UpdateAccount
           \/ UpdatesDone \/ Crash
  <2>1. blocksPc' \in {"reverted", "idle", "notSent", "updating"}
    BY <1>4 DEF ReceiveGetBlock, SendBlock, SendFails,
  ReceiveUpdateNonces, UpdateAccount, UpdatesDone, Crash
  <2> QED
    BY <2>1, FitsElsewhere
<1>5. CASE StateKeeper \/ RevertBlock
  <2>1. UNCHANGED <<blocksPc, proposed, chunksLeft, accountNonces>>
    BY <1>5 DEF StateKeeper, RequestBlock, Tick, CommitBlock, RevertBlock, blocksVars, accountVars
  <2> QED
    BY <2>1, FitsFrame
<1>6. CASE RestoreFromDb
  <2>1. blocksPc' = "idle"
    BY <1>6 DEF RestoreFromDb, OrderInv, Stopped, blocksVars
  <2> QED
    BY <2>1, FitsElsewhere
<1>7. CASE UNCHANGED vars
  BY <1>7, FitsFrame DEF vars, accountVars, blocksVars
<1> QED
  BY <1>2, <1>3, <1>4, <1>5, <1>6, <1>7, FitsFrame DEF Next, BlocksHandler, Process

(* A block is never larger than max_block_size_chunks when it is sent: the *)
(* operations, the reverted transactions and the ready ones are selected   *)
(* under separate locks, but chunks_left carries over what is left, and    *)
(* the accounts that decide what a transfer costs change only between two  *)
(* blocks (mod.rs: propose_new_block and its three selections).            *)
THEOREM ProposalsFit == Spec => []BlockFits
<1>1. Init => Types /\ OrderInv /\ TxInv /\ FitsInv
  BY TypesInit, OrderInit, TxInit, FitsInit
<1>2. Types /\ OrderInv /\ TxInv /\ FitsInv /\ [Next]_vars => (Types /\ OrderInv /\ TxInv /\ FitsInv)'
  BY TypesStep, OrderStep, TxStep, FitsStep
<1>3. FitsInv => BlockFits
  BY DEF FitsInv
<1> QED
  BY <1>1, <1>2, <1>3, PTL DEF Spec

-----------------------------------------------------------------------------
(* The place of reverted transactions.  First: what is accepted fits.      *)
AcceptedFit ==
    /\ \A v \in Durable : FitsAlways(v)
    /\ \A h \in Handler : handler[h].pc = "insert" => FitsAlways(handler[h].variant)

\* What can come in when a handler reaches the database.
LEMMA InsertComesFrom ==
    ASSUME SizesSettled, Types, AcceptedFit, NEW h \in Handler, TransactionsHandler(h)
    PROVE  \A g \in Handler : handler'[g].pc = "insert" => FitsAlways(handler'[g].variant)
<1>1. handler \in [Handler -> HandlerState] /\ HoldsTx(handler[h])
  BY DEF Types, HandlerTypes
<1>2. SUFFICES ASSUME handler'[h].pc = "insert" PROVE FitsAlways(handler'[h].variant)
  <2>1. \A g \in Handler \ {h} : handler'[g] = handler[g]
    BY <1>1 DEF TransactionsHandler, ReceiveTx, CheckNonce, RefuseTx, CheckBatchSize, InsertTx,
              InsertTxFails, AddTx, ReceiveConfirmedOps, ReceiveUnconfirmedOp, ReadMaxSerial,
              InsertOps, OpsFail, AddOps
  <2> QED
    BY <1>2, <2>1 DEF AcceptedFit
<1>3. IdleHandler.pc # "insert"
  BY DEF IdleHandler
<1>4. CASE CheckNonce(h)
  <2>1. /\ handler[h].pc = "nonce" /\ NextCheck(handler[h].variant) = "insert"
        /\ handler'[h].variant = handler[h].variant
    BY <1>1, <1>2, <1>3, <1>4 DEF CheckNonce, RefuseTx, HandlerState
  <2>2. handler[h].variant \in Variant \ Batch
    BY <1>1, <2>1 DEF NextCheck, HoldsTx
  <2> QED
    BY <2>1, <2>2 DEF SizesSettled
<1>5. CASE CheckBatchSize(h)
  <2>1. /\ handler[h].pc = "size" /\ handler'[h].variant = handler[h].variant
        /\ RequiredChunks(handler[h].variant, KnownAccounts) <= MaxBlockChunks
    BY <1>1, <1>2, <1>3, <1>5 DEF CheckBatchSize, RefuseTx, HandlerState
  <2>2. handler[h].variant \in Variant /\ KnownAccounts \in SUBSET Address
    BY <1>1, <2>1 DEF HoldsTx, KnownAccounts, Known
  <2>3. CASE handler[h].variant \in Batch
    BY <2>1, <2>2, <2>3 DEF SizesSettled
  <2>4. CASE handler[h].variant \notin Batch
    BY <2>1, <2>2, <2>4 DEF SizesSettled
  <2> QED
    BY <2>3, <2>4
<1>6. CASE ~CheckNonce(h) /\ ~CheckBatchSize(h)
  <2>1. handler'[h].pc # "insert"
    <3>1. handler[h] \in HandlerState
      BY <1>1
    <3>2. ASSUME NEW v \in Variant, ReceiveTx(h, v) PROVE handler'[h].pc # "insert"
      BY <1>1, <3>1, <3>2 DEF ReceiveTx, HandlerState
    <3>3. CASE InsertTx(h)
      BY <1>1, <3>1, <3>3 DEF InsertTx, HandlerState
    <3>4. CASE InsertTxFails(h) \/ AddTx(h) \/ OpsFail(h) \/ AddOps(h)
      BY <1>1, <1>3, <3>4 DEF InsertTxFails, RefuseTx, AddTx, OpsFail, AddOps
    <3>5. CASE ReceiveConfirmedOps(h)
      BY <1>1, <3>1, <3>5 DEF ReceiveConfirmedOps, HandlerState
    <3>6. CASE ReceiveUnconfirmedOp(h)
      BY <1>1, <3>1, <3>6 DEF ReceiveUnconfirmedOp, HandlerState
    <3>7. CASE ReadMaxSerial(h)
      BY <1>1, <1>3, <3>1, <3>7 DEF ReadMaxSerial, HandlerState
    <3>8. CASE InsertOps(h)
      BY <1>1, <1>3, <3>1, <3>8 DEF InsertOps, HandlerState
    <3> QED
      BY <1>6, <3>2, <3>3, <3>4, <3>5, <3>6, <3>7, <3>8 DEF TransactionsHandler
  <2> QED
    BY <1>2, <2>1
<1> QED
  BY <1>4, <1>5, <1>6

LEMMA DurableComesFrom ==
    ASSUME Types, TxInv, Next
    PROVE  \/ Durable' \subseteq Durable
           \/ \E h \in Handler : /\ handler[h].pc = "insert"
                                 /\ Durable' = Durable \cup {handler[h].variant}
<1>1. ASSUME NEW h \in Handler, InsertTx(h)
      PROVE  handler[h].pc = "insert" /\ Durable' = Durable \cup {handler[h].variant}
  BY <1>1 DEF InsertTx, Durable
<1>2. ASSUME NEW h \in Handler, TransactionsHandler(h), ~InsertTx(h) PROVE Durable' = Durable
  <2>1. CASE AddTx(h)
    BY <2>1 DEF AddTx, dbVars, Durable
  <2>2. CASE ~AddTx(h)
    BY <1>2, <2>2, HandlersUntouched DEF Untouched, tableVars, Durable
  <2> QED
    BY <2>1, <2>2
<1>3. CASE BlocksHandler \/ RequestBlock \/ Tick \/ Crash
  BY <1>3 DEF BlocksHandler, ReceiveGetBlock, ProposeNewBlock, SendBlock, SendFails,
              ReceiveUpdateNonces,
              UpdateAccount, UpdatesDone, RequestBlock, Tick, Crash, dbVars, Durable
<1>4. CASE CommitBlock \/ RevertBlock \/ RestoreFromDb
  BY <1>4, CommitBlockHolds, RevertBlockHolds, RestoreHolds DEF SameDurable, Collected
<1> QED
  BY <1>1, <1>2, <1>3, <1>4 DEF Next, StateKeeper, Process

LEMMA AcceptedFitStep ==
    ASSUME SizesSettled
    PROVE  Types /\ TxInv /\ AcceptedFit /\ [Next]_vars => AcceptedFit'
<1> SUFFICES ASSUME Types, TxInv, AcceptedFit, [Next]_vars PROVE AcceptedFit'
  OBVIOUS
<1>1. CASE Next
  <2>1. \A v \in Durable' : FitsAlways(v)
    BY <1>1, DurableComesFrom DEF AcceptedFit
  <2>2. ASSUME NEW h \in Handler, TransactionsHandler(h)
        PROVE  \A g \in Handler : handler'[g].pc = "insert" => FitsAlways(handler'[g].variant)
    BY <2>2, InsertComesFrom
  <2>3. CASE BlocksHandler \/ StateKeeper \/ RevertBlock \/ RestoreFromDb
    <3>1. handler' = handler
      BY <2>3 DEF BlocksHandler, ReceiveGetBlock, ProposeNewBlock, SendBlock, SendFails,
              ReceiveUpdateNonces,
              UpdateAccount, UpdatesDone, StateKeeper, RequestBlock, Tick, CommitBlock, RevertBlock,
              RestoreFromDb
    <3> QED
      BY <2>1, <3>1 DEF AcceptedFit
  <2>4. CASE Crash
    <3>1. \A h \in Handler : handler'[h].pc # "insert"
      BY <2>4 DEF Crash, IdleHandler
    <3> QED
      BY <2>1, <3>1 DEF AcceptedFit
  <2> QED
    BY <1>1, <2>1, <2>2, <2>3, <2>4 DEF Next, Process, AcceptedFit
<1>2. CASE UNCHANGED vars
  BY <1>2 DEF vars, dbVars, AcceptedFit, Durable
<1> QED
  BY <1>1, <1>2

-----------------------------------------------------------------------------
(* What waits in the other queues is a stored transaction, not a reverted  *)
(* one.                                                                    *)
QueuedStored == pendingTxs \cup ToSet(readyTxs) \subseteq dbTxs

LEMMA ReadyComesFrom ==
    ASSUME TxInv, Placed, Placed', PrepareTxForBlock, UNCHANGED <<tableVars, keeperOpen>>
    PROVE  pendingTxs' \cup ToSet(readyTxs') \cup ToSet(proposed'.txs) \subseteq pendingTxs \cup ToSet(readyTxs)
<1>1. InMemory' = InMemory
  BY PrepareTxHolds
<1>2. UNCHANGED <<revertedTxs, keeperOpen>> /\ ToSet(proposed.txs) = {}
  BY NoElements DEF PrepareTxForBlock, TxInv, SelectedLast
<1>3. (pendingTxs' \cup ToSet(readyTxs') \cup ToSet(proposed'.txs))
        \cap (RevertedIn(revertedTxs') \cup TxsIn(keeperOpen')) = {}
  BY DEF Placed, PlacesApart, Apart
<1> QED
  BY <1>1, <1>2, <1>3 DEF InMemory

LEMMA QueuedStoredStep ==
    ASSUME Types, OrderInv, TxInv, OnceInv, QueuedStored, [Next]_vars
    PROVE  QueuedStored'
<1>1. CASE UNCHANGED <<pendingTxs, readyTxs, dbTxs>>
  BY <1>1 DEF QueuedStored
<1>2. ASSUME NEW h \in Handler, TransactionsHandler(h) PROVE QueuedStored'
  <2>1. CASE InsertTx(h)
    BY <2>1 DEF InsertTx, queueVars, txVars, QueuedStored
  <2>2. CASE AddTx(h)
    <3>1. handler[h].variant \in dbTxs /\ UNCHANGED <<readyTxs, dbTxs>>
          /\ pendingTxs' = pendingTxs \cup {handler[h].variant}
      BY <2>2 DEF AddTx, OnceInv, HeldApart, Holding, dbVars
    <3> QED
      BY <3>1 DEF QueuedStored
  <2>3. CASE ~InsertTx(h) /\ ~AddTx(h)
    <3>1. UNCHANGED <<pendingTxs, readyTxs, dbTxs>>
      BY <1>2, <2>3, HandlersUntouched DEF Untouched, memoryVars, tableVars
    <3> QED
      BY <1>1, <3>1
  <2> QED
    BY <2>1, <2>2, <2>3
<1>3. CASE PrepareTxForBlock /\ ProposeNewBlock
  <2>1. UNCHANGED <<tableVars, keeperOpen, dbTxs>>
    BY <1>3 DEF ProposeNewBlock, dbVars, keeperVars, tableVars
  <2>2. Placed
    BY DEF OnceInv, Placed
  <2>3. Placed'
    BY <1>3, PlacedStep DEF Next, BlocksHandler
  <2> QED
    BY <1>3, <2>1, <2>2, <2>3, ReadyComesFrom DEF QueuedStored
<1>4. CASE ProposeNewBlock /\ ~PrepareTxForBlock
  <2>1. UNCHANGED <<pendingTxs, readyTxs, dbTxs>>
    BY <1>4 DEF ProposeNewBlock, NothingReverted, SelectReverted, RevertedOpDoesNotFit,
                RevertedOpIsMissing, SelectPriorityOps, queueVars, txVars, dbVars
  <2> QED
    BY <1>1, <2>1
<1>5. CASE ReceiveGetBlock \/ SendBlock \/ SendFails \/ ReceiveUpdateNonces \/ UpdateAccount \/ UpdatesDone
           \/ StateKeeper \/ UNCHANGED vars
  <2>1. UNCHANGED <<pendingTxs, readyTxs, dbTxs>>
    BY <1>5 DEF ReceiveGetBlock, SendBlock, SendFails,
                ReceiveUpdateNonces, UpdateAccount, UpdatesDone,
                StateKeeper, RequestBlock, Tick, CommitBlock, vars, queueVars, txVars, dbVars
  <2> QED
    BY <1>1, <2>1
<1>6. CASE Crash
  <2>1. pendingTxs' = {} /\ readyTxs' = <<>>
    BY <1>6 DEF Crash
  <2> QED
    BY <2>1, NoElements DEF QueuedStored
<1>7. CASE RevertBlock
  <2>1. ~up /\ UNCHANGED <<pendingTxs, readyTxs>>
    BY <1>7 DEF RevertBlock, queueVars, txVars
  <2>2. pendingTxs' = {} /\ readyTxs' = <<>>
    BY <2>1 DEF OrderInv, Stopped
  <2> QED
    BY <2>2, NoElements DEF QueuedStored
<1>8. CASE RestoreFromDb
  <2>1. pendingTxs' = dbTxs' /\ readyTxs' = <<>>
    BY <1>8 DEF RestoreFromDb
  <2> QED
    BY <2>1, NoElements DEF QueuedStored
<1> QED
  BY <1>2, <1>3, <1>4, <1>5, <1>6, <1>7, <1>8 DEF Next, BlocksHandler, Process

-----------------------------------------------------------------------------
(* Where reverted transactions are, and behind which operation each comes. *)
Waiting(e) == e.tx \notin TxsIn(dbChain)
Sorted(s) == \A i, j \in DOMAIN s : i < j => s[i].next <= s[j].next

\* In the table: in order, and none before the end of the chain.
TableInPlace ==
    /\ \A e \in ToSet(dbReverted) : Waiting(e) => e.next >= DbMaxSerial + 1
    /\ \A i, j \in DOMAIN dbReverted :
        i < j /\ Waiting(dbReverted[i]) /\ Waiting(dbReverted[j])
            => dbReverted[i].next <= dbReverted[j].next

\* In the queue: in order, and none before the end of the last block; no other
\* queue is looked at before this one is empty.
QueueInPlace ==
    /\ Sorted(revertedTxs) /\ ToSet(revertedTxs) \subseteq ToSet(dbReverted)
    /\ \A e \in ToSet(revertedTxs) :
        /\ e.next >= keeperNext
        /\ blocksPc = "send" => e.next >= EndOf(proposed)
    /\ blocksPc \in {"ops", "txs"} => revertedTxs = <<>>

\* In a block: at its end.
AtEnd(b) == \A e \in ToSet(dbReverted) : e.tx \in ToSet(b.txs) => e.next = EndOf(b)
BlocksInPlace ==
    /\ \A b \in ToSet(keeperOpen) : AtEnd(b)
    /\ blocksPc = "send" => AtEnd(proposed)

\* And nowhere else, but for the block whose send failed.
RevertedSomewhere ==
    up => \A e \in ToSet(dbReverted) :
            \/ e.tx \in RevertedIn(revertedTxs) \cup ToSet(proposed.txs) \cup TxsIn(keeperOpen)
                        \cup TxsIn(dbChain)
            \/ blocksPc = "notSent" /\ e.next >= keeperNext

PlaceInv == TableInPlace /\ QueueInPlace /\ BlocksInPlace /\ RevertedSomewhere

\* Entries of the table are told apart by their transaction.
LEMMA EntryOf ==
    ASSUME NEW s \in Seq(RevertedTx), Once(TxList(s)), NEW d \in ToSet(s), NEW e \in ToSet(s), d.tx = e.tx
    PROVE  d = e
<1>1. PICK i \in DOMAIN s, j \in DOMAIN s : d = s[i] /\ e = s[j]
  BY DEF ToSet
<1>2. DOMAIN TxList(s) = DOMAIN s /\ TxList(s)[i] = d.tx /\ TxList(s)[j] = e.tx
  BY <1>1 DEF TxList
<1> QED
  BY <1>1, <1>2 DEF Once

LEMMA SortedRest ==
    ASSUME NEW s \in Seq(RevertedTx), Sorted(s), NEW r \in 0..Len(s)
    PROVE  Sorted(Drop(s, r)) /\ ToSet(Drop(s, r)) \subseteq ToSet(s)
<1>1. IsSeq(s) /\ DOMAIN s = 1..Len(s) /\ Len(s) \in Nat
  BY ElementsIn
<1>2. /\ IsSeq(Drop(s, r)) /\ Len(Drop(s, r)) = Len(s) - r
      /\ \A i \in 1..Len(s) - r : Drop(s, r)[i] = s[r + i]
      /\ ToSet(s) = ToSet(Take(s, r)) \cup ToSet(Drop(s, r))
  BY <1>1, CutInTwo
<1>3. DOMAIN Drop(s, r) = 1..Len(s) - r
  BY <1>2, Shape
<1>4. \A i, j \in 1..Len(s) - r : i < j => r + i \in DOMAIN s /\ r + j \in DOMAIN s /\ r + i < r + j
  BY <1>1
<1> QED
  BY <1>2, <1>3, <1>4 DEF Sorted

LEMMA HeadIsFirst ==
    ASSUME NEW s \in Seq(RevertedTx), Sorted(s), s # <<>>
    PROVE  /\ Head(s) \in ToSet(s) /\ Head(s) = s[1] /\ Head(s).next \in Nat
           /\ \A e \in ToSet(s) : Head(s).next <= e.next
<1>1. DOMAIN s = 1..Len(s) /\ Len(s) \in Nat /\ Len(s) # 0 /\ Head(s) = s[1] /\ 1 \in DOMAIN s
  BY ElementsIn
<1>2. s[1] \in RevertedTx
  BY <1>1, ElementOfSeq
<1>3. \A i \in DOMAIN s : i = 1 \/ 1 < i
  BY <1>1
<1>4. \A i \in DOMAIN s : s[1].next <= s[i].next
  BY <1>1, <1>2, <1>3 DEF Sorted, RevertedTx
<1> QED
  BY <1>1, <1>2, <1>4 DEF ToSet, RevertedTx

\* A selection keeps the order of what it takes.
LEMMA SelectionOrder ==
    ASSUME NEW s, NEW I, I \subseteq DOMAIN s, NEW kept \in Selections(s, I)
    PROVE  \E p : /\ DOMAIN p = DOMAIN kept /\ \A j \in DOMAIN kept : kept[j] = s[p[j]] /\ p[j] \in I
                  /\ \A i, j \in DOMAIN kept : i < j => p[i] < p[j]
<1>1. PICK p \in Ascending(I) : kept = [j \in DOMAIN p |-> s[p[j]]]
  BY DEF Selections
<1>2. p \in [1..Cardinality(I) -> I] /\ \A i, j \in DOMAIN p : i < j => p[i] < p[j]
  BY <1>1 DEF Ascending, Enumerations
<1>3. \A j \in DOMAIN p : p[j] \in I
  BY <1>2
<1>4. DOMAIN kept = DOMAIN p /\ \A j \in DOMAIN p : kept[j] = s[p[j]]
  BY <1>1
<1> QED
  BY <1>2, <1>3, <1>4

-----------------------------------------------------------------------------
(* PlaceInv, step by step.                                                 *)
LEMMA PlaceInit == Init => PlaceInv
<1> SUFFICES ASSUME Init PROVE PlaceInv
  OBVIOUS
<1>1. /\ dbReverted = <<>> /\ revertedTxs = <<>> /\ keeperOpen = <<>> /\ blocksPc = "idle"
      /\ DOMAIN <<>> = {} /\ ToSet(<<>>) = {}
  BY NoElements DEF Init
<1> QED
  BY <1>1 DEF PlaceInv, TableInPlace, QueueInPlace, Sorted, BlocksInPlace, RevertedSomewhere, RevertedIn

placeTables == <<dbReverted, dbChain>>
placeQueues == <<revertedTxs, keeperNext, keeperOpen, up>>

LEMMA PlaceFrame ==
    ASSUME PlaceInv, UNCHANGED <<placeTables, placeQueues, blocksPc, proposed>>
    PROVE  PlaceInv'
<1>1. UNCHANGED <<dbReverted, dbChain, revertedTxs, keeperNext, keeperOpen, up, blocksPc, proposed>>
  BY DEF placeTables, placeQueues
<1> QED
  BY <1>1 DEF PlaceInv, TableInPlace, Waiting, DbMaxSerial, QueueInPlace, BlocksInPlace, AtEnd, EndOf,
              RevertedSomewhere

\* A step of the blocks handler that takes no reverted transaction.
TakesNone ==
    /\ UNCHANGED <<placeTables, placeQueues>> /\ ToSet(proposed.txs) = {} /\ ToSet(proposed'.txs) = {}
    /\ blocksPc # "notSent"
    /\ blocksPc' \in {"ops", "txs"} => revertedTxs = <<>>
    /\ blocksPc' = "send" => \A e \in ToSet(revertedTxs) : e.next >= EndOf(proposed')

LEMMA TakesNonePlace == PlaceInv /\ TakesNone => PlaceInv'
<1> SUFFICES ASSUME PlaceInv, TakesNone PROVE PlaceInv'
  OBVIOUS
<1>1. UNCHANGED <<dbReverted, dbChain, revertedTxs, keeperNext, keeperOpen, up>>
  BY DEF TakesNone, placeTables, placeQueues
<1>2. TableInPlace'
  BY <1>1 DEF PlaceInv, TableInPlace, Waiting, DbMaxSerial
<1>3. QueueInPlace'
  BY <1>1 DEF PlaceInv, QueueInPlace, TakesNone, Sorted
<1>4. BlocksInPlace'
  BY <1>1 DEF PlaceInv, BlocksInPlace, TakesNone, AtEnd
<1>5. RevertedSomewhere'
  BY <1>1 DEF PlaceInv, RevertedSomewhere, TakesNone
<1> QED
  BY <1>2, <1>3, <1>4, <1>5 DEF PlaceInv

\* Reverted transactions are selected from where the keeper is.
SelectsFrom ==
    /\ request.first = keeperNext /\ proposed.first = keeperNext /\ keeperNext \in Nat
    /\ MissingOps = Head(revertedTxs).next - keeperNext /\ MissingOps \in Nat
    /\ revertedTxs \in Seq(RevertedTx) /\ ToSet(proposed.txs) = {}
    /\ \A e \in ToSet(revertedTxs) : Head(revertedTxs).next <= e.next
    /\ Head(revertedTxs) = revertedTxs[1] /\ Head(revertedTxs) \in ToSet(dbReverted)
    /\ Head(revertedTxs).next = keeperNext + MissingOps

LEMMA FirstMissing ==
    ASSUME Types, OrderInv, TxInv, PlaceInv, blocksPc = "reverted", revertedTxs # <<>>
    PROVE  SelectsFrom
<1>1. request.first = keeperNext /\ proposed.first = keeperNext /\ keeperNext \in Nat
  BY DEF OrderInv, AskedOnce, Busy, Types, OuterTypes
<1>2. proposed.txs = <<>>
  BY DEF TxInv, SelectedLast
<1>3. revertedTxs \in Seq(RevertedTx)
  BY DEF Types, QueueTypes
<1>4. /\ Head(revertedTxs) \in ToSet(revertedTxs) /\ Head(revertedTxs).next \in Nat
      /\ Head(revertedTxs) = revertedTxs[1]
      /\ \A e \in ToSet(revertedTxs) : Head(revertedTxs).next <= e.next
  BY <1>3, HeadIsFirst DEF PlaceInv, QueueInPlace
<1>5. Head(revertedTxs).next >= keeperNext /\ Head(revertedTxs) \in ToSet(dbReverted)
  BY <1>4 DEF PlaceInv, QueueInPlace
<1>6. MissingOps = Head(revertedTxs).next - keeperNext
  BY <1>1, <1>4, <1>5 DEF MissingOps, Largest
<1> QED
  BY <1>1, <1>2, <1>3, <1>4, <1>5, <1>6, NoElements DEF SelectsFrom

LEMMA DoesNotFitPlace ==
    ASSUME SizesSettled, Types, OrderInv, TxInv, PlaceInv, RevertedOpDoesNotFit,
           UNCHANGED <<placeTables, keeperNext, keeperOpen, up>>
    PROVE  PlaceInv'
<1>1. PICK n \in 0..MissingOps - 1, k \in 1..Len(priorityOps) :
        \E found \in FoundOps(priorityOps, k, request.first, n + 1) :
            /\ ChunksOfOps(found) > MaxBlockChunks
            /\ proposed' = [proposed EXCEPT !.ops = Take(found, n)]
            /\ blocksPc' = IF n = 0 THEN "ops" ELSE "send"
  BY DEF RevertedOpDoesNotFit
<1>2. PICK found \in FoundOps(priorityOps, k, request.first, n + 1) :
        /\ ChunksOfOps(found) > MaxBlockChunks
        /\ proposed' = [proposed EXCEPT !.ops = Take(found, n)]
        /\ blocksPc' = IF n = 0 THEN "ops" ELSE "send"
  BY <1>1
<1>3. SelectsFrom
  BY FirstMissing DEF RevertedOpDoesNotFit
<1>4. n \in Nat /\ n + 1 \in Nat /\ n < MissingOps
  BY <1>3 DEF SelectsFrom
<1>5. found \in Seq(SerialId) /\ Len(found) = n + 1
  <2>1. priorityOps \in Seq(SerialId) /\ Len(priorityOps) \in Nat /\ request.first \in Int
    BY <1>3 DEF Types, QueueTypes, SelectsFrom
  <2>2. k \in 0..Len(priorityOps)
    BY <2>1
  <2> QED
    BY <1>2, <1>4, <2>1, <2>2, FoundIn
<1>6. n # 0
  <2> SUFFICES ASSUME n = 0 PROVE FALSE
    OBVIOUS
  <2>1. ChunksOfOps(found) = OpChunks[found[1]] /\ found[1] \in SerialId
    BY <1>5, OpsChunksAreNat
  <2>2. OpChunks[found[1]] <= MaxBlockChunks /\ OpChunks[found[1]] \in Nat /\ MaxBlockChunks \in Nat
    BY <2>1, SerialAssumption, MempoolAssumption DEF SizesSettled
  <2> QED
    BY <1>2, <2>1, <2>2
<1>7. proposed'.first = keeperNext /\ Len(proposed'.ops) = n /\ proposed'.txs = proposed.txs
  <2>1. proposed \in Block
    BY DEF Types, BlockTypes
  <2>2. Len(Take(found, n)) = n
    <3>1. IsSeq(found) /\ n \in 0..Len(found)
      BY <1>4, <1>5, ElementsIn
    <3> QED
      BY <3>1, CutInTwo
  <2> QED
    BY <1>2, <1>3, <2>1, <2>2 DEF Block, SelectsFrom
<1>8. \A e \in ToSet(revertedTxs) : e.next >= EndOf(proposed')
  <2> TAKE e \in ToSet(revertedTxs)
  <2>1. e.next \in Nat /\ Head(revertedTxs).next <= e.next
    <3>1. e \in RevertedTx
      BY <1>3, ElementsIn DEF SelectsFrom
    <3> QED
      BY <1>3, <3>1 DEF SelectsFrom, RevertedTx
  <2>2. EndOf(proposed') = keeperNext + n
    BY <1>7 DEF EndOf
  <2> QED
    BY <1>3, <1>4, <2>1, <2>2 DEF SelectsFrom
<1>9. TakesNone
  BY <1>2, <1>3, <1>6, <1>7, <1>8 DEF TakesNone, RevertedOpDoesNotFit, placeQueues, SelectsFrom
<1> QED
  BY <1>9, TakesNonePlace

\* What SelectReverted does, with its choices named.
SelectsReverted(k, r, ops) ==
    LET next == request.first + MissingOps
        txs(n) == [i \in 1..n |-> revertedTxs[i].tx]
        Fit(n) == /\ \A i \in 1..n : next >= revertedTxs[i].next
                  /\ ChunksOfTxs(txs(n), KnownAccounts) <= MaxBlockChunks - ChunksOfOps(ops)
    IN
    /\ k \in 0..Len(priorityOps) /\ r \in 0..Len(revertedTxs)
    /\ ops \in FoundOps(priorityOps, k, request.first, MissingOps)
    /\ Fit(r) /\ (r < Len(revertedTxs) => ~Fit(r + 1))
    /\ revertedTxs' = Drop(revertedTxs, r)
    /\ proposed' = [proposed EXCEPT !.ops = ops, !.txs = txs(r)]
    /\ blocksPc' = IF ops = <<>> /\ r = 0 THEN "ops" ELSE "send"

LEMMA SelectionNamed ==
    ASSUME SelectReverted
    PROVE  \E k, r, ops : SelectsReverted(k, r, ops)
<1>1. PICK k \in 0..Len(priorityOps), r \in 0..Len(revertedTxs) :
        \E ops \in FoundOps(priorityOps, k, request.first, MissingOps) : SelectsReverted(k, r, ops)
  BY DEF SelectReverted, SelectsReverted, StopsAt, ComesNext, ChunksLeft
<1> QED
  BY <1>1

LEMMA SelectRevertedPlace ==
    ASSUME SizesSettled, Types, OrderInv, TxInv, OnceInv, AcceptedFit, PlaceInv, SelectReverted,
           UNCHANGED <<placeTables, keeperNext, keeperOpen, up>>
    PROVE  PlaceInv'
<1>1. PICK k, r, ops : SelectsReverted(k, r, ops)
  BY SelectionNamed
<1>2. SelectsFrom
  BY FirstMissing DEF SelectReverted
<1> DEFINE next == request.first + MissingOps
           txs == [i \in 1..r |-> revertedTxs[i].tx]
           head == Head(revertedTxs)
<1>3. next = head.next /\ head = revertedTxs[1] /\ head.next \in Nat
  BY <1>2 DEF SelectsFrom
<1>4. /\ revertedTxs \in Seq(RevertedTx) /\ revertedTxs # <<>> /\ IsSeq(revertedTxs)
      /\ r \in 0..Len(revertedTxs) /\ Len(revertedTxs) \in Nat /\ DOMAIN revertedTxs = 1..Len(revertedTxs)
  BY <1>1, <1>2, ElementsIn DEF SelectsReverted, SelectsFrom, SelectReverted
<1>5. ops \in Seq(SerialId) /\ Len(ops) = MissingOps /\ (ops = <<>> => MissingOps = 0)
  <2>1. priorityOps \in Seq(SerialId) /\ request.first \in Int /\ MissingOps \in Nat
    BY <1>2 DEF Types, QueueTypes, SelectsFrom
  <2>2. k \in 0..Len(priorityOps) /\ ops \in FoundOps(priorityOps, k, request.first, MissingOps)
    BY <1>1 DEF SelectsReverted
  <2>3. ops \in Seq(SerialId) /\ Len(ops) = MissingOps
    BY <2>1, <2>2, FoundIn
  <2> QED
    BY <2>3
<1>6. /\ proposed'.first = keeperNext /\ proposed'.ops = ops /\ proposed'.txs = txs
      /\ EndOf(proposed') = head.next
  <2>1. proposed \in Block /\ proposed' = [proposed EXCEPT !.ops = ops, !.txs = txs]
    BY <1>1 DEF Types, BlockTypes, SelectsReverted
  <2> HIDE DEF txs
  <2>2. proposed'.first = keeperNext /\ proposed'.ops = ops /\ proposed'.txs = txs
    BY <1>2, <2>1 DEF Block, SelectsFrom
  <2> QED
    BY <1>2, <1>5, <2>2 DEF EndOf, SelectsFrom
<1>7. revertedTxs' = Drop(revertedTxs, r) /\ Sorted(revertedTxs') /\ ToSet(revertedTxs') \subseteq ToSet(revertedTxs)
  BY <1>1, <1>4, SortedRest DEF SelectsReverted, PlaceInv, QueueInPlace
<1>8. UNCHANGED <<dbReverted, dbChain, keeperNext, keeperOpen, up>>
  BY DEF placeTables
<1>9. blocksPc' = "send"
  <2> SUFFICES ASSUME ops = <<>>, r = 0 PROVE FALSE
    BY <1>1 DEF SelectsReverted
  <2> DEFINE one == [i \in 1..1 |-> revertedTxs[i].tx]
  <2>1. head \in RevertedTx /\ head.tx \in Variant /\ 1 \in 1..Len(revertedTxs) /\ 0 < Len(revertedTxs)
    <3>1. revertedTxs[1] \in RevertedTx /\ 1 \in 1..Len(revertedTxs)
      BY <1>4, EmptySeq, ElementOfSeq
    <3> QED
      BY <1>3, <1>4, <3>1 DEF RevertedTx
  <2>2. one \in Seq(Variant) /\ Len(one) = 1 /\ one[1] = head.tx
    BY <1>3, <2>1
  <2>3. ~ChunksOfTxs(one, KnownAccounts) <= MaxBlockChunks - ChunksOfOps(ops)
    <3>1. \A i \in 1..1 : next >= revertedTxs[i].next
      BY <1>3
    <3>2. ~(/\ \A i \in 1..0 + 1 : next >= revertedTxs[i].next
            /\ ChunksOfTxs([i \in 1..0 + 1 |-> revertedTxs[i].tx], KnownAccounts)
                  <= MaxBlockChunks - ChunksOfOps(ops))
      BY <1>1, <2>1 DEF SelectsReverted
    <3>3. 0 + 1 = 1
      OBVIOUS
    <3> QED
      BY <3>1, <3>2, <3>3
  <2> HIDE DEF one
  <2>4. ChunksOfTxs(one, KnownAccounts) = RequiredChunks(head.tx, KnownAccounts)
    BY <2>2, TxsChunksAreNat
  <2>5. RequiredChunks(head.tx, KnownAccounts) <= MaxBlockChunks
    <3>1. head.tx \in Durable
      BY <1>2, TxsOfElements DEF SelectsFrom, Durable
    <3>2. KnownAccounts \in SUBSET Address
      BY DEF KnownAccounts, Known
    <3> QED
      BY <3>1, <3>2 DEF AcceptedFit, FitsAlways
  <2>6. ChunksOfOps(ops) = 0 /\ MaxBlockChunks \in Nat
    BY <1>5, OpsChunksAreNat, MempoolAssumption
  <2>7. RequiredChunks(head.tx, KnownAccounts) \in Nat
    BY <2>1, VariantChunksAreNat
  <2> QED
    BY <2>3, <2>4, <2>5, <2>6, <2>7
<1>10. QueueInPlace'
  <2>1. \A e \in ToSet(revertedTxs) : e \in ToSet(dbReverted) /\ e.next >= keeperNext /\ e.next >= head.next
    <3> TAKE e \in ToSet(revertedTxs)
    <3>1. e \in RevertedTx
      BY <1>4, ElementsIn
    <3>2. e.next \in Nat
      BY <3>1 DEF RevertedTx
    <3> QED
      BY <1>2, <1>3, <3>2 DEF SelectsFrom, PlaceInv, QueueInPlace
  <2> QED
    BY <1>6, <1>7, <1>8, <1>9, <2>1 DEF QueueInPlace
<1>11. AtEnd(proposed)'
  <2> SUFFICES ASSUME NEW e \in ToSet(dbReverted), e.tx \in ToSet(proposed'.txs) PROVE e.next = EndOf(proposed')
    BY <1>8 DEF AtEnd
  <2>1. PICK i \in 1..r : e.tx = revertedTxs[i].tx
    BY <1>6 DEF ToSet
  <2> DEFINE d == revertedTxs[i]
  <2>2. d \in ToSet(revertedTxs) /\ d \in RevertedTx
    BY <1>4, ElementOfSeq DEF ToSet
  <2>3. d \in ToSet(dbReverted) /\ head.next <= d.next
    BY <1>2, <2>2 DEF PlaceInv, QueueInPlace, SelectsFrom
  <2>4. d.next <= next
    BY <1>1 DEF SelectsReverted
  <2> HIDE DEF d
  <2>5. d = e
    <3>1. dbReverted \in Seq(RevertedTx) /\ Once(TxList(dbReverted))
      BY DEF Types, TableTypes, OnceInv, PlacesOnce
    <3>2. d.tx = e.tx
      BY <2>1 DEF d
    <3> QED
      BY <2>3, <3>1, <3>2, EntryOf
  <2>6. d.next \in Nat
    BY <2>2 DEF RevertedTx
  <2> QED
    BY <1>3, <1>6, <2>3, <2>4, <2>5, <2>6
<1>12. BlocksInPlace'
  BY <1>8, <1>11 DEF PlaceInv, BlocksInPlace, AtEnd
<1>13. RevertedSomewhere'
  <2>1. RevertedIn(revertedTxs) = ToSet(proposed'.txs) \cup RevertedIn(revertedTxs')
    <3> DEFINE list == TxList(revertedTxs)
    <3>1. IsSeq(list) /\ Len(list) = Len(revertedTxs) /\ ToSet(list) = RevertedIn(revertedTxs)
      BY <1>4, TxListed
    <3>2. txs = Take(list, r) /\ TxList(revertedTxs') = Drop(list, r) /\ revertedTxs' \in Seq(RevertedTx)
      BY <1>4, <1>7, TxListCut, PartsIn
    <3>3. ToSet(Drop(list, r)) = RevertedIn(revertedTxs')
      BY <3>2, TxListed
    <3> HIDE DEF list, txs
    <3>4. ToSet(list) = ToSet(Take(list, r)) \cup ToSet(Drop(list, r))
      BY <1>4, <3>1, CutInTwo
    <3> QED
      BY <1>6, <3>1, <3>2, <3>3, <3>4
  <2>2. ToSet(proposed.txs) = {}
    BY <1>2 DEF SelectsFrom
  <2> QED
    BY <1>8, <2>1, <2>2 DEF PlaceInv, RevertedSomewhere, SelectReverted
<1>14. TableInPlace'
  BY <1>8 DEF PlaceInv, TableInPlace, Waiting, DbMaxSerial
<1> QED
  BY <1>10, <1>12, <1>13, <1>14 DEF PlaceInv

\* The ready transactions are stored ones, so that none of them is reverted.
LEMMA PrepareTxPlace ==
    ASSUME Types, OrderInv, TxInv, OnceInv, QueuedStored, PlaceInv, ProposeNewBlock, PrepareTxForBlock
    PROVE  PlaceInv'
<1>1. /\ UNCHANGED <<dbTxs, dbReverted, dbChain, revertedTxs, keeperNext, keeperOpen, up>>
      /\ blocksPc = "txs" /\ blocksPc' = "send"
  BY DEF ProposeNewBlock, PrepareTxForBlock, dbVars, keeperVars, processVars
<1>2. revertedTxs = <<>> /\ ToSet(revertedTxs) = {} /\ proposed.txs = <<>> /\ ToSet(proposed.txs) = {}
  BY <1>1, NoElements DEF PlaceInv, QueueInPlace, TxInv, SelectedLast
<1>3. Placed /\ Placed'
  BY PlacedStep DEF Next, BlocksHandler, OnceInv, Placed
<1>4. ToSet(proposed'.txs) \subseteq dbTxs
  <2>1. UNCHANGED <<tableVars, keeperOpen>>
    BY <1>1 DEF tableVars
  <2> QED
    BY <1>3, <2>1, ReadyComesFrom DEF QueuedStored
<1>5. \A e \in ToSet(dbReverted) : e.tx \notin ToSet(proposed'.txs)
  BY <1>3, <1>4, TxsOfElements DEF Placed, PlacesApart
<1>6. TableInPlace'
  BY <1>1 DEF PlaceInv, TableInPlace, Waiting, DbMaxSerial
<1>7. QueueInPlace'
  BY <1>1, <1>2 DEF PlaceInv, QueueInPlace
<1>8. BlocksInPlace'
  BY <1>1, <1>5 DEF PlaceInv, BlocksInPlace, AtEnd
<1>9. RevertedSomewhere'
  BY <1>1, <1>2 DEF PlaceInv, RevertedSomewhere
<1> QED
  BY <1>6, <1>7, <1>8, <1>9 DEF PlaceInv

LEMMA ProposalPlace ==
    ASSUME SizesSettled, Types, OrderInv, TxInv, OnceInv, AcceptedFit, QueuedStored, PlaceInv, ProposeNewBlock
    PROVE  PlaceInv'
<1>1. UNCHANGED <<placeTables, keeperNext, keeperOpen, up>>
  BY DEF ProposeNewBlock, dbVars, keeperVars, processVars, placeTables
<1>2. ToSet(<<>>) = {} /\ proposed \in Block
  BY NoElements DEF Types, BlockTypes
<1>3. CASE NothingReverted
  <2>1. /\ blocksPc = "reverted" /\ blocksPc' = "ops" /\ revertedTxs = <<>>
        /\ UNCHANGED <<proposed, revertedTxs>>
    BY <1>3 DEF NothingReverted, queueVars
  <2>2. proposed.txs = <<>>
    BY <2>1 DEF TxInv, SelectedLast
  <2> QED
    BY <1>1, <1>2, <2>1, <2>2, TakesNonePlace DEF TakesNone, placeQueues
<1>4. CASE SelectReverted
  BY <1>1, <1>4, SelectRevertedPlace
<1>5. CASE RevertedOpDoesNotFit
  BY <1>1, <1>5, DoesNotFitPlace
<1>6. CASE RevertedOpIsMissing
  <2>1. /\ blocksPc = "reverted" /\ blocksPc' = "missingOp" /\ UNCHANGED <<proposed, revertedTxs>>
    BY <1>6 DEF RevertedOpIsMissing
  <2>2. proposed.txs = <<>>
    BY <2>1 DEF TxInv, SelectedLast
  <2> QED
    BY <1>1, <1>2, <2>1, <2>2, TakesNonePlace DEF TakesNone, placeQueues
<1>7. CASE SelectPriorityOps
  <2>1. blocksPc = "ops" /\ blocksPc' \in {"txs", "wrongOrder"} /\ revertedTxs' = revertedTxs
    BY <1>7 DEF SelectPriorityOps
  <2>2. proposed.txs = <<>> /\ revertedTxs = <<>>
    BY <2>1 DEF TxInv, SelectedLast, PlaceInv, QueueInPlace
  <2>3. PICK ops : proposed' = [proposed EXCEPT !.ops = ops]
    BY <1>7 DEF SelectPriorityOps
  <2>4. proposed'.txs = <<>>
    BY <1>2, <2>2, <2>3 DEF Block
  <2> QED
    BY <1>1, <1>2, <2>1, <2>2, <2>4, TakesNonePlace DEF TakesNone, placeQueues
<1>8. CASE PrepareTxForBlock
  BY <1>8, PrepareTxPlace
<1> QED
  BY <1>3, <1>4, <1>5, <1>6, <1>7, <1>8 DEF ProposeNewBlock

LEMMA BlocksHandlerPlace ==
    ASSUME SizesSettled, Types, OrderInv, TxInv, OnceInv, AcceptedFit, QueuedStored, PlaceInv, BlocksHandler,
           ~SendBlock, ~SendFails
    PROVE  PlaceInv'
<1>1. CASE ReceiveGetBlock
  <2>1. /\ blocksPc = "idle" /\ blocksPc' = "reverted" /\ UNCHANGED <<placeTables, placeQueues>>
        /\ proposed'.txs = <<>>
    BY <1>1 DEF ReceiveGetBlock, placeTables, placeQueues, queueVars, dbVars, keeperVars, processVars, NoBlock
  <2>2. proposed.txs = <<>>
    BY <2>1 DEF TxInv, SelectedLast
  <2> QED
    BY <2>1, <2>2, NoElements, TakesNonePlace DEF TakesNone
<1>2. CASE ReceiveUpdateNonces \/ UpdatesDone
  <2>1. /\ blocksPc \notin {"send", "notSent"} /\ blocksPc' \in {"updating", "idle"} /\ proposed' = proposed
        /\ UNCHANGED <<placeTables, placeQueues>>
    BY <1>2 DEF ReceiveUpdateNonces, UpdatesDone, placeTables, placeQueues, queueVars, dbVars, keeperVars,
                processVars
  <2>2. proposed.txs = <<>>
    BY <2>1 DEF TxInv, SelectedLast
  <2> QED
    BY <2>1, <2>2, NoElements, TakesNonePlace DEF TakesNone
<1>3. CASE UpdateAccount
  <2>1. UNCHANGED <<placeTables, placeQueues, blocksPc, proposed>>
    BY <1>3 DEF UpdateAccount, placeTables, placeQueues, queueVars, dbVars, keeperVars, processVars
  <2> QED
    BY <2>1, PlaceFrame
<1> QED
  BY <1>1, <1>2, <1>3, ProposalPlace DEF BlocksHandler

LEMMA SendBlockPlace ==
    ASSUME Types, OrderInv, PlaceInv, SendBlock
    PROVE  PlaceInv'
<1>1. /\ UNCHANGED <<dbReverted, dbChain, revertedTxs, up>>
      /\ blocksPc = "send" /\ blocksPc' = "idle" /\ keeperNext' = keeperNext + Len(proposed.ops)
      /\ proposed' = NoBlock
      /\ keeperOpen' = IF proposed.ops = <<>> /\ proposed.txs = <<>> THEN keeperOpen
                       ELSE Append(keeperOpen, proposed)
  BY DEF SendBlock, queueVars, dbVars, processVars
<1>2. keeperNext' = EndOf(proposed)
  BY <1>1 DEF OrderInv, AskedOnce, Busy, EndOf
<1>3. IsSeq(keeperOpen)
  BY ElementsIn DEF Types, OuterTypes
<1>4. /\ ToSet(keeperOpen') \subseteq ToSet(keeperOpen) \cup {proposed}
      /\ ToSet(proposed.txs) \cup TxsIn(keeperOpen) \subseteq TxsIn(keeperOpen')
  <2>1. CASE proposed.ops = <<>> /\ proposed.txs = <<>>
    BY <1>1, <2>1, NoElements
  <2>2. CASE ~(proposed.ops = <<>> /\ proposed.txs = <<>>)
    <3>1. ToSet(keeperOpen') = ToSet(keeperOpen) \cup {proposed}
      BY <1>1, <1>3, <2>2, Appended
    <3> QED
      BY <3>1, TxsOfElements
  <2> QED
    BY <2>1, <2>2
<1>5. TableInPlace'
  BY <1>1 DEF PlaceInv, TableInPlace, Waiting, DbMaxSerial
<1>6. QueueInPlace'
  BY <1>1, <1>2 DEF PlaceInv, QueueInPlace
<1>7. BlocksInPlace'
  BY <1>1, <1>4 DEF PlaceInv, BlocksInPlace, AtEnd
<1>8. RevertedSomewhere'
  BY <1>1, <1>4 DEF PlaceInv, RevertedSomewhere
<1> QED
  BY <1>5, <1>6, <1>7, <1>8 DEF PlaceInv

\* The reverted transactions of the block that is gone had their place at its end.
LEMMA SendFailsPlace ==
    ASSUME Types, OrderInv, PlaceInv, SendFails
    PROVE  PlaceInv'
<1>1. /\ UNCHANGED <<dbReverted, dbChain, revertedTxs, keeperNext, keeperOpen, up>>
      /\ blocksPc = "send" /\ blocksPc' = "notSent" /\ proposed' = NoBlock
  BY DEF SendFails, queueVars, dbVars, keeperVars
<1>2. proposed'.txs = <<>> /\ ToSet(<<>>) = {}
  BY <1>1, NoElements DEF NoBlock
<1>3. EndOf(proposed) >= keeperNext
  <2>1. proposed.first = keeperNext /\ keeperNext \in Nat /\ proposed \in Block
    BY <1>1 DEF OrderInv, AskedOnce, Busy, Types, OuterTypes, BlockTypes
  <2>2. Len(proposed.ops) \in Nat
    BY <2>1 DEF Block
  <2> QED
    BY <2>1, <2>2 DEF EndOf
<1>4. TableInPlace'
  BY <1>1 DEF PlaceInv, TableInPlace, Waiting, DbMaxSerial
<1>5. QueueInPlace'
  BY <1>1 DEF PlaceInv, QueueInPlace, Sorted
<1>6. BlocksInPlace'
  BY <1>1 DEF PlaceInv, BlocksInPlace, AtEnd
<1>7. RevertedSomewhere'
  <2>1. ASSUME up', NEW e \in ToSet(dbReverted)
        PROVE  \/ e.tx \in RevertedIn(revertedTxs) \cup TxsIn(keeperOpen) \cup TxsIn(dbChain)
               \/ e.next >= keeperNext
    <3>1. CASE e.tx \in ToSet(proposed.txs)
      BY <1>1, <1>3, <3>1 DEF PlaceInv, BlocksInPlace, AtEnd
    <3>2. CASE e.tx \notin ToSet(proposed.txs)
      BY <1>1, <2>1, <3>2 DEF PlaceInv, RevertedSomewhere
    <3> QED
      BY <3>1, <3>2
  <2> QED
    BY <1>1, <1>2, <2>1 DEF RevertedSomewhere
<1> QED
  BY <1>4, <1>5, <1>6, <1>7 DEF PlaceInv

LEMMA CommitBlockPlace ==
    ASSUME Types, OrderInv, TxInv, OnceInv, PlaceInv, CommitBlock
    PROVE  PlaceInv'
<1> DEFINE block == Head(keeperOpen)
           added == [first |-> block.first, ops |-> block.ops, txs |-> block.txs, before |-> dbAccounts]
<1>1. /\ up /\ keeperOpen # <<>> /\ keeperOpen' = Tail(keeperOpen) /\ dbChain' = Append(dbChain, added)
      /\ UNCHANGED <<dbReverted, revertedTxs, keeperNext, up, blocksPc, proposed>>
  <2>1. up /\ keeperOpen # <<>> /\ keeperOpen' = Tail(keeperOpen) /\ dbChain' = Append(dbChain, added)
    BY DEF CommitBlock
  <2>2. UNCHANGED <<dbReverted, revertedTxs, keeperNext, up, blocksPc, proposed>>
    BY DEF CommitBlock, queueVars, blocksVars, processVars
  <2> HIDE DEF added
  <2> QED
    BY <2>1, <2>2
<1>2. /\ IsSeq(dbChain) /\ IsSeq(keeperOpen) /\ keeperOpen \in Seq(Block) /\ keeperNext \in Nat
      /\ dbReverted \in Seq(RevertedTx) /\ Once(TxList(dbReverted))
  BY ElementsIn DEF Types, TableTypes, OuterTypes, OnceInv, PlacesOnce
<1>3. ToSet(keeperOpen) = {block} \cup ToSet(keeperOpen')
  BY <1>1, <1>2, FirstAndRest
<1>4. TxsIn(dbChain') = TxsIn(dbChain) \cup ToSet(block.txs)
      /\ TxsIn(keeperOpen) = ToSet(block.txs) \cup TxsIn(keeperOpen')
  <2>1. ToSet(dbChain') = ToSet(dbChain) \cup {added}
    BY <1>1, <1>2, Appended
  <2>2. added.txs = block.txs
    OBVIOUS
  <2> HIDE DEF added, block
  <2> QED
    BY <1>3, <2>1, <2>2, TxsOfElements
<1>5. DbMaxSerial' + 1 = EndOf(block)
  <2>1. dbChain' # <<>> /\ Last(dbChain') = added
    <3> DEFINE V == ToSet(dbChain) \cup {added}
    <3>1. dbChain \in Seq(V)
      BY <1>2, SeqIn
    <3>2. added \in V
      OBVIOUS
    <3> HIDE DEF V, added
    <3> QED
      BY <1>1, <3>1, <3>2 DEF Last
  <2>2. block \in Block
    <3>1. block \in ToSet(keeperOpen) /\ ToSet(keeperOpen) \subseteq Block
      BY <1>2, <1>3, ElementsIn
    <3> QED
      BY <3>1
  <2>3. block.first \in Nat /\ Len(block.ops) \in Nat
    BY <2>2 DEF Block
  <2>4. added.first = block.first /\ added.ops = block.ops
    OBVIOUS
  <2> HIDE DEF added, block
  <2> QED
    BY <2>1, <2>3, <2>4 DEF DbMaxSerial, EndOf
<1>6. /\ EndOf(block) \in Int /\ EndOf(block) <= keeperNext
      /\ \A b \in ToSet(keeperOpen) : EndOf(block) <= EndOf(b)
  <2>1. DbMaxSerial + 1 \in Int /\ Continue(keeperOpen, DbMaxSerial + 1, keeperNext)
    BY <1>1, DbMaxSerialTyped DEF Types, OrderInv
  <2> QED
    BY <1>1, <1>2, <2>1, ContinueBounds
<1> HIDE DEF block, added
<1>7. ASSUME NEW e \in ToSet(dbReverted), e.tx \notin TxsIn(dbChain')
      PROVE  e.next >= EndOf(block)
  <2>1. e \in RevertedTx
    BY <1>2, ElementsIn
  <2>2. e.next \in Nat
    BY <2>1 DEF RevertedTx
  <2>3. \/ e.tx \in RevertedIn(revertedTxs) \cup ToSet(proposed.txs) \cup TxsIn(keeperOpen')
        \/ e.next >= keeperNext
    BY <1>1, <1>4, <1>7 DEF PlaceInv, RevertedSomewhere
  <2>4. CASE e.tx \in RevertedIn(revertedTxs)
    <3>1. PICK d \in ToSet(revertedTxs) : d.tx = e.tx
      BY <2>4, TxsOfElements
    <3>2. d \in ToSet(dbReverted) /\ d.next >= keeperNext
      BY <3>1 DEF PlaceInv, QueueInPlace
    <3>3. d = e
      BY <1>2, <3>1, <3>2, EntryOf
    <3> QED
      BY <1>2, <1>6, <2>2, <3>2, <3>3
  <2>5. CASE e.tx \in ToSet(proposed.txs)
    <3>1. blocksPc = "send"
      BY <2>5, NoElements DEF TxInv, SelectedLast
    <3>2. e.next = EndOf(proposed)
      BY <2>5, <3>1 DEF PlaceInv, BlocksInPlace, AtEnd
    <3>3. proposed.first = keeperNext /\ Len(proposed.ops) \in Nat
      BY <3>1 DEF OrderInv, AskedOnce, Busy, Types, BlockTypes, Block
    <3> QED
      BY <1>2, <1>6, <3>2, <3>3 DEF EndOf
  <2>6. CASE e.tx \in TxsIn(keeperOpen')
    <3>1. PICK b \in ToSet(keeperOpen) : e.tx \in ToSet(b.txs)
      BY <1>3, <2>6, TxsOfElements
    <3>2. e.next = EndOf(b)
      BY <3>1 DEF PlaceInv, BlocksInPlace, AtEnd
    <3> QED
      BY <1>6, <2>2, <3>1, <3>2
  <2>7. CASE e.next >= keeperNext
    BY <1>2, <1>6, <2>2, <2>7
  <2> QED
    BY <2>3, <2>4, <2>5, <2>6, <2>7
<1>8. TableInPlace'
  <2>1. \A i \in DOMAIN dbReverted : Waiting(dbReverted[i])' => Waiting(dbReverted[i])
    BY <1>1, <1>4 DEF Waiting
  <2> QED
    BY <1>1, <1>5, <1>7, <2>1 DEF PlaceInv, TableInPlace, Waiting
<1>9. QueueInPlace'
  BY <1>1 DEF PlaceInv, QueueInPlace
<1>10. BlocksInPlace'
  BY <1>1, <1>3 DEF PlaceInv, BlocksInPlace, AtEnd
<1>11. RevertedSomewhere'
  BY <1>1, <1>4 DEF PlaceInv, RevertedSomewhere
<1> QED
  BY <1>8, <1>9, <1>10, <1>11 DEF PlaceInv

LEMMA CrashPlace ==
    ASSUME PlaceInv, Crash
    PROVE  PlaceInv'
<1>1. /\ UNCHANGED <<dbReverted, dbChain>> /\ ~up' /\ revertedTxs' = <<>> /\ keeperOpen' = <<>>
      /\ blocksPc' = "idle" /\ ToSet(<<>>) = {} /\ DOMAIN <<>> = {}
  BY NoElements DEF Crash, dbVars
<1>2. TableInPlace'
  BY <1>1 DEF PlaceInv, TableInPlace, Waiting, DbMaxSerial
<1> QED
  BY <1>1, <1>2 DEF PlaceInv, QueueInPlace, Sorted, BlocksInPlace, RevertedSomewhere

\* The table is in place when nothing is in the memory of a stopped process.
LEMMA StoppedPlace ==
    ASSUME Stopped', ~up', TableInPlace'
    PROVE  PlaceInv'
<1>1. /\ revertedTxs' = <<>> /\ keeperOpen' = <<>> /\ blocksPc' = "idle" /\ ToSet(<<>>) = {} /\ DOMAIN <<>> = {}
  BY NoElements DEF Stopped
<1> QED
  BY <1>1 DEF PlaceInv, QueueInPlace, Sorted, BlocksInPlace, RevertedSomewhere

LEMMA RevertBlockPlace ==
    ASSUME Types, Types', OrderInv, OrderInv', PlaceInv, RevertBlock
    PROVE  PlaceInv'
<1> DEFINE block == Last(dbChain)
           next == block.first + Len(block.ops)
           txs == [i \in DOMAIN block.txs |-> [tx |-> block.txs[i], next |-> next]]
           others == {i \in DOMAIN dbReverted : dbReverted[i].tx \notin ToSet(block.txs)}
<1>1. PICK kept \in Selections(dbReverted, others) : dbReverted' = txs \o kept
  BY DEF RevertBlock
<1>2. ~up /\ ~up' /\ dbChain # <<>> /\ dbChain' = Front(dbChain)
  BY DEF RevertBlock
<1>3. /\ dbChain \in Seq(ChainBlock) /\ dbChain' \in Seq(ChainBlock) /\ IsSeq(dbChain)
      /\ dbReverted \in Seq(RevertedTx) /\ IsSeq(dbReverted)
  BY ElementsIn DEF Types, TableTypes
<1>4. block \in ChainBlock /\ block.txs \in Seq(Variant) /\ block.first \in Nat /\ Len(block.ops) \in Nat
      /\ next \in Nat /\ next = EndOf(block)
  <2>1. Len(dbChain) \in 1..Len(dbChain) /\ block = dbChain[Len(dbChain)]
    BY <1>2, <1>3 DEF Last
  <2>2. block \in ChainBlock
    BY <1>3, <2>1, ElementOfSeq
  <2> HIDE DEF block
  <2> QED
    BY <2>2 DEF ChainBlock, EndOf
<1>5. DbMaxSerial + 1 = EndOf(block) /\ DbMaxSerial' + 1 = block.first
  <2>1. DbMaxSerial + 1 = EndOf(block)
    BY <1>2, <1>3, ChainEnds DEF ChainEndsThere, Last
  <2>2. Continue(dbChain, 0, DbMaxSerial + 1) /\ Continue(dbChain', 0, DbMaxSerial' + 1)
    BY DEF OrderInv
  <2>3. Continue(dbChain', 0, block.first)
    BY <1>2, <1>3, <2>2, ContinueFront DEF Last
  <2> HIDE DEF block
  <2>4. DbMaxSerial' + 1 = block.first
    BY <2>2, <2>3 DEF Continue
  <2> QED
    BY <2>1, <2>4
<1>6. TxsIn(dbChain) = ToSet(block.txs) \cup TxsIn(dbChain')
  <2>1. ToSet(dbChain) = {block} \cup ToSet(dbChain')
    BY <1>2, <1>3, LastAndFront
  <2> HIDE DEF block
  <2> QED
    BY <2>1, TxsOfElements
<1>7. others \subseteq DOMAIN dbReverted
  OBVIOUS
<1>8. kept \in Seq(RevertedTx) /\ IsSeq(kept) /\ DOMAIN kept = 1..Len(kept) /\ Len(kept) \in Nat
  <2> HIDE DEF others
  <2>1. kept \in Seq(RevertedTx)
    BY <1>1, <1>3, <1>7, SelectionIn
  <2> QED
    BY <2>1, ElementsIn
<1>9. PICK p : /\ DOMAIN p = DOMAIN kept /\ \A j \in DOMAIN kept : kept[j] = dbReverted[p[j]] /\ p[j] \in others
               /\ \A i, j \in DOMAIN kept : i < j => p[i] < p[j]
  <2> HIDE DEF others
  <2> QED
    BY <1>1, <1>7, SelectionOrder
<1>10. IsSeq(txs) /\ DOMAIN txs = 1..Len(txs) /\ Len(txs) \in Nat /\ \A i \in DOMAIN txs : txs[i].next = next
  <2>1. IsSeq(block.txs) /\ DOMAIN block.txs = 1..Len(block.txs) /\ Len(block.txs) \in Nat
    BY <1>4, ElementsIn
  <2> DEFINE n == Len(block.txs)
             T == ToSet(txs)
  <2>2. txs = [i \in 1..n |-> txs[i]] /\ DOMAIN txs = 1..n /\ (\A i \in 1..n : txs[i] \in T) /\ n \in Nat
    BY <2>1 DEF ToSet
  <2>3. \A i \in DOMAIN txs : txs[i].next = next
    OBVIOUS
  <2> HIDE DEF n, T, txs
  <2>4. txs \in Seq(T) /\ Len(txs) = n
    BY <2>2
  <2> QED
    BY <2>2, <2>3, <2>4 DEF IsSeq, T
<1> HIDE DEF block, next, txs
<1>11. ASSUME NEW j \in DOMAIN kept, kept[j].tx \notin TxsIn(dbChain')
       PROVE  Waiting(kept[j]) /\ kept[j].next \in Nat /\ kept[j].next >= next
  <2>1. p[j] \in others /\ kept[j] = dbReverted[p[j]]
    BY <1>9
  <2>2. kept[j].tx \notin ToSet(block.txs) /\ kept[j] \in ToSet(dbReverted)
    BY <2>1 DEF ToSet, others
  <2>3. kept[j] \in RevertedTx
    BY <1>8, ElementOfSeq
  <2>4. Waiting(kept[j])
    BY <1>6, <1>11, <2>2 DEF Waiting
  <2>5. kept[j].next >= DbMaxSerial + 1
    BY <2>2, <2>4 DEF PlaceInv, TableInPlace
  <2> QED
    BY <1>4, <1>5, <2>3, <2>4, <2>5 DEF RevertedTx
<1> DEFINE new == txs \o kept
           m == Len(txs)
<1>12. /\ Len(new) = m + Len(kept) /\ IsSeq(new) /\ m \in Nat /\ Len(kept) \in Nat
       /\ DOMAIN new = 1..m + Len(kept)
       /\ \A i \in 1..m : new[i] = txs[i]
       /\ \A i \in 1..Len(kept) : new[m + i] = kept[i]
  BY <1>8, <1>10, Joined, Shape
<1> HIDE DEF new, m
<1>13. \A i \in DOMAIN new : i \in 1..m \/ \E j \in 1..Len(kept) : i = m + j
  <2> TAKE i \in DOMAIN new
  <2>1. i > m => i - m \in 1..Len(kept) /\ i = m + (i - m)
    BY <1>12
  <2> QED
    BY <1>12, <2>1
<1>14. \A i \in 1..m : new[i].next = next
  BY <1>10, <1>12 DEF m
<1>15. \A j \in 1..Len(kept) : new[m + j].tx \notin TxsIn(dbChain') => new[m + j].next \in Nat /\ new[m + j].next >= next
  BY <1>8, <1>11, <1>12
<1>16. ASSUME NEW i \in DOMAIN new, new[i].tx \notin TxsIn(dbChain')
       PROVE  new[i].next \in Nat /\ new[i].next >= next
  BY <1>4, <1>13, <1>14, <1>15, <1>16
<1>17. ASSUME NEW i \in DOMAIN new, NEW j \in DOMAIN new, i < j,
              new[i].tx \notin TxsIn(dbChain'), new[j].tx \notin TxsIn(dbChain')
       PROVE  new[i].next <= new[j].next
  <2>1. CASE i \in 1..m
    BY <1>14, <1>16, <1>17, <2>1
  <2>2. CASE i \notin 1..m
    <3>1. PICK a \in 1..Len(kept) : i = m + a
      BY <1>13, <2>2
    <3>2. j \notin 1..m
      BY <1>12, <1>17, <3>1
    <3>3. PICK b \in 1..Len(kept) : j = m + b
      BY <1>13, <3>2
    <3>4. a < b /\ new[i] = kept[a] /\ new[j] = kept[b]
      BY <1>12, <1>17, <3>1, <3>3
    <3>5. Waiting(kept[a]) /\ Waiting(kept[b]) /\ a \in DOMAIN kept /\ b \in DOMAIN kept
      BY <1>8, <1>11, <1>17, <3>4
    <3>6. /\ p[a] < p[b] /\ p[a] \in DOMAIN dbReverted /\ p[b] \in DOMAIN dbReverted
          /\ kept[a] = dbReverted[p[a]] /\ kept[b] = dbReverted[p[b]]
      BY <1>9, <3>4, <3>5 DEF others
    <3> QED
      BY <3>4, <3>5, <3>6 DEF PlaceInv, TableInPlace
  <2> QED
    BY <2>1, <2>2
<1>18. dbReverted' = new /\ \A e \in ToSet(new) : \E i \in DOMAIN new : e = new[i]
  BY <1>1 DEF ToSet, new
<1>19. TableInPlace'
  <2>1. \A e \in ToSet(dbReverted') : e.tx \notin TxsIn(dbChain') => e.next >= DbMaxSerial' + 1
    <3> TAKE e \in ToSet(dbReverted')
    <3>1. e.tx \notin TxsIn(dbChain') => e.next \in Nat /\ e.next >= next
      BY <1>16, <1>18
    <3>2. DbMaxSerial' + 1 <= next /\ DbMaxSerial' + 1 \in Nat
      BY <1>4, <1>5 DEF EndOf
    <3> QED
      BY <1>4, <3>1, <3>2
  <2> QED
    BY <1>17, <1>18, <2>1 DEF TableInPlace, Waiting
<1> QED
  BY <1>2, <1>19, StoppedPlace DEF OrderInv

LEMMA RestorePlace ==
    ASSUME Types, OrderInv, PlaceInv, RestoreFromDb
    PROVE  PlaceInv'
<1> DEFINE waiting == {i \in DOMAIN dbReverted : dbReverted[i].tx \notin Garbage}
<1>1. /\ ~up /\ dbReverted' \in Selections(dbReverted, waiting) /\ revertedTxs' = dbReverted'
      /\ keeperNext' = DbMaxSerial + 1 /\ UNCHANGED <<blocksPc, dbChain, keeperOpen>>
  BY DEF RestoreFromDb, blocksVars
<1>2. waiting \subseteq DOMAIN dbReverted /\ dbReverted \in Seq(RevertedTx) /\ IsSeq(dbReverted)
  BY ElementsIn DEF Types, TableTypes
<1>3. \A i \in waiting : Waiting(dbReverted[i])
  <2>1. dbChain \in Seq(ChainBlock)
    BY DEF Types, TableTypes
  <2> QED
    BY <2>1, ExecutedIsGarbage DEF Waiting
<1> HIDE DEF waiting
<1>4. IsSeq(dbReverted') /\ ToSet(dbReverted') = {dbReverted[i] : i \in waiting}
  BY <1>1, <1>2, Selected
<1>5. PICK p : /\ DOMAIN p = DOMAIN dbReverted'
               /\ \A j \in DOMAIN dbReverted' : dbReverted'[j] = dbReverted[p[j]] /\ p[j] \in waiting
               /\ \A i, j \in DOMAIN dbReverted' : i < j => p[i] < p[j]
  BY <1>1, <1>2, SelectionOrder
<1>6. Sorted(dbReverted')
  BY <1>2, <1>3, <1>5 DEF Sorted, PlaceInv, TableInPlace
<1>7. \A e \in ToSet(dbReverted') : e.next >= DbMaxSerial + 1
  BY <1>2, <1>3, <1>4 DEF PlaceInv, TableInPlace, ToSet
<1>8. DbMaxSerial' = DbMaxSerial
  BY <1>1 DEF DbMaxSerial
<1>9. TableInPlace'
  BY <1>6, <1>7, <1>8 DEF TableInPlace, Sorted
<1>10. blocksPc' = "idle" /\ keeperOpen' = <<>> /\ ToSet(<<>>) = {}
  BY <1>1, NoElements DEF OrderInv, Stopped
<1>11. QueueInPlace'
  BY <1>1, <1>6, <1>7, <1>10 DEF QueueInPlace, Sorted
<1>12. BlocksInPlace' /\ RevertedSomewhere'
  <2>1. \A e \in ToSet(dbReverted') : e.tx \in RevertedIn(revertedTxs')
    BY <1>1, TxsOfElements
  <2> QED
    BY <1>1, <1>10, <2>1 DEF BlocksInPlace, RevertedSomewhere
<1> QED
  BY <1>9, <1>11, <1>12 DEF PlaceInv

LEMMA PlaceStep ==
    ASSUME SizesSettled
    PROVE  /\ Types /\ OrderInv /\ TxInv /\ OnceInv /\ AcceptedFit /\ QueuedStored /\ PlaceInv
           /\ (Types /\ OrderInv)' /\ [Next]_vars
           => PlaceInv'
<1> SUFFICES ASSUME Types, OrderInv, TxInv, OnceInv, AcceptedFit, QueuedStored, PlaceInv, Types', OrderInv',
                    [Next]_vars
             PROVE  PlaceInv'
  OBVIOUS
<1>1. ASSUME NEW h \in Handler, TransactionsHandler(h) PROVE PlaceInv'
  <2>1. UNCHANGED <<placeTables, placeQueues, blocksPc, proposed>>
    BY <1>1 DEF TransactionsHandler, ReceiveTx, CheckNonce, CheckBatchSize, InsertTx, InsertTxFails, AddTx,
                ReceiveConfirmedOps, ReceiveUnconfirmedOp, ReadMaxSerial, InsertOps, OpsFail, AddOps,
                placeTables, placeQueues, queueVars, blocksVars, dbVars, keeperVars, processVars
  <2> QED
    BY <2>1, PlaceFrame
<1>2. CASE RequestBlock \/ Tick \/ UNCHANGED vars
  <2>1. UNCHANGED <<placeTables, placeQueues, blocksPc, proposed>>
    BY <1>2 DEF RequestBlock, Tick, vars, placeTables, placeQueues, queueVars, blocksVars, dbVars, keeperVars,
                processVars
  <2> QED
    BY <2>1, PlaceFrame
<1>3. BlocksHandler => PlaceInv'
  BY BlocksHandlerPlace, SendBlockPlace, SendFailsPlace
<1>4. CommitBlock \/ Crash \/ RevertBlock \/ RestoreFromDb => PlaceInv'
  BY CommitBlockPlace, CrashPlace, RevertBlockPlace, RestorePlace
<1> QED
  BY <1>1, <1>2, <1>3, <1>4 DEF Next, StateKeeper, Process

(* A reverted transaction is executed again behind the same priority       *)
(* operations as before the revert: it is selected only when the block     *)
(* ends with the operation that came before it, a block without it ends    *)
(* before its place, and no other queue is looked at while it waits        *)
(* (mod.rs: select_reverted_operations, restore_from_db).  The hypothesis  *)
(* says that whatever is accepted fits an empty block; without it the      *)
(* statement is false, as an account deleted in between makes a batch      *)
(* larger and the other queues go first.                                   *)
THEOREM RevertedKeepTheirPlace ==
    ASSUME SizesSettled
    PROVE  Spec => []RevertedInPlace
<1> DEFINE Inv == /\ Types /\ OrderInv /\ TxInv /\ OnceInv
                  /\ AcceptedFit /\ QueuedStored /\ PlaceInv
<1>1. Init => Inv
  <2> SUFFICES ASSUME Init PROVE Inv
    OBVIOUS
  <2>1. AcceptedFit
    <3>1. Durable = {} /\ \A h \in Handler : handler[h].pc = "idle"
      BY NoElements, TxsOfElements DEF Init, Durable, IdleHandler
    <3> QED
      BY <3>1 DEF AcceptedFit
  <2>2. QueuedStored
    BY NoElements DEF Init, QueuedStored
  <2> QED
    BY <2>1, <2>2, TypesInit, OrderInit, TxInit, OnceInit, PlaceInit
<1>2. Inv /\ [Next]_vars => Inv'
  <2> SUFFICES ASSUME Inv, [Next]_vars PROVE Inv'
    OBVIOUS
  <2>1. Types' /\ OrderInv' /\ TxInv' /\ OnceInv'
    BY TypesStep, OrderStep, TxStep, OnceStep
  <2>2. AcceptedFit' /\ QueuedStored' /\ PlaceInv'
    BY <2>1, AcceptedFitStep, QueuedStoredStep, PlaceStep
  <2> QED
    BY <2>1, <2>2
<1>3. Inv => RevertedInPlace
  BY DEF PlaceInv, BlocksInPlace, AtEnd, RevertedInPlace, EndOf, ToSet
<1> HIDE DEF Inv
<1> QED
  BY <1>1, <1>2, <1>3, PTL DEF Spec

-----------------------------------------------------------------------------
(* The accounts that the mempool knows.  The map of the ids is the one that *)
(* the nonces tell; with an update both stay in step.                      *)
LEMMA IdsAre ==
    ASSUME NEW nonces \in Nonces, NEW ids \in Ids,
           \A x \in Known(nonces) : ids[IdOf[x]] = x,
           \A i \in AccountId : (\A x \in Known(nonces) : IdOf[x] # i) => ids[i] = NoAddress
    PROVE  ids = IdsOf(nonces)
<1>1. ASSUME NEW i \in AccountId PROVE ids[i] = IdsOf(nonces)[i]
  <2>1. CASE \E x \in Known(nonces) : IdOf[x] = i
    <3> DEFINE x == CHOOSE x \in Known(nonces) : IdOf[x] = i
    <3>1. x \in Known(nonces) /\ IdOf[x] = i
      BY <2>1
    <3>2. IdsOf(nonces)[i] = x
      BY <2>1 DEF IdsOf
    <3> QED
      BY <3>1, <3>2
  <2>2. CASE ~\E x \in Known(nonces) : IdOf[x] = i
    BY <2>2 DEF IdsOf
  <2> QED
    BY <2>1, <2>2
<1>2. IdsOf(nonces) \in Ids
  BY IdsAreIds
<1> QED
  BY <1>1, <1>2 DEF Ids

LEMMA IdsTell ==
    ASSUME NEW nonces \in Nonces
    PROVE  /\ \A x \in Known(nonces) : x \in Address /\ IdOf[x] \in AccountId /\ IdsOf(nonces)[IdOf[x]] = x
           /\ \A i \in AccountId : (\A x \in Known(nonces) : IdOf[x] # i) => IdsOf(nonces)[i] = NoAddress
<1>1. ASSUME NEW x \in Known(nonces)
      PROVE  x \in Address /\ IdOf[x] \in AccountId /\ IdsOf(nonces)[IdOf[x]] = x
  <2>1. x \in Address /\ IdOf[x] \in AccountId
    BY MempoolAssumption DEF Known
  <2> DEFINE y == CHOOSE y \in Known(nonces) : IdOf[y] = IdOf[x]
  <2>2. y \in Known(nonces) /\ IdOf[y] = IdOf[x]
    OBVIOUS
  <2>3. IdsOf(nonces)[IdOf[x]] = y
    BY <2>1 DEF IdsOf
  <2>4. y = x
    <3>1. y \in Address
      BY <2>2 DEF Known
    <3> HIDE DEF y
    <3> QED
      BY <2>1, <2>2, <3>1, MempoolAssumption
  <2> QED
    BY <2>1, <2>3, <2>4
<1>2. ASSUME NEW i \in AccountId, \A x \in Known(nonces) : IdOf[x] # i
      PROVE  IdsOf(nonces)[i] = NoAddress
  BY <1>2 DEF IdsOf
<1> QED
  BY <1>1, <1>2

\* The accounts after an update that the state keeper sent.
LEMMA UpdateFollows ==
    ASSUME accountNonces \in Nonces, accountIds = IdsOf(accountNonces),
           NEW u, NEW to, <<accountNonces, u, to>> \in UpdateRel,
           CreateAccount(u) \/ DeleteAccount(u) \/ UpdateBalance(u)
    PROVE  accountNonces' = to /\ accountIds' = IdsOf(to)
<1>1. /\ u \in AccountUpdate /\ to \in Nonces /\ u.id = IdOf[u.address] /\ to = Effect(accountNonces, u)
      /\ u.type = "UpdateBalance" => u.address \in Known(accountNonces)
  BY DEF UpdateRel
<1>2. /\ u.address \in Address /\ u.nonce \in Nat /\ u.id \in AccountId
      /\ u.type \in {"Create", "Delete", "UpdateBalance"}
  BY <1>1 DEF AccountUpdate
<1>3. accountIds \in Ids
  BY IdsAreIds
<1>4. /\ \A x \in Known(accountNonces) : x \in Address /\ IdOf[x] \in AccountId /\ accountIds[IdOf[x]] = x
      /\ \A i \in AccountId : (\A x \in Known(accountNonces) : IdOf[x] # i) => accountIds[i] = NoAddress
  BY IdsTell
<1>5. accountNonces' = to
  <2>1. to = [accountNonces EXCEPT ![u.address] = IF u.type = "Delete" THEN Absent ELSE u.nonce]
    BY <1>1 DEF Effect
  <2>2. CASE CreateAccount(u)
    BY <2>1, <2>2 DEF CreateAccount
  <2>3. CASE DeleteAccount(u)
    BY <2>1, <2>3 DEF DeleteAccount
  <2>4. CASE UpdateBalance(u)
    <3>1. u.address \in Known(accountNonces) /\ accountIds[u.id] = u.address
      BY <1>1, <1>4, <2>4 DEF UpdateBalance
    <3>2. accountNonces' = [x \in Address |-> IF x = u.address THEN u.nonce ELSE accountNonces[x]]
      BY <2>4, <3>1 DEF UpdateBalance, KnownAccounts
    <3> QED
      BY <2>1, <2>4, <3>2 DEF UpdateBalance, Nonces
  <2> QED
    BY <2>2, <2>3, <2>4
<1>6. /\ \A x \in Address : x # u.address => (x \in Known(to) <=> x \in Known(accountNonces))
      /\ u.address \in Known(to) <=> u.type # "Delete"
      /\ Known(to) \subseteq Address
  <2>1. DOMAIN accountNonces = Address
    BY DEF Nonces
  <2>2. \A x \in Address : to[x] = IF x = u.address
                                   THEN IF u.type = "Delete" THEN Absent ELSE u.nonce
                                   ELSE accountNonces[x]
    BY <1>1, <1>2, <2>1 DEF Effect
  <2> QED
    BY <1>2, <2>2 DEF Known, Absent
<1>7. \A x \in Address : IdOf[x] \in AccountId /\ (IdOf[x] = u.id <=> x = u.address)
  BY <1>1, <1>2, MempoolAssumption
<1>8. CASE CreateAccount(u)
  <2>1. accountIds' = [accountIds EXCEPT ![u.id] = u.address] /\ u.type # "Delete"
    BY <1>8 DEF CreateAccount
  <2>2. accountIds' \in Ids
    BY <1>2, <1>3, <2>1 DEF Ids
  <2>3. \A i \in AccountId : accountIds'[i] = IF i = u.id THEN u.address ELSE accountIds[i]
    BY <1>2, <1>3, <2>1 DEF Ids
  <2>4. \A x \in Known(to) : accountIds'[IdOf[x]] = x
    BY <1>4, <1>6, <1>7, <2>3
  <2>5. \A i \in AccountId : (\A x \in Known(to) : IdOf[x] # i) => accountIds'[i] = NoAddress
    BY <1>1, <1>4, <1>6, <1>7, <2>1, <2>3
  <2> QED
    BY <1>1, <1>5, <2>2, <2>4, <2>5, IdsAre
<1>9. CASE DeleteAccount(u)
  <2>1. accountIds' = [accountIds EXCEPT ![u.id] = NoAddress] /\ u.type = "Delete"
    BY <1>9 DEF DeleteAccount
  <2>2. accountIds' \in Ids
    BY <1>2, <1>3, <2>1 DEF Ids
  <2>3. \A i \in AccountId : accountIds'[i] = IF i = u.id THEN NoAddress ELSE accountIds[i]
    BY <1>2, <1>3, <2>1 DEF Ids
  <2>4. \A x \in Known(to) : accountIds'[IdOf[x]] = x
    BY <1>4, <1>6, <1>7, <2>1, <2>3
  <2>5. \A i \in AccountId : (\A x \in Known(to) : IdOf[x] # i) => accountIds'[i] = NoAddress
    BY <1>4, <1>6, <1>7, <2>1, <2>3
  <2> QED
    BY <1>1, <1>5, <2>2, <2>4, <2>5, IdsAre
<1>10. CASE UpdateBalance(u)
  <2>1. accountIds' = accountIds /\ u.address \in Known(accountNonces) /\ u.type # "Delete"
    BY <1>1, <1>10 DEF UpdateBalance
  <2>2. Known(to) = Known(accountNonces)
    BY <1>4, <1>6, <2>1
  <2> QED
    BY <1>1, <1>3, <1>4, <1>5, <2>1, <2>2, IdsAre
<1> QED
  BY <1>8, <1>9, <1>10

-----------------------------------------------------------------------------
(* Between the accounts of the mempool and the committed ones are the      *)
(* updates it has still to apply and the messages it has still to read.    *)
Message == GetBlockRequest \cup UpdateNoncesRequest
MessageRel ==
    {x \in Nonces \X Message \X Nonces :
        Leads(x[1], IF x[2].type = "UpdateNonces" THEN x[2].updates ELSE <<>>, x[3])}
Between(from, us, messages, to) ==
    \E mid \in Nonces : Leads(from, us, mid) /\ Walk(mid, messages, to, Nonces, MessageRel)

IdsMatch ==
    /\ up => accountIds = IdsOf(accountNonces)
    /\ dbAccounts.ids = IdsOf(dbAccounts.nonces)
    /\ \A i \in DOMAIN dbChain : dbChain[i].before.ids = IdsOf(dbChain[i].before.nonces)
UpdatesApplied == blocksPc # "updating" => updates = <<>>
CatchesUp ==
    up /\ ~Panicked => Between(accountNonces, updates, requests, dbAccounts.nonces)
AccountsInv == IdsMatch /\ UpdatesApplied /\ CatchesUp

LEMMA NothingLeads ==
    ASSUME NEW from \in Nonces, NEW to
    PROVE  Leads(from, <<>>, to) <=> from = to
BY NoWalk DEF Leads

LEMMA NothingBetween == ASSUME NEW from \in Nonces PROVE Between(from, <<>>, <<>>, from)
BY NoWalk DEF Between, Leads

LEMMA AccountsTold ==
    ASSUME Types
    PROVE  /\ accountNonces \in Nonces /\ updates \in Seq(AccountUpdate) /\ requests \in Seq(Message)
           /\ dbAccounts.nonces \in Nonces /\ dbAccounts.ids \in Ids /\ up \in BOOLEAN
           /\ \A r \in Message : r.type = "UpdateNonces" => r.updates \in Seq(AccountUpdate)
BY DEF Types, AccountTypes, BlockTypes, TableTypes, OuterTypes, AccountTree, Message,
       GetBlockRequest, UpdateNoncesRequest

LEMMA AccountsInit == Init => AccountsInv
<1> SUFFICES ASSUME Init PROVE AccountsInv
  OBVIOUS
<1>1. InitAccounts \in Nonces
  BY MempoolAssumption
<1>2. Between(accountNonces, updates, requests, dbAccounts.nonces)
  BY <1>1, NothingBetween DEF Init
<1>3. IdsMatch
  BY DEF Init, IdsMatch
<1>4. UpdatesApplied
  BY DEF Init, UpdatesApplied
<1> QED
  BY <1>2, <1>3, <1>4 DEF AccountsInv, CatchesUp

LEMMA AccountsFrame ==
    ASSUME AccountsInv, UNCHANGED <<accountVars, updates, requests, dbChain, dbAccounts, up>>,
           UpdatesApplied', Panicked => Panicked'
    PROVE  AccountsInv'
<1>1. IdsMatch'
  BY DEF AccountsInv, IdsMatch, accountVars
<1>2. CatchesUp'
  BY DEF AccountsInv, CatchesUp, accountVars
<1> QED
  BY <1>1, <1>2 DEF AccountsInv

LEMMA ReceiveUpdateNoncesAccounts ==
    ASSUME Types, AccountsInv, ReceiveUpdateNonces
    PROVE  AccountsInv'
<1> DEFINE r == Head(requests)
<1>1. /\ up /\ ~Panicked /\ requests # <<>> /\ r.type = "UpdateNonces" /\ updates = <<>>
      /\ updates' = r.updates /\ requests' = Tail(requests) /\ blocksPc' = "updating"
      /\ UNCHANGED <<accountNonces, accountIds, dbChain, dbAccounts, up>>
  BY DEF ReceiveUpdateNonces, AccountsInv, UpdatesApplied, Panicked, accountVars, dbVars, processVars
<1>2. accountNonces \in Nonces /\ requests \in Seq(Message)
  BY AccountsTold
<1>3. PICK mid \in Nonces : /\ Leads(accountNonces, updates, mid)
                            /\ Walk(mid, requests, dbAccounts.nonces, Nonces, MessageRel)
  BY <1>1 DEF AccountsInv, CatchesUp, Between
<1>4. mid = accountNonces
  BY <1>1, <1>2, <1>3, NothingLeads
<1> HIDE DEF r
<1>5. PICK b \in Nonces : /\ <<mid, r, b>> \in MessageRel
                          /\ Walk(b, Tail(requests), dbAccounts.nonces, Nonces, MessageRel)
  BY <1>1, <1>2, <1>3, WalkFirst DEF r
<1>6. Leads(accountNonces, r.updates, b)
  BY <1>1, <1>4, <1>5 DEF MessageRel
<1>7. CatchesUp'
  BY <1>1, <1>5, <1>6 DEF CatchesUp, Between
<1>8. IdsMatch' /\ UpdatesApplied'
  BY <1>1 DEF AccountsInv, IdsMatch, UpdatesApplied
<1> QED
  BY <1>7, <1>8 DEF AccountsInv

LEMMA ReceiveGetBlockAccounts ==
    ASSUME Types, AccountsInv, ReceiveGetBlock
    PROVE  AccountsInv'
<1> DEFINE r == Head(requests)
<1>1. /\ up /\ ~Panicked /\ requests # <<>> /\ r.type = "GetBlock" /\ updates = <<>>
      /\ requests' = Tail(requests) /\ blocksPc' = "reverted"
      /\ UNCHANGED <<accountNonces, accountIds, updates, dbChain, dbAccounts, up>>
  BY DEF ReceiveGetBlock, AccountsInv, UpdatesApplied, Panicked, accountVars, dbVars, processVars
<1>2. accountNonces \in Nonces /\ requests \in Seq(Message)
  BY AccountsTold
<1>3. PICK mid \in Nonces : /\ Leads(accountNonces, updates, mid)
                            /\ Walk(mid, requests, dbAccounts.nonces, Nonces, MessageRel)
  BY <1>1 DEF AccountsInv, CatchesUp, Between
<1> HIDE DEF r
<1>4. PICK b \in Nonces : /\ <<mid, r, b>> \in MessageRel
                          /\ Walk(b, Tail(requests), dbAccounts.nonces, Nonces, MessageRel)
  BY <1>1, <1>2, <1>3, WalkFirst DEF r
<1>5. mid = b
  <2>1. Leads(mid, <<>>, b)
    BY <1>1, <1>4 DEF MessageRel
  <2> QED
    BY <2>1, NothingLeads
<1>6. CatchesUp'
  BY <1>1, <1>3, <1>4, <1>5 DEF CatchesUp, Between
<1>7. IdsMatch' /\ UpdatesApplied'
  BY <1>1 DEF AccountsInv, IdsMatch, UpdatesApplied
<1> QED
  BY <1>6, <1>7 DEF AccountsInv

LEMMA UpdateAccountAccounts ==
    ASSUME Types, AccountsInv, UpdateAccount
    PROVE  AccountsInv'
<1> DEFINE u == Head(updates)
<1>1. /\ up /\ ~Panicked /\ updates # <<>> /\ updates' = Tail(updates) /\ blocksPc' = "updating"
      /\ CreateAccount(u) \/ DeleteAccount(u) \/ UpdateBalance(u)
      /\ UNCHANGED <<requests, dbChain, dbAccounts, up>>
  BY DEF UpdateAccount, Panicked, dbVars, processVars
<1>2. accountNonces \in Nonces /\ updates \in Seq(AccountUpdate)
  BY AccountsTold
<1>3. PICK mid \in Nonces : /\ Leads(accountNonces, updates, mid)
                            /\ Walk(mid, requests, dbAccounts.nonces, Nonces, MessageRel)
  BY <1>1 DEF AccountsInv, CatchesUp, Between
<1> HIDE DEF u
<1>4. PICK to \in Nonces : <<accountNonces, u, to>> \in UpdateRel /\ Leads(to, Tail(updates), mid)
  BY <1>1, <1>2, <1>3, WalkFirst DEF u, Leads
<1>5. accountNonces' = to /\ accountIds' = IdsOf(to)
  BY <1>1, <1>2, <1>4, UpdateFollows DEF AccountsInv, IdsMatch
<1>6. CatchesUp'
  BY <1>1, <1>3, <1>4, <1>5 DEF CatchesUp, Between
<1>7. IdsMatch' /\ UpdatesApplied'
  BY <1>1, <1>5 DEF AccountsInv, IdsMatch, UpdatesApplied
<1> QED
  BY <1>6, <1>7 DEF AccountsInv

\* One more message.
LEMMA BetweenAppend ==
    ASSUME NEW from, NEW us, NEW messages \in Seq(Message), NEW to \in Nonces,
           Between(from, us, messages, to), NEW r \in Message, NEW end \in Nonces,
           <<to, r, end>> \in MessageRel
    PROVE  Between(from, us, Append(messages, r), end)
<1>1. PICK mid \in Nonces : Leads(from, us, mid) /\ Walk(mid, messages, to, Nonces, MessageRel)
  BY DEF Between
<1>2. Walk(mid, Append(messages, r), end, Nonces, MessageRel)
  BY <1>1, WalkAppend
<1> QED
  BY <1>1, <1>2 DEF Between

LEMMA RequestBlockAccounts ==
    ASSUME Types, AccountsInv, RequestBlock
    PROVE  AccountsInv'
<1> DEFINE r == [type |-> "GetBlock", first |-> keeperNext, timestamp |-> clock]
<1>1. /\ up /\ ~Panicked /\ requests' = Append(requests, r)
      /\ UNCHANGED <<accountNonces, accountIds, blocksPc, updates, dbChain, dbAccounts, up>>
  BY DEF RequestBlock, accountVars, blocksVars, dbVars, processVars
<1>2. r \in Message /\ r.type # "UpdateNonces"
  BY DEF Types, OuterTypes, Message, GetBlockRequest
<1> HIDE DEF r
<1>3. requests \in Seq(Message) /\ dbAccounts.nonces \in Nonces
  BY AccountsTold
<1>4. <<dbAccounts.nonces, r, dbAccounts.nonces>> \in MessageRel
  BY <1>2, <1>3, NothingLeads DEF MessageRel
<1>5. CatchesUp'
  BY <1>1, <1>2, <1>3, <1>4, BetweenAppend DEF AccountsInv, CatchesUp
<1>6. IdsMatch' /\ UpdatesApplied'
  BY <1>1 DEF AccountsInv, IdsMatch, UpdatesApplied
<1> QED
  BY <1>5, <1>6 DEF AccountsInv

LEMMA CommitBlockAccounts ==
    ASSUME Types, AccountsInv, CommitBlock
    PROVE  AccountsInv'
<1> DEFINE block == Head(keeperOpen)
           executed == Execute(block.txs, dbAccounts.nonces)
           us == executed.updates
           end == executed.nonces
           r == [type |-> "UpdateNonces", updates |-> us]
           new == [first |-> block.first, ops |-> block.ops, txs |-> block.txs, before |-> dbAccounts]
<1>1. /\ up /\ dbChain' = Append(dbChain, new)
      /\ requests' = IF Panicked \/ us = <<>> THEN requests ELSE Append(requests, r)
      /\ UNCHANGED <<accountNonces, accountIds, blocksPc, updates, up>>
  BY DEF CommitBlock, accountVars, blocksVars, processVars
<1>2. /\ end \in Nonces /\ us \in Seq(AccountUpdate) /\ Leads(dbAccounts.nonces, us, end)
      /\ dbAccounts' = [nonces |-> end, ids |-> IdsOf(end)]
  BY CommitExecutes
<1>3. new.before = dbAccounts
  OBVIOUS
<1> HIDE DEF new, us, end
<1>4. r \in Message /\ r.type = "UpdateNonces" /\ r.updates = us
  BY <1>2 DEF Message, UpdateNoncesRequest
<1> HIDE DEF r
<1>5. requests \in Seq(Message) /\ dbAccounts.nonces \in Nonces /\ dbChain \in Seq(ChainBlock)
  BY AccountsTold DEF Types, TableTypes
<1>6. <<dbAccounts.nonces, r, end>> \in MessageRel
  BY <1>2, <1>4, <1>5 DEF MessageRel
<1>7. CatchesUp'
  <2>1. SUFFICES ASSUME up', ~Panicked' PROVE Between(accountNonces, updates, requests', end)
    BY <1>1, <1>2 DEF CatchesUp
  <2>2. ~Panicked /\ Between(accountNonces, updates, requests, dbAccounts.nonces)
    BY <1>1, <2>1 DEF AccountsInv, CatchesUp, Panicked
  <2>3. CASE us = <<>>
    <3>1. end = dbAccounts.nonces
      BY <1>2, <1>5, <2>3, NothingLeads
    <3> QED
      BY <1>1, <2>2, <2>3, <3>1
  <2>4. CASE us # <<>>
    <3>1. requests' = Append(requests, r)
      BY <1>1, <2>2, <2>4
    <3> QED
      BY <1>2, <1>4, <1>5, <1>6, <2>2, <3>1, BetweenAppend
  <2> QED
    BY <2>3, <2>4
<1>8. IdsMatch'
  <2>1. \A i \in DOMAIN dbChain' : dbChain'[i].before.ids = IdsOf(dbChain'[i].before.nonces)
    <3>1. /\ Len(dbChain) \in Nat /\ DOMAIN dbChain = 1 .. Len(dbChain)
          /\ DOMAIN dbChain' = 1 .. Len(dbChain) + 1
          /\ \A i \in 1 .. Len(dbChain) + 1 :
                dbChain'[i] = IF i = Len(dbChain) + 1 THEN new ELSE dbChain[i]
      BY <1>1, <1>5, AppendProperties
    <3> QED
      BY <1>3, <3>1 DEF AccountsInv, IdsMatch
  <2>2. dbAccounts'.ids = IdsOf(dbAccounts'.nonces)
    BY <1>2
  <2> QED
    BY <1>1, <2>1, <2>2 DEF AccountsInv, IdsMatch
<1>9. UpdatesApplied'
  BY <1>1 DEF AccountsInv, UpdatesApplied
<1> QED
  BY <1>7, <1>8, <1>9 DEF AccountsInv

LEMMA ProcessAccounts ==
    ASSUME Types, OrderInv, AccountsInv, Process
    PROVE  AccountsInv'
<1>1. CASE Crash
  <2>1. ~up' /\ updates' = <<>> /\ UNCHANGED <<dbChain, dbAccounts>>
    BY <1>1 DEF Crash, dbVars
  <2> QED
    BY <2>1 DEF AccountsInv, IdsMatch, UpdatesApplied, CatchesUp
<1>2. CASE RevertBlock
  <2> DEFINE n == Len(dbChain)
  <2>1. /\ ~up /\ dbChain # <<>> /\ dbChain' = Front(dbChain) /\ dbAccounts' = Last(dbChain).before
        /\ UNCHANGED <<blocksPc, updates, up>>
    BY <1>2 DEF RevertBlock, blocksVars
  <2>2. dbChain \in Seq(ChainBlock) /\ n \in Nat /\ n \in DOMAIN dbChain /\ Last(dbChain) = dbChain[n]
    BY <2>1 DEF Types, TableTypes, Last
  <2>3. DOMAIN dbChain' \subseteq DOMAIN dbChain /\ \A i \in DOMAIN dbChain' : dbChain'[i] = dbChain[i]
    BY <2>1, <2>2 DEF Front
  <2>4. IdsMatch'
    BY <2>1, <2>2, <2>3 DEF AccountsInv, IdsMatch
  <2> QED
    BY <2>1, <2>4 DEF AccountsInv, UpdatesApplied, CatchesUp
<1>3. CASE RestoreFromDb
  <2>1. /\ ~up /\ accountNonces' = dbAccounts.nonces /\ accountIds' = dbAccounts.ids
        /\ UNCHANGED <<blocksPc, updates, requests, dbChain, dbAccounts>>
    BY <1>3 DEF RestoreFromDb, blocksVars
  <2>2. updates = <<>> /\ requests = <<>> /\ dbAccounts.nonces \in Nonces
    BY <2>1, AccountsTold DEF OrderInv, Stopped
  <2>3. CatchesUp'
    BY <2>1, <2>2, NothingBetween DEF CatchesUp
  <2> QED
    BY <2>1, <2>2, <2>3 DEF AccountsInv, IdsMatch, UpdatesApplied
<1> QED
  BY <1>1, <1>2, <1>3 DEF Process

LEMMA AccountsStep == Types /\ OrderInv /\ AccountsInv /\ [Next]_vars => AccountsInv'
<1> SUFFICES ASSUME Types, OrderInv, AccountsInv, [Next]_vars PROVE AccountsInv'
  OBVIOUS
<1>1. ASSUME NEW h \in Handler, TransactionsHandler(h) PROVE AccountsInv'
  <2>1. UNCHANGED <<accountVars, blocksVars, requests, dbChain, dbAccounts, up>>
    BY <1>1 DEF TransactionsHandler, ReceiveTx, CheckNonce, CheckBatchSize, InsertTx, InsertTxFails,
                AddTx, ReceiveConfirmedOps, ReceiveUnconfirmedOp, ReadMaxSerial, InsertOps, OpsFail,
                AddOps, dbVars, processVars
  <2>2. UpdatesApplied' /\ (Panicked => Panicked')
    BY <2>1 DEF AccountsInv, UpdatesApplied, Panicked, blocksVars
  <2> QED
    BY <2>1, <2>2, AccountsFrame DEF blocksVars
<1>2. CASE ProposeNewBlock \/ SendBlock \/ SendFails
  <2>1. UNCHANGED <<accountVars, updates, requests, dbChain, dbAccounts, up>>
    BY <1>2 DEF ProposeNewBlock, SendBlock, SendFails, dbVars, processVars
  <2>2. blocksPc \in Busy
    BY <1>2 DEF ProposeNewBlock, SendBlock, SendFails, NothingReverted, SelectReverted, RevertedOpDoesNotFit,
                RevertedOpIsMissing, SelectPriorityOps, PrepareTxForBlock, Busy
  <2>3. updates' = <<>> /\ ~Panicked
    BY <2>1, <2>2 DEF AccountsInv, UpdatesApplied, Panicked, Busy
  <2> QED
    BY <2>1, <2>3, AccountsFrame DEF UpdatesApplied
<1>3. CASE UpdatesDone
  <2>1. /\ UNCHANGED <<accountVars, updates, requests, dbChain, dbAccounts, up>>
        /\ updates' = <<>> /\ blocksPc = "updating"
    BY <1>3 DEF UpdatesDone, dbVars, processVars
  <2> QED
    BY <2>1, AccountsFrame DEF UpdatesApplied, Panicked
<1>4. CASE Tick \/ UNCHANGED vars
  <2>1. UNCHANGED <<accountVars, blocksVars, requests, dbChain, dbAccounts, up>>
    BY <1>4 DEF Tick, vars, dbVars, processVars
  <2>2. UpdatesApplied' /\ (Panicked => Panicked')
    BY <2>1 DEF AccountsInv, UpdatesApplied, Panicked, blocksVars
  <2> QED
    BY <2>1, <2>2, AccountsFrame DEF blocksVars
<1>5. ReceiveGetBlock \/ ReceiveUpdateNonces \/ UpdateAccount => AccountsInv'
  BY ReceiveGetBlockAccounts, ReceiveUpdateNoncesAccounts, UpdateAccountAccounts
<1>6. RequestBlock \/ CommitBlock => AccountsInv'
  BY RequestBlockAccounts, CommitBlockAccounts
<1> QED
  BY <1>1, <1>2, <1>3, <1>4, <1>5, <1>6, ProcessAccounts DEF Next, BlocksHandler, StateKeeper

LEMMA CaughtUp == Types /\ AccountsInv => AccountsFollowChain
<1> SUFFICES ASSUME Types, AccountsInv, up, updates = <<>>, ~Panicked,
                    \A i \in DOMAIN requests : requests[i].type # "UpdateNonces"
             PROVE  accountNonces = dbAccounts.nonces /\ accountIds = dbAccounts.ids
  BY DEF AccountsFollowChain
<1>1. /\ accountNonces \in Nonces /\ requests \in Seq(Message)
      /\ dbAccounts.nonces \in Nonces /\ dbAccounts.ids \in Ids
  BY AccountsTold
<1>2. PICK mid \in Nonces : /\ Leads(accountNonces, updates, mid)
                            /\ Walk(mid, requests, dbAccounts.nonces, Nonces, MessageRel)
  BY DEF AccountsInv, CatchesUp, Between
<1>3. mid = accountNonces
  BY <1>1, <1>2, NothingLeads
<1>4. ASSUME NEW i \in 1 .. Len(requests), NEW x \in Nonces, NEW y \in Nonces,
             <<x, requests[i], y>> \in MessageRel
      PROVE  x = y
  <2>1. requests[i].type # "UpdateNonces"
    BY <1>1
  <2>2. Leads(x, <<>>, y)
    BY <1>4, <2>1 DEF MessageRel
  <2> QED
    BY <2>2, NothingLeads
<1>5. mid = dbAccounts.nonces
  BY <1>1, <1>2, <1>4, WalkStill
<1> QED
  BY <1>3, <1>5 DEF AccountsInv, IdsMatch

(* Once the messages of the state keeper have been applied, the accounts   *)
(* that the mempool checks nonces and sizes with are the committed ones:   *)
(* the updates of a block lead from the accounts before it to those after  *)
(* it, in memory as in the database, whatever blocks are requested and     *)
(* built in between and however often the server stops (mod.rs:            *)
(* MempoolBlocksRequest::UpdateNonces, restore_from_db).                   *)
THEOREM AccountsMirrorChain == Spec => []AccountsFollowChain
<1> DEFINE Inv == Types /\ OrderInv /\ AccountsInv
<1>1. Init => Inv
  BY TypesInit, OrderInit, AccountsInit
<1>2. Inv /\ [Next]_vars => Inv'
  BY TypesStep, OrderStep, AccountsStep
<1>3. Inv => AccountsFollowChain
  BY CaughtUp
<1> HIDE DEF Inv
<1> QED
  BY <1>1, <1>2, <1>3, PTL DEF Spec

-----------------------------------------------------------------------------
(* Blocks have confirmed operations only.                                  *)
OpsConfirmed ==
    /\ ToSet(priorityOps) \cup ToSet(proposed.ops) \subseteq DbConfirmed
    /\ \A b \in ToSet(keeperOpen) : ToSet(b.ops) \subseteq DbConfirmed
    /\ \A h \in Handler : handler[h].pc = "addOps" => handler[h].ops \subseteq DbConfirmed

LEMMA ConfirmedInit == Init => OpsConfirmed
<1> SUFFICES ASSUME Init PROVE OpsConfirmed
  OBVIOUS
<1>1. IdleHandler.pc # "addOps" /\ NoBlock.ops = <<>>
  BY DEF IdleHandler, NoBlock
<1> QED
  BY <1>1, NoElements DEF Init, OpsConfirmed

\* The database does not forget that an operation is confirmed.
LEMMA ConfirmedGrows ==
    ASSUME Next
    PROVE  /\ DbConfirmed \subseteq DbConfirmed'
           /\ dbOps' = dbOps \/ \E h \in Handler : InsertOps(h)
<1>1. CASE \E h \in Handler : InsertOps(h)
  BY <1>1 DEF InsertOps, DbConfirmed
<1>2. CASE ~\E h \in Handler : InsertOps(h)
  <2>1. dbOps' = dbOps
    BY <1>2 DEF Next, TransactionsHandler, ReceiveTx, CheckNonce, CheckBatchSize, InsertTx,
           InsertTxFails, AddTx, ReceiveConfirmedOps, ReceiveUnconfirmedOp, ReadMaxSerial,
           OpsFail, AddOps, BlocksHandler, ReceiveGetBlock, ProposeNewBlock, SendBlock,
           SendFails, ReceiveUpdateNonces, UpdateAccount, UpdatesDone, StateKeeper, RequestBlock, Tick,
           CommitBlock, Process, Crash, RevertBlock, RestoreFromDb, dbVars
  <2> QED
    BY <2>1 DEF DbConfirmed
<1> QED
  BY <1>1, <1>2

LEMMA DropShrinks ==
    ASSUME NEW s, IsSeq(s), NEW k \in 0..Len(s)
    PROVE  /\ ToSet(Drop(s, k)) \subseteq ToSet(s) /\ ToSet(Take(s, k)) \subseteq ToSet(s)
BY CutInTwo

LEMMA SelectionsShrink ==
    ASSUME NEW s, IsSeq(s), NEW I, I \subseteq DOMAIN s, NEW kept \in Selections(s, I)
    PROVE  IsSeq(kept) /\ ToSet(kept) \subseteq ToSet(s)
<1>1. IsSeq(kept) /\ ToSet(kept) = {s[i] : i \in I}
  BY Selected
<1> QED
  BY <1>1 DEF ToSet

\* A selection takes operations of the queue.
LEMMA ProposalTakesQueued ==
    ASSUME Types, ProposeNewBlock
    PROVE  ToSet(proposed'.ops) \subseteq ToSet(priorityOps) \cup ToSet(proposed.ops)
<1> DEFINE all == 1..Len(priorityOps)
<1>1. /\ priorityOps \in Seq(SerialId) /\ IsSeq(priorityOps) /\ Len(priorityOps) \in Nat
      /\ DOMAIN priorityOps = all /\ proposed \in Block
  BY ElementsIn DEF Types, QueueTypes, BlockTypes
<1>2. ASSUME NEW k \in 0..Len(priorityOps), NEW from, NEW n,
             NEW ops \in FoundOps(priorityOps, k, from, n)
      PROVE  IsSeq(ops) /\ ToSet(ops) \subseteq ToSet(priorityOps)
  <2> DEFINE I == {i \in 1..k : priorityOps[i] \in from..from + n - 1}
  <2>1. ops \in Selections(priorityOps, I)
    BY DEF FoundOps
  <2>2. I \subseteq DOMAIN priorityOps
    BY <1>1
  <2> HIDE DEF I
  <2> QED
    BY <1>1, <2>1, <2>2, SelectionsShrink
<1>3. ASSUME NEW k \in 0..Len(priorityOps), NEW from, NEW ops \in SelectedOps(priorityOps, k, from)
      PROVE  ToSet(ops) \subseteq ToSet(priorityOps)
  <2> DEFINE I == {i \in 1..k : priorityOps[i] >= from}
  <2>1. ops \in Selections(priorityOps, I)
    BY DEF SelectedOps
  <2>2. I \subseteq DOMAIN priorityOps
    BY <1>1
  <2> HIDE DEF I
  <2> QED
    BY <1>1, <2>1, <2>2, SelectionsShrink
<1>4. CASE NothingReverted \/ RevertedOpIsMissing
  BY <1>4 DEF NothingReverted, RevertedOpIsMissing
<1>5. CASE SelectReverted
  <2>1. PICK k \in 0..Len(priorityOps), r \in 0..Len(revertedTxs) :
          \E ops \in FoundOps(priorityOps, k, request.first, MissingOps) :
            \E txs : proposed' = [proposed EXCEPT !.ops = ops, !.txs = txs]
    BY <1>5 DEF SelectReverted
  <2>2. PICK ops \in FoundOps(priorityOps, k, request.first, MissingOps) :
            \E txs : proposed' = [proposed EXCEPT !.ops = ops, !.txs = txs]
    BY <2>1
  <2>3. proposed'.ops = ops
    BY <1>1, <2>2 DEF Block
  <2> QED
    BY <1>2, <2>3
<1>6. CASE RevertedOpDoesNotFit
  <2>1. PICK n \in 0..MissingOps - 1, k \in 1..Len(priorityOps) :
          \E found \in FoundOps(priorityOps, k, request.first, n + 1) :
            proposed' = [proposed EXCEPT !.ops = Take(found, n)]
    BY <1>6 DEF RevertedOpDoesNotFit
  <2>2. PICK found \in FoundOps(priorityOps, k, request.first, n + 1) :
            proposed' = [proposed EXCEPT !.ops = Take(found, n)]
    BY <2>1
  <2>3. proposed'.ops = Take(found, n)
    BY <1>1, <2>2 DEF Block
  <2>4. k \in 0..Len(priorityOps) /\ IsSeq(found) /\ ToSet(found) \subseteq ToSet(priorityOps)
    BY <1>1, <1>2
  <2>5. Len(found) = n + 1
    BY DEF FoundOps
  <2>6. n \in 0..Len(found)
    BY <2>5
  <2> QED
    BY <2>3, <2>4, <2>6, DropShrinks
<1>7. CASE SelectPriorityOps
  <2>1. PICK k \in 0..Len(priorityOps) : \E ops \in SelectedOps(priorityOps, k, request.first) :
            proposed' = [proposed EXCEPT !.ops = ops]
    BY <1>7 DEF SelectPriorityOps
  <2>2. PICK ops \in SelectedOps(priorityOps, k, request.first) :
            proposed' = [proposed EXCEPT !.ops = ops]
    BY <2>1
  <2>3. proposed'.ops = ops
    BY <1>1, <2>2 DEF Block
  <2> QED
    BY <1>3, <2>3
<1>8. CASE PrepareTxForBlock
  <2>1. \E txs : proposed' = [proposed EXCEPT !.txs = txs]
    BY <1>8 DEF PrepareTxForBlock
  <2>2. proposed'.ops = proposed.ops
    BY <1>1, <2>1 DEF Block
  <2> QED
    BY <2>2
<1> QED
  BY <1>4, <1>5, <1>6, <1>7, <1>8 DEF ProposeNewBlock

\* What a handler is about to queue it has stored as confirmed.
LEMMA AddedAreConfirmed ==
    ASSUME Types, OpsConfirmed, NEW h \in Handler, TransactionsHandler(h), NEW g \in Handler,
           handler'[g].pc = "addOps"
    PROVE  handler'[g].ops \subseteq DbConfirmed'
<1>1. handler \in [Handler -> HandlerState] /\ handler[g] \in HandlerState
  BY DEF Types, HandlerTypes
<1>2. DbConfirmed \subseteq DbConfirmed'
  BY ConfirmedGrows DEF Next
<1>3. IdleHandler.pc # "addOps"
  BY DEF IdleHandler
<1>4. CASE handler'[g] = handler[g]
  BY <1>2, <1>4 DEF OpsConfirmed
<1>5. CASE handler'[g] # handler[g]
  <2>1. g = h
    BY <1>1, <1>5 DEF TransactionsHandler, ReceiveTx, CheckNonce, RefuseTx, CheckBatchSize, InsertTx,
              InsertTxFails, AddTx, ReceiveConfirmedOps, ReceiveUnconfirmedOp, ReadMaxSerial,
              InsertOps, OpsFail, AddOps
  <2>2. ASSUME NEW v \in Variant, ReceiveTx(h, v) PROVE FALSE
    BY <1>1, <2>1, <2>2 DEF ReceiveTx, HandlerState
  <2>3. CASE CheckNonce(h)
    <3>1. NextCheck(handler[h].variant) # "addOps" /\ handler[h].pc = "nonce"
      BY <2>3 DEF NextCheck, CheckNonce
    <3> QED
      BY <1>1, <1>3, <2>1, <2>3, <3>1 DEF CheckNonce, RefuseTx, HandlerState
  <2>4. CASE CheckBatchSize(h)
    BY <1>1, <1>3, <2>1, <2>4 DEF CheckBatchSize, RefuseTx, HandlerState
  <2>5. CASE InsertTx(h)
    BY <1>1, <2>1, <2>5 DEF InsertTx, HandlerState
  <2>6. CASE InsertTxFails(h) \/ AddTx(h) \/ OpsFail(h) \/ AddOps(h)
    BY <1>1, <1>3, <2>1, <2>6 DEF InsertTxFails, RefuseTx, AddTx, OpsFail, AddOps
  <2>7. CASE ReceiveConfirmedOps(h)
    BY <1>1, <2>1, <2>7 DEF ReceiveConfirmedOps, HandlerState
  <2>8. CASE ReceiveUnconfirmedOp(h)
    BY <1>1, <2>1, <2>8 DEF ReceiveUnconfirmedOp, HandlerState
  <2>9. CASE ReadMaxSerial(h)
    BY <1>1, <1>3, <2>1, <2>9 DEF ReadMaxSerial, HandlerState
  <2>10. CASE InsertOps(h)
    <3>1. handler[h].confirmed /\ handler'[h].ops = handler[h].ops
      BY <1>1, <1>3, <2>1, <2>10 DEF InsertOps, QueuesOps, HandlerState
    <3>2. handler[h].ops \subseteq SerialId
      BY <1>1, <2>1 DEF HandlerState
    <3>3. \A s \in handler[h].ops : dbOps'[s] = "confirmed"
      BY <2>10, <3>1, <3>2 DEF InsertOps
    <3> QED
      BY <2>1, <3>1, <3>2, <3>3 DEF DbConfirmed
  <2> QED
    BY <2>2, <2>3, <2>4, <2>5, <2>6, <2>7, <2>8, <2>9, <2>10 DEF TransactionsHandler
<1> QED
  BY <1>4, <1>5

LEMMA ConfirmedStep ==
    Types /\ TxInv /\ OpsInv /\ OpsConfirmed /\ [Next]_vars => OpsConfirmed'
<1> SUFFICES ASSUME Types, TxInv, OpsInv, OpsConfirmed, Next \/ UNCHANGED vars PROVE OpsConfirmed'
  BY DEF vars
<1>1. CASE UNCHANGED vars
  BY <1>1 DEF vars, queueVars, opVars, blocksVars, keeperVars, dbVars, OpsConfirmed, DbConfirmed
<1>2. CASE Next
  <2>1. DbConfirmed \subseteq DbConfirmed'
    BY <1>2, ConfirmedGrows
  <2>2. IsSeq(priorityOps) /\ IsSeq(keeperOpen) /\ NoBlock.ops = <<>> /\ ToSet(<<>>) = {}
    BY NoElements DEF OpsInv, TxInv, Queues, NoBlock
  <2>3. ASSUME handler' = handler \/ \A h \in Handler : handler'[h] = IdleHandler,
               ToSet(priorityOps') \subseteq DbConfirmed',
               ToSet(proposed'.ops) \subseteq DbConfirmed',
               \A b \in ToSet(keeperOpen') : b \in ToSet(keeperOpen) \/ b = proposed
        PROVE  OpsConfirmed'
    <3>1. IdleHandler.pc # "addOps"
      BY DEF IdleHandler
    <3> QED
      BY <2>1, <2>3, <3>1 DEF OpsConfirmed
  <2>4. ASSUME NEW h \in Handler, TransactionsHandler(h) PROVE OpsConfirmed'
    <3>1. \A g \in Handler : handler'[g].pc = "addOps" => handler'[g].ops \subseteq DbConfirmed'
      BY <2>4, AddedAreConfirmed
    <3>2. UNCHANGED <<proposed, keeperOpen>>
      BY <2>4 DEF TransactionsHandler, ReceiveTx, CheckNonce, CheckBatchSize, InsertTx,
              InsertTxFails, AddTx, ReceiveConfirmedOps, ReceiveUnconfirmedOp, ReadMaxSerial,
              InsertOps, OpsFail, AddOps, blocksVars, keeperVars
    <3>3. ToSet(priorityOps') \subseteq DbConfirmed'
      <4>1. CASE AddOps(h)
        <5> DEFINE new == FreshOps(handler[h].ops, priorityOps, lastProcessed)
        <5>1. PICK fresh \in BySerial(new) : priorityOps' = priorityOps \o fresh
          BY <4>1 DEF AddOps
        <5>2. new \subseteq handler[h].ops /\ handler[h].ops \subseteq SerialId
          BY DEF OpsInv, HandlerState, FreshOps
        <5> HIDE DEF new
        <5>3. IsSeq(fresh) /\ ToSet(fresh) = new
          BY <5>2, SortedOnce
        <5>4. ToSet(priorityOps') = ToSet(priorityOps) \cup new
          BY <2>2, <5>1, <5>3, Joined
        <5> QED
          BY <2>1, <4>1, <5>2, <5>4 DEF AddOps, OpsConfirmed
      <4>2. CASE ~AddOps(h)
        <5>1. priorityOps' = priorityOps
          BY <2>4, <4>2 DEF TransactionsHandler, ReceiveTx, CheckNonce, CheckBatchSize, InsertTx,
              InsertTxFails, AddTx, ReceiveConfirmedOps, ReceiveUnconfirmedOp, ReadMaxSerial,
              InsertOps, OpsFail, queueVars, opVars
        <5> QED
          BY <2>1, <5>1 DEF OpsConfirmed
      <4> QED
        BY <4>1, <4>2
    <3> QED
      BY <2>1, <3>1, <3>2, <3>3 DEF OpsConfirmed
  <2>5. CASE ProposeNewBlock
    <3>1. ToSet(priorityOps') \subseteq ToSet(priorityOps)
      BY <2>2, <2>5, ProposalPops, DropShrinks
    <3>2. ToSet(proposed'.ops) \subseteq ToSet(priorityOps) \cup ToSet(proposed.ops)
      BY <2>5, ProposalTakesQueued
    <3> QED
      BY <2>1, <2>3, <2>5, <3>1, <3>2 DEF OpsConfirmed, ProposeNewBlock, keeperVars
  <2>6. CASE ReceiveGetBlock
    <3>1. proposed'.ops = <<>>
      BY <2>2, <2>6 DEF ReceiveGetBlock, NoBlock
    <3> QED
      BY <2>1, <2>2, <2>3, <2>6, <3>1 DEF OpsConfirmed, ReceiveGetBlock, queueVars, opVars, keeperVars
  <2>12. CASE SendFails
    BY <2>1, <2>2, <2>3, <2>12 DEF OpsConfirmed, SendFails, queueVars, opVars, keeperVars
  <2>7. CASE SendBlock
    <3>1. \A b \in ToSet(keeperOpen') : b \in ToSet(keeperOpen) \/ b = proposed
      BY <2>2, <2>7, Appended DEF SendBlock
    <3> QED
      BY <2>1, <2>2, <2>3, <2>7, <3>1 DEF OpsConfirmed, SendBlock, queueVars, opVars
  <2>8. CASE ReceiveUpdateNonces \/ UpdateAccount \/ UpdatesDone \/ RequestBlock \/ Tick \/ RevertBlock
    BY <2>1, <2>3, <2>8 DEF OpsConfirmed, ReceiveUpdateNonces, UpdateAccount, UpdatesDone, RequestBlock,
            Tick, RevertBlock, queueVars, opVars, blocksVars, keeperVars
  <2>9. CASE CommitBlock
    <3>1. ToSet(keeperOpen') \subseteq ToSet(keeperOpen)
      BY <2>2, <2>9, FirstAndRest DEF CommitBlock
    <3> QED
      BY <2>1, <2>3, <2>9, <3>1 DEF OpsConfirmed, CommitBlock, queueVars, opVars, blocksVars
  <2>10. CASE Crash
    BY <2>2, <2>3, <2>10 DEF Crash
  <2>11. CASE RestoreFromDb
    <3> DEFINE new == FreshOps(DbConfirmed, <<>>, DbMaxSerial)
    <3>1. priorityOps' \in BySerial(new)
      BY <2>11 DEF RestoreFromDb
    <3>2. new \subseteq DbConfirmed /\ new \subseteq SerialId
      BY DEF FreshOps, DbConfirmed
    <3> HIDE DEF new
    <3>3. ToSet(priorityOps') = new
      BY <3>1, <3>2, SortedOnce
    <3> QED
      BY <2>1, <2>3, <2>11, <3>2, <3>3 DEF OpsConfirmed, RestoreFromDb, blocksVars
  <2> QED
    BY <1>2, <2>4, <2>5, <2>6, <2>7, <2>8, <2>9, <2>10, <2>11,
       <2>12 DEF Next, BlocksHandler, StateKeeper, Process
<1> QED
  BY <1>1, <1>2

-----------------------------------------------------------------------------
(* The ledger: what its chain has, and where it goes on.                   *)
LedgerChain == [i \in DOMAIN dbChain |-> LedgerBlock(dbChain[i])]

LEMMA LedgerReads ==
    ASSUME dbChain \in Seq(ChainBlock)
    PROVE  /\ Promised!committed = TxsIn(dbChain)
           /\ Promised!nextOp = DbMaxSerial + 1
           /\ LedgerChain \in Seq({LedgerBlock(b) : b \in ChainBlock})
           /\ Len(LedgerChain) = Len(dbChain)
           /\ \A i \in 1..Len(dbChain) : LedgerChain[i] = LedgerBlock(dbChain[i])
<1>1. Len(dbChain) \in Nat /\ DOMAIN dbChain = 1..Len(dbChain) /\ \A i \in 1..Len(dbChain) : dbChain[i] \in ChainBlock
  OBVIOUS
<1> DEFINE V == {LedgerBlock(b) : b \in ChainBlock}
<1>2. \A i \in 1..Len(dbChain) : LedgerBlock(dbChain[i]) \in V
  BY <1>1
<1> HIDE DEF V
<1>3. /\ LedgerChain \in Seq(V) /\ Len(LedgerChain) = Len(dbChain)
      /\ \A i \in 1..Len(dbChain) : LedgerChain[i] = LedgerBlock(dbChain[i])
  BY <1>1, <1>2 DEF LedgerChain
<1>4. Promised!committed = TxsIn(dbChain)
  <2>1. \A i \in DOMAIN dbChain : LedgerBlock(dbChain[i]).txs = dbChain[i].txs
    BY DEF LedgerBlock
  <2>2. \A q : Promised!ToSet(q) = ToSet(q)
    BY DEF Promised!ToSet, ToSet
  <2> QED
    BY <2>1, <2>2 DEF Promised!committed, TxsIn
<1>5. Promised!nextOp = DbMaxSerial + 1
  <2>1. CASE dbChain = <<>>
    <3>1. LedgerChain = <<>>
      BY <1>3, <2>1
    <3> QED
      BY <2>1, <3>1 DEF Promised!nextOp, DbMaxSerial, LedgerChain
  <2>2. CASE dbChain # <<>>
    <3>1. /\ LedgerChain # <<>> /\ Last(LedgerChain) = LedgerBlock(Last(dbChain))
          /\ Last(dbChain) \in ChainBlock
      BY <1>1, <1>3, <2>2 DEF Last
    <3>2. /\ Last(LedgerChain).first = Last(dbChain).first /\ Last(LedgerChain).ops = Last(dbChain).ops
          /\ Last(dbChain).first \in Nat /\ Len(Last(dbChain).ops) \in Nat
      BY <3>1 DEF LedgerBlock, ChainBlock
    <3>3. Promised!nextOp = Last(LedgerChain).first + Len(Last(LedgerChain).ops)
      BY <3>1 DEF Promised!nextOp, Promised!Last, Last, LedgerChain
    <3> QED
      BY <2>2, <3>2, <3>3 DEF DbMaxSerial
  <2> QED
    BY <2>1, <2>2
<1> QED
  BY <1>3, <1>4, <1>5 DEF V

LEMMA OnceIsPermutation ==
    ASSUME NEW s, IsSeq(s), Once(s)
    PROVE  s \in SetToSeqs(ToSet(s))
<1>1. Len(s) \in Nat /\ DOMAIN s = 1..Len(s) /\ s \in [1..Len(s) -> ToSet(s)]
  <2> DEFINE S == ToSet(s)
  <2>1. s \in Seq(S)
    BY DEF IsSeq
  <2> HIDE DEF S
  <2> QED
    BY <2>1 DEF S
<1>2. Cardinality(ToSet(s)) = Len(s)
  <2>1. \A i, j \in 1..Len(s) : i # j => s[i] # s[j]
    BY <1>1 DEF Once
  <2>2. \A x \in ToSet(s) : \E i \in 1..Len(s) : s[i] = x
    BY <1>1 DEF ToSet
  <2>3. s \in Bijection(1..Len(s), ToSet(s))
    BY <1>1, <2>1, <2>2 DEF Bijection, Injection, Surjection, IsInjective
  <2>4. ExistsBijection(1..Len(s), ToSet(s))
    BY <2>3 DEF ExistsBijection
  <2> QED
    BY <1>1, <2>4, FS_CountingElements
<1> QED
  BY <1>1, <1>2 DEF SetToSeqs, Once

-----------------------------------------------------------------------------
(* Each step of the mempool is a step of the ledger or leaves it alone.    *)
LedgerInv == Types /\ OrderInv /\ TxInv /\ OnceInv /\ OpsInv /\ OpsConfirmed
LedgerStays == UNCHANGED <<Durable, acked, DbConfirmed, LedgerChain>>

LEMMA StoreStep ==
    ASSUME LedgerInv, NEW h \in Handler, InsertTx(h)
    PROVE  Promised!Next
<1>1. handler[h].variant \in Variant
  BY DEF LedgerInv, Types, HandlerTypes, HoldsTx, InsertTx
<1>2. Durable' = Durable \cup {handler[h].variant}
  BY DEF InsertTx, Durable
<1>3. UNCHANGED <<acked, DbConfirmed, LedgerChain>>
  BY DEF InsertTx, clientVars, DbConfirmed, LedgerChain
<1>4. Promised!Store(handler[h].variant)
  BY <1>2, <1>3 DEF Promised!Store, LedgerChain
<1> QED
  BY <1>1, <1>4 DEF Promised!Next

LEMMA AnswerStep ==
    ASSUME LedgerInv, NEW h \in Handler, AddTx(h)
    PROVE  Promised!Next
<1>1. handler[h].variant \in Variant
  BY DEF LedgerInv, Types, HandlerTypes, HoldsTx, AddTx
<1>2. handler[h].variant \in Durable
  BY DEF LedgerInv, TxInv, StoredFirst, AddTx
<1>3. /\ acked' = acked \cup {handler[h].variant}
      /\ UNCHANGED <<Durable, DbConfirmed, LedgerChain>>
  BY DEF AddTx, dbVars, Durable, DbConfirmed, LedgerChain
<1>4. Promised!Answer(handler[h].variant)
  BY <1>2, <1>3 DEF Promised!Answer, LedgerChain
<1> QED
  BY <1>1, <1>4 DEF Promised!Next

LEMMA ConfirmStep ==
    ASSUME NEW h \in Handler, InsertOps(h)
    PROVE  Promised!Next
<1>1. DbConfirmed' = DbConfirmed \cup DbConfirmed'
  BY DEF InsertOps, DbConfirmed
<1>2. UNCHANGED <<Durable, acked, LedgerChain>>
  BY DEF InsertOps, clientVars, Durable, LedgerChain
<1>3. Promised!Confirm(DbConfirmed')
  BY <1>1, <1>2 DEF Promised!Confirm, LedgerChain
<1>4. DbConfirmed' \in SUBSET (0..MaxSerial)
  BY DEF DbConfirmed, SerialId
<1> QED
  BY <1>3, <1>4 DEF Promised!Next

LEMMA CommitStep ==
    ASSUME LedgerInv, Types', OnceInv', CommitBlock
    PROVE  Promised!Next
<1> DEFINE block == Head(keeperOpen)
           n == Len(block.ops)
           next == DbMaxSerial + 1
<1>1. /\ keeperOpen # <<>> /\ keeperOpen \in Seq(Block) /\ dbChain \in Seq(ChainBlock)
      /\ dbChain' \in Seq(ChainBlock) /\ IsSeq(keeperOpen) /\ up
  <2>1. Types /\ Types'
    BY DEF LedgerInv
  <2> QED
    BY <2>1, ElementsIn DEF CommitBlock, Types, OuterTypes, TableTypes
<1>2. block \in Block /\ block \in ToSet(keeperOpen) /\ block = keeperOpen[1] /\ 1 \in 1..Len(keeperOpen)
  BY <1>1 DEF ToSet
<1>3. block.ops \in Seq(SerialId) /\ block.txs \in Seq(Variant) /\ n \in Nat
  BY <1>2 DEF Block
<1>4. InPlace(block) /\ block.first = next /\ next \in 0..MaxSerial + 1
  <2>1. Continue(keeperOpen, next, keeperNext) /\ next \in 0..MaxSerial + 1
    BY <1>1, DbMaxSerialTyped DEF LedgerInv, OrderInv, Types
  <2> QED
    BY <1>2, <2>1 DEF Continue
<1>5. n \in 0..MaxSerial + 1 /\ block.ops = [i \in 1..n |-> next + i - 1]
  <2>1. \A i \in 1..n : block.ops[i] = next + i - 1
    BY <1>4 DEF InPlace
  <2>2. block.ops = [i \in 1..n |-> next + i - 1]
    BY <1>3, <2>1
  <2>3. next + n \in 0..MaxSerial + 1
    BY <1>3, <1>4, EndInRange DEF EndOf
  <2>4. MaxSerial \in Int
    BY SerialAssumption
  <2> QED
    BY <1>3, <1>4, <2>2, <2>3, <2>4
<1>6. next..next + n - 1 \subseteq DbConfirmed
  <2>1. ToSet(block.ops) \subseteq DbConfirmed
    BY <1>2 DEF LedgerInv, OpsConfirmed
  <2>2. ASSUME NEW s \in next..next + n - 1 PROVE s \in ToSet(block.ops)
    <3>1. s - next + 1 \in 1..n /\ s = next + (s - next + 1) - 1
      BY <1>3, <1>4
    <3>2. DOMAIN block.ops = 1..n
      BY <1>3
    <3>3. block.ops[s - next + 1] = s
      BY <1>5, <3>1
    <3> QED
      BY <3>1, <3>2, <3>3 DEF ToSet
  <2> QED
    BY <2>1, <2>2
<1> HIDE DEF block, n, next
<1>7. IsSeq(block.txs) /\ Once(block.txs) /\ ToSet(block.txs) \cap TxsIn(dbChain) = {}
  <2> DEFINE rest == TxsOfBlocks(Tail(keeperOpen))
  <2>1. IsSeq(block.txs)
    BY <1>3, SeqOver
  <2>2. TxsOfBlocks(keeperOpen) = block.txs \o rest
    BY <1>1, BlocksHaveTxs, TxsOfTail DEF block
  <2>3. Placed /\ PlacesListed /\ PlacesListed'
    <3>1. Placed /\ Types
      BY DEF LedgerInv, OnceInv, Placed
    <3> QED
      BY <3>1, PlacesAreListed, PTL
  <2>4. IsSeq(rest) /\ ToSet(TxsOfBlocks(keeperOpen)) = TxsIn(keeperOpen)
    BY <2>3 DEF PlacesListed, CommitBlock
  <2>5. Once(TxsOfBlocks(keeperOpen)) /\ TxsIn(dbChain) \cap TxsIn(keeperOpen) = {}
    BY <2>3 DEF Placed, PlacesOnce, PlacesApart, Apart
  <2> HIDE DEF rest
  <2>6. Once(block.txs)
    BY <2>1, <2>2, <2>4, <2>5, OnceParts
  <2>7. ToSet(block.txs) \subseteq TxsIn(keeperOpen)
    BY <2>1, <2>2, <2>4, Joined
  <2> QED
    BY <2>1, <2>5, <2>6, <2>7
<1>8. block.txs \in Promised!SetToAllKPermutations(Durable)
  <2>1. ToSet(block.txs) \subseteq Durable
    <3>1. ToSet(block.txs) \subseteq TxsIn(keeperOpen)
      BY <1>2, TxsOfElements
    <3> QED
      BY <3>1 DEF LedgerInv, TxInv, AckedIsDurable, InMemory
  <2>2. block.txs \in SetToSeqs(ToSet(block.txs))
    BY <1>7, OnceIsPermutation
  <2>3. block.txs \in Promised!SetToSeqs(ToSet(block.txs))
    <3>1. Promised!Cardinality(ToSet(block.txs)) = Cardinality(ToSet(block.txs))
      BY DEF Promised!Cardinality, Cardinality
    <3> QED
      BY <2>2, <3>1 DEF Promised!SetToSeqs, SetToSeqs
  <2>4. ToSet(block.txs) \in SUBSET Durable
    BY <2>1
  <2> QED
    BY <2>3, <2>4 DEF Promised!SetToAllKPermutations
<1>9. LedgerChain' = Append(LedgerChain, [first |-> next, txs |-> block.txs, ops |-> block.ops])
  <2> DEFINE b == [first |-> next, txs |-> block.txs, ops |-> block.ops]
             more == [first |-> block.first, ops |-> block.ops, txs |-> block.txs, before |-> dbAccounts]
  <2>1. dbChain' = Append(dbChain, more)
    BY DEF CommitBlock, block
  <2>2. LedgerBlock(more) = b
    BY <1>4 DEF LedgerBlock
  <2> HIDE DEF b, more
  <2>3. /\ Len(dbChain) \in Nat /\ DOMAIN dbChain = 1..Len(dbChain)
        /\ Len(dbChain') = Len(dbChain) + 1 /\ DOMAIN dbChain' = 1..Len(dbChain) + 1
        /\ dbChain'[Len(dbChain) + 1] = more
        /\ \A i \in 1..Len(dbChain) : dbChain'[i] = dbChain[i]
    BY <1>1, <2>1
  <2> DEFINE V == {LedgerBlock(c) : c \in ChainBlock}
  <2>4. /\ LedgerChain \in Seq(V) /\ Len(LedgerChain) = Len(dbChain)
        /\ \A i \in 1..Len(dbChain) : LedgerChain[i] = LedgerBlock(dbChain[i])
    BY <1>1, LedgerReads
  <2> HIDE DEF V
  <2>5. Append(LedgerChain, b) = [i \in 1..Len(dbChain) + 1 |->
                                    IF i = Len(dbChain) + 1 THEN b ELSE LedgerChain[i]]
    <3> DEFINE W == V \cup {b}
    <3>1. LedgerChain \in Seq(W) /\ b \in W
      BY <2>4
    <3> HIDE DEF W
    <3>2. /\ Append(LedgerChain, b) \in Seq(W) /\ Len(Append(LedgerChain, b)) = Len(dbChain) + 1
          /\ Append(LedgerChain, b)[Len(dbChain) + 1] = b
          /\ \A i \in 1..Len(dbChain) : Append(LedgerChain, b)[i] = LedgerChain[i]
      BY <2>3, <2>4, <3>1
    <3>3. DOMAIN Append(LedgerChain, b) = 1..Len(dbChain) + 1
      BY <3>2
    <3>4. \A i \in 1..Len(dbChain) + 1 : i = Len(dbChain) + 1 \/ i \in 1..Len(dbChain)
      BY <2>3
    <3>5. \A i \in 1..Len(dbChain) + 1 :
              Append(LedgerChain, b)[i] = IF i = Len(dbChain) + 1 THEN b ELSE LedgerChain[i]
      BY <3>2, <3>4
    <3>6. Append(LedgerChain, b) = [i \in 1..Len(dbChain) + 1 |-> Append(LedgerChain, b)[i]]
      <4> DEFINE m == Append(LedgerChain, b)
      <4>1. m \in Seq(W) /\ DOMAIN m = 1..Len(dbChain) + 1
        BY <3>2, <3>3
      <4> HIDE DEF m
      <4>2. m = [i \in DOMAIN m |-> m[i]]
        BY <4>1
      <4> QED
        BY <4>1, <4>2 DEF m
    <3> QED
      BY <3>5, <3>6
  <2>6. LedgerChain' = [i \in 1..Len(dbChain) + 1 |-> LedgerBlock(dbChain'[i])]
    BY <2>3 DEF LedgerChain
  <2>7. \A i \in 1..Len(dbChain) + 1 :
            LedgerBlock(dbChain'[i]) = IF i = Len(dbChain) + 1 THEN b ELSE LedgerChain[i]
    BY <2>2, <2>3, <2>4
  <2> QED
    BY <2>5, <2>6, <2>7 DEF b
<1>10. UNCHANGED <<Durable, acked, DbConfirmed>>
  <2>1. Durable' = Durable
    BY CommitBlockHolds DEF LedgerInv, SameDurable
  <2> QED
    BY <2>1 DEF CommitBlock, clientVars, DbConfirmed
<1>11. Promised!Commit(n, block.txs)
  <2>1. Promised!nextOp = next /\ Promised!committed = TxsIn(dbChain)
    BY <1>1, LedgerReads DEF next
  <2>2. Promised!ToSet(block.txs) = ToSet(block.txs)
    BY DEF Promised!ToSet, ToSet
  <2>3. LedgerChain' = Append(LedgerChain, [first |-> next, txs |-> block.txs,
                                            ops |-> [i \in 1..n |-> next + i - 1]])
    BY <1>5, <1>9
  <2> QED
    BY <1>6, <1>7, <1>10, <2>1, <2>2, <2>3 DEF Promised!Commit, LedgerChain
<1> QED
  BY <1>5, <1>8, <1>11 DEF Promised!Next

LEMMA RevertStep ==
    ASSUME LedgerInv, RevertBlock
    PROVE  Promised!Next
<1>1. /\ dbChain \in Seq(ChainBlock) /\ dbChain # <<>> /\ dbChain' = Front(dbChain)
      /\ UNCHANGED <<Durable, acked, DbConfirmed>>
  <2>1. Durable' = Durable
    BY RevertBlockHolds DEF LedgerInv, SameDurable
  <2> QED
    BY <2>1 DEF RevertBlock, clientVars, DbConfirmed, LedgerInv, Types, TableTypes
<1>2. LedgerChain # <<>> /\ LedgerChain' = Promised!Front(LedgerChain)
  <2> DEFINE V == {LedgerBlock(c) : c \in ChainBlock}
  <2>1. /\ LedgerChain \in Seq(V) /\ Len(LedgerChain) = Len(dbChain)
        /\ \A i \in 1..Len(dbChain) : LedgerChain[i] = LedgerBlock(dbChain[i])
    BY <1>1, LedgerReads
  <2> HIDE DEF V
  <2>2. Len(dbChain) \in Nat \ {0}
    BY <1>1
  <2>3. Front(dbChain) = [i \in 1..Len(dbChain) - 1 |-> dbChain[i]]
    BY <1>1, <2>2 DEF Front
  <2>4. Promised!Front(LedgerChain) = [i \in 1..Len(dbChain) - 1 |-> LedgerChain[i]]
    BY <2>1, <2>2 DEF Promised!Front
  <2>5. LedgerChain' = [i \in 1..Len(dbChain) - 1 |-> LedgerBlock(dbChain[i])]
    BY <1>1, <2>3 DEF LedgerChain
  <2> QED
    BY <2>1, <2>2, <2>4, <2>5
<1>3. Promised!Revert
  BY <1>1, <1>2 DEF Promised!Revert, LedgerChain
<1> QED
  BY <1>3 DEF Promised!Next

LEMMA CollectStep ==
    ASSUME LedgerInv, RestoreFromDb
    PROVE  Promised!Next
<1>1. /\ Durable' = {v \in Durable : v \in TxsIn(dbChain) \/ v \notin Garbage}
      /\ UNCHANGED <<acked, DbConfirmed, LedgerChain>>
  BY RestoreHolds DEF LedgerInv, Collected, RestoreFromDb, clientVars, DbConfirmed, LedgerChain
<1>2. Promised!committed = TxsIn(dbChain)
  BY LedgerReads DEF LedgerInv, Types, TableTypes
<1>3. \A v \in Durable : v \in Variant
  BY DEF LedgerInv, OnceInv, HeldApart, Types, OuterTypes
<1>4. Promised!Collect
  BY <1>1, <1>2, <1>3 DEF Promised!Collect, Garbage, SameTx, LedgerChain
<1> QED
  BY <1>4 DEF Promised!Next

LEMMA OtherSteps ==
    ASSUME LedgerInv, Next, ~CommitBlock, ~RevertBlock, ~RestoreFromDb,
           \A h \in Handler : ~InsertTx(h) /\ ~AddTx(h) /\ ~InsertOps(h)
    PROVE  LedgerStays
<1>1. DbConfirmed' = DbConfirmed
  BY ConfirmedGrows DEF DbConfirmed
<1>2. ASSUME NEW h \in Handler, TransactionsHandler(h) PROVE UNCHANGED <<Durable, acked, dbChain>>
  <2>1. Untouched
    BY <1>2, HandlersUntouched
  <2> QED
    BY <2>1 DEF Untouched, tableVars, Durable
<1>3. CASE BlocksHandler \/ RequestBlock \/ Tick \/ Crash
  BY <1>1, <1>3 DEF BlocksHandler, ReceiveGetBlock, ProposeNewBlock, SendBlock, SendFails,
              ReceiveUpdateNonces,
              UpdateAccount, UpdatesDone, RequestBlock, Tick, Crash, dbVars, clientVars, Durable,
              LedgerStays, LedgerChain
<1> QED
  BY <1>1, <1>2, <1>3 DEF Next, StateKeeper, Process, LedgerStays, LedgerChain

LEMMA LedgerStep ==
    LedgerInv /\ LedgerInv' /\ [Next]_vars
        => Promised!Next \/ UNCHANGED <<Durable, acked, DbConfirmed, LedgerChain>>
<1> SUFFICES ASSUME LedgerInv, LedgerInv', Next \/ UNCHANGED vars
             PROVE  Promised!Next \/ LedgerStays
  BY DEF LedgerStays, vars
<1>1. CASE UNCHANGED vars
  BY <1>1 DEF vars, dbVars, clientVars, LedgerStays, Durable, DbConfirmed, LedgerChain
<1>2. CASE \E h \in Handler : InsertTx(h) \/ AddTx(h) \/ InsertOps(h)
  BY <1>2, StoreStep, AnswerStep, ConfirmStep
<1>3. CASE CommitBlock
  <2>1. Types' /\ OnceInv'
    BY DEF LedgerInv
  <2> QED
    BY <1>3, <2>1, CommitStep
<1>4. CASE RevertBlock
  BY <1>4, RevertStep
<1>5. CASE RestoreFromDb
  BY <1>5, CollectStep
<1> QED
  BY <1>1, <1>2, <1>3, <1>4, <1>5, OtherSteps

(* The mempool keeps the ledger that Ledger.tla describes: it answers for  *)
(* what is stored only, and every committed block has the next operations, *)
(* all of them confirmed and none left out, and stored transactions that   *)
(* no block of the chain has, for any number of handlers, crashes and      *)
(* reverted blocks (mod.rs: add_tx, add_priority_ops, "Add to queue only   *)
(* confirmed priority operations", propose_new_block, restore_from_db).    *)
(* A restart gives up the copies of what was executed and nothing else,    *)
(* whatever was sent twice.                                                *)
THEOREM LedgerKept == Spec => ImplementsLedger
<1>1. Init => LedgerInv
  BY TypesInit, OrderInit, TxInit, OnceInit, OpsInit, ConfirmedInit DEF LedgerInv
<1>2. LedgerInv /\ [Next]_vars => LedgerInv'
  BY TypesStep, OrderStep, TxStep, OnceStep, OpsStep, ConfirmedStep DEF LedgerInv
<1>3. Init => Promised!Init
  <2> SUFFICES ASSUME Init PROVE Promised!Init
    OBVIOUS
  <2>1. Durable = {} /\ acked = {} /\ dbChain = <<>>
    BY NoElements DEF Init, Durable, RevertedIn, TxsIn
  <2>2. DbConfirmed = {}
    BY DEF Init, DbConfirmed
  <2>3. [i \in DOMAIN dbChain |-> LedgerBlock(dbChain[i])] = <<>>
    BY <2>1
  <2> QED
    BY <2>1, <2>2, <2>3 DEF Promised!Init
<1>4. LedgerInv /\ LedgerInv' /\ [Next]_vars =>
        [Promised!Next]_<<Durable, acked, DbConfirmed, [i \in DOMAIN dbChain |-> LedgerBlock(dbChain[i])]>>
  BY LedgerStep DEF LedgerChain
<1> QED
  BY <1>1, <1>2, <1>3, <1>4, PTL DEF Spec, ImplementsLedger, Promised!Spec
=============================================================================
