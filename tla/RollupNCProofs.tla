--------------------------- MODULE RollupNCProofs ---------------------------
(***************************************************************************)
(* Proofs about the rollup contract: for any batches, deposits and proofs, *)
(* made before or after others are accepted, no batch is undone and no     *)
(* deposit is lost or moved; and, while the coordinator inserts subtrees   *)
(* of depositSubtreeHeight, the pending ones count in binary.              *)
(***************************************************************************)
EXTENDS RollupNC, Induction

-----------------------------------------------------------------------------
(* A proof waits only for a batch that has no number yet: it is made for   *)
(* such a batch, and used up in the step that gives the number.            *)
ProofsOfNewBatches == \A t \in TxRoot : proof[t] # NoProof => updates[t] = 0

IInv ==
    /\ batches \in Seq(TxRoot)
    /\ updates \in [TxRoot -> Nat] /\ DOMAIN proof = TxRoot
    /\ ProofsOfNewBatches
    /\ BatchesKept

LEMMA InitHolds == Init => IInv
<1> SUFFICES ASSUME Init PROVE IInv
  OBVIOUS
<1>1. batches = <<>> /\ updateNumber = 0
  BY DEF Init
<1>2. batches \in Seq(TxRoot) /\ Len(batches) = 0 /\ DOMAIN batches = {}
  BY <1>1
<1>3. updates \in [TxRoot -> Nat] /\ DOMAIN proof = TxRoot /\ ProofsOfNewBatches
  BY DEF Init, ProofsOfNewBatches
<1> QED
  BY <1>1, <1>2, <1>3 DEF IInv, BatchesKept

(* Accepting a proof: FromCurrentRoot makes the batches of the proof those *)
(* of the root, and the batch is not among them, for it has no number.     *)
LEMMA UpdateHolds ==
    ASSUME NEW t \in TxRoot, IInv, UpdateState(t)
    PROVE  IInv'
<1>1. batches \in Seq(TxRoot) /\ updates \in [TxRoot -> Nat] /\ DOMAIN proof = TxRoot
  BY DEF IInv
<1>2. updateNumber = Len(batches) /\ Len(batches) \in Nat /\ DOMAIN batches = 1..Len(batches)
  BY <1>1 DEF IInv, BatchesKept
<1>3. \A i \in 1..Len(batches) : updates[batches[i]] = i
  BY <1>2 DEF IInv, BatchesKept
<1>4. proof[t].batches = batches
  BY DEF UpdateState, FromCurrentRoot, currentRoot
<1>5. updates[t] = 0
  BY DEF UpdateState, IInv, ProofsOfNewBatches
<1>6. /\ batches' = Append(batches, t) /\ updateNumber' = Len(batches) + 1
      /\ updates' = [updates EXCEPT ![t] = Len(batches) + 1]
      /\ proof' = [proof EXCEPT ![t] = NoProof]
  BY <1>2, <1>4 DEF UpdateState
<1>7. /\ batches' \in Seq(TxRoot) /\ Len(batches') = Len(batches) + 1
      /\ \A i \in 1..Len(batches) : batches'[i] = batches[i]
      /\ batches'[Len(batches) + 1] = t
  BY <1>1, <1>6, AppendProperties
<1>8. updates' \in [TxRoot -> Nat] /\ DOMAIN proof' = TxRoot
  BY <1>1, <1>2, <1>6
<1>9. ProofsOfNewBatches'
  <2> SUFFICES ASSUME NEW u \in TxRoot, proof'[u] # NoProof PROVE updates'[u] = 0
    BY DEF ProofsOfNewBatches, NoProof
  <2>1. u # t
    BY <1>1, <1>6
  <2>2. proof'[u] = proof[u] /\ updates'[u] = updates[u]
    BY <1>1, <1>6, <2>1
  <2> QED
    BY <2>2 DEF IInv, ProofsOfNewBatches
<1>10. BatchesKept'
  <2>1. updateNumber' = Len(batches') /\ DOMAIN batches' = 1..(Len(batches) + 1)
    BY <1>2, <1>6, <1>7
  <2>2. ASSUME NEW i \in 1..(Len(batches) + 1) PROVE updates'[batches'[i]] = i
    <3>1. CASE i = Len(batches) + 1
      BY <1>1, <1>6, <1>7, <3>1
    <3>2. CASE i \in 1..Len(batches)
      <4>1. batches'[i] = batches[i] /\ batches[i] \in TxRoot /\ i # 0
        BY <1>1, <1>2, <1>7, <3>2
      <4>2. updates[batches[i]] = i /\ batches[i] # t
        BY <1>3, <1>5, <3>2, <4>1
      <4> QED
        BY <1>1, <1>6, <4>1, <4>2
    <3> QED
      BY <1>2, <3>1, <3>2
  <2> QED
    BY <2>1, <2>2 DEF BatchesKept
<1> QED
  BY <1>7, <1>8, <1>9, <1>10 DEF IInv

LEMMA StepHolds == IInv /\ [Next]_vars => IInv'
<1> SUFFICES ASSUME IInv, [Next]_vars PROVE IInv'
  OBVIOUS
<1>1. ASSUME UNCHANGED updateVars, UNCHANGED proof PROVE IInv'
  BY <1>1 DEF IInv, ProofsOfNewBatches, BatchesKept, updateVars, NoProof
<1>2. CASE Deposit
  BY <1>1, <1>2 DEF Deposit
<1>3. ASSUME NEW position \in Position, ProcessDeposits(position) PROVE IInv'
  BY <1>1, <1>3 DEF ProcessDeposits
<1>4. ASSUME NEW t \in TxRoot, ProveUpdate(t) PROVE IInv'
  <2>1. updates[t] = 0 /\ proof' = [proof EXCEPT ![t] = currentRoot] /\ UNCHANGED updateVars
    BY <1>4 DEF ProveUpdate
  <2>2. UNCHANGED <<batches, updateNumber, updates>>
    BY <2>1 DEF updateVars
  <2>3. DOMAIN proof' = TxRoot /\ \A u \in TxRoot : u # t => proof'[u] = proof[u]
    BY <2>1 DEF IInv
  <2>4. ProofsOfNewBatches'
    BY <2>1, <2>2, <2>3 DEF IInv, ProofsOfNewBatches, NoProof
  <2> QED
    BY <2>2, <2>3, <2>4 DEF IInv, BatchesKept
<1>5. ASSUME NEW t \in TxRoot, UpdateState(t) PROVE IInv'
  BY <1>5, UpdateHolds
<1>6. CASE UNCHANGED vars
  BY <1>1, <1>6 DEF vars
<1> QED
  BY <1>2, <1>3, <1>4, <1>5, <1>6 DEF Next

(* The root contains every batch that has a number, in the order of the    *)
(* numbers, however updates, deposits and insertions are interleaved       *)
(* (RollupNC.sol: updateState accepts a proof only against currentRoot).   *)
THEOREM NoBatchIsUndone == Spec => []BatchesKept
<1>1. IInv => BatchesKept
  BY DEF IInv
<1> QED
  BY <1>1, InitHolds, StepHolds, PTL DEF Spec

-----------------------------------------------------------------------------
(* The leaves of a sequence of trees.                                      *)
LeafLists(trees) == [i \in DOMAIN trees |-> trees[i].leaves]

LEMMA LeafListsIs ==
    ASSUME NEW trees \in Seq(Tree)
    PROVE  /\ LeafLists(trees) \in Seq(Seq(Nat)) /\ Len(LeafLists(trees)) = Len(trees)
           /\ LeavesOf(trees) = FlattenSeq(LeafLists(trees))
           /\ LeavesOf(trees) \in Seq(Nat)
<1>1. \A i \in 1..Len(trees) : trees[i] \in Tree
  OBVIOUS
<1>2. \A i \in 1..Len(trees) : trees[i].leaves \in Seq(Nat)
  BY <1>1 DEF Tree
<1>3. LeafLists(trees) \in Seq(Seq(Nat)) /\ Len(LeafLists(trees)) = Len(trees)
  <2>1. DOMAIN trees = 1..Len(trees) /\ Len(trees) \in Nat
    OBVIOUS
  <2> DEFINE V == Seq(Nat)
  <2>2. \A i \in 1..Len(trees) : trees[i].leaves \in V
    BY <1>2
  <2> HIDE DEF V
  <2>3. LeafLists(trees) \in Seq(V) /\ Len(LeafLists(trees)) = Len(trees)
    BY <2>1, <2>2 DEF LeafLists
  <2> QED
    BY <2>3 DEF V
<1>4. LeavesOf(trees) = FlattenSeq(LeafLists(trees))
  BY DEF LeavesOf, LeafLists
<1>5. PICK f : Flattening(f, LeafLists(trees), Nat)
  BY <1>3, FlatteningExists
<1>6. FlattenSeq(LeafLists(trees)) \in Seq(Nat)
  BY <1>3, <1>5, FlattensTo
<1> QED
  BY <1>3, <1>4, <1>6

LEMMA LeavesOfNone == LeavesOf(<<>>) = <<>>
<1>1. LeafLists(<<>>) = <<>> /\ LeavesOf(<<>>) = FlattenSeq(LeafLists(<<>>))
  BY DEF LeafLists, LeavesOf
<1> QED
  BY <1>1 DEF FlattenSeq

LEMMA LeavesOfAppend ==
    ASSUME NEW trees \in Seq(Tree), NEW t \in Tree
    PROVE  LeavesOf(Append(trees, t)) = LeavesOf(trees) \o t.leaves
<1> DEFINE more == Append(trees, t)
<1>1. /\ more \in Seq(Tree) /\ Len(more) = Len(trees) + 1 /\ more[Len(trees) + 1] = t
      /\ \A i \in 1..Len(trees) : more[i] = trees[i]
  BY AppendProperties
<1>2. t.leaves \in Seq(Nat)
  BY DEF Tree
<1> HIDE DEF more
<1>3. LeafLists(more) = Append(LeafLists(trees), t.leaves)
  <2> DEFINE V == Seq(Nat)
             l == LeafLists(more)
             m == LeafLists(trees)
             r == Append(m, t.leaves)
  <2>1. /\ l \in Seq(V) /\ Len(l) = Len(trees) + 1
        /\ m \in Seq(V) /\ Len(m) = Len(trees) /\ t.leaves \in V
    BY <1>1, <1>2, LeafListsIs
  <2>2. /\ DOMAIN more = 1..Len(trees) + 1 /\ DOMAIN trees = 1..Len(trees)
        /\ Len(trees) \in Nat
    BY <1>1
  <2>3. /\ \A i \in 1..Len(trees) + 1 : l[i] = more[i].leaves
        /\ \A i \in 1..Len(trees) : m[i] = trees[i].leaves
    BY <2>2 DEF LeafLists
  <2> HIDE DEF V, l, m
  <2>4. /\ r \in Seq(V) /\ Len(r) = Len(trees) + 1 /\ r[Len(trees) + 1] = t.leaves
        /\ \A i \in 1..Len(trees) : r[i] = m[i]
    BY <2>1, AppendProperties
  <2> HIDE DEF r
  <2>5. ASSUME NEW i \in 1..Len(trees) + 1 PROVE l[i] = r[i]
    <3>1. CASE i = Len(trees) + 1
      BY <1>1, <2>3, <2>4, <3>1
    <3>2. CASE i \in 1..Len(trees)
      BY <1>1, <2>3, <2>4, <3>2
    <3> QED
      BY <2>2, <3>1, <3>2
  <2>6. l = r
    BY <2>1, <2>4, <2>5, SeqEqual
  <2> QED
    BY <2>6 DEF l, r, m
<1>4. LeafLists(trees) \in Seq(Seq(Nat))
  BY LeafListsIs
<1>5. FlattenSeq(Append(LeafLists(trees), t.leaves)) = FlattenSeq(LeafLists(trees)) \o t.leaves
  BY <1>2, <1>4, FlattenAppend
<1> QED
  BY <1>1, <1>3, <1>5, LeafListsIs DEF more

LEMMA LeavesOfTail ==
    ASSUME NEW trees \in Seq(Tree), trees # <<>>
    PROVE  LeavesOf(trees) = Head(trees).leaves \o LeavesOf(Tail(trees))
<1> DEFINE l == LeafLists(trees)
           rest == Tail(trees)
<1>1. /\ rest \in Seq(Tree) /\ Len(trees) \in Nat \ {0} /\ Len(rest) = Len(trees) - 1
      /\ \A i \in 1..Len(rest) : rest[i] = trees[i + 1]
      /\ Head(trees) = trees[1]
  BY HeadTailProperties
<1> HIDE DEF rest
<1>2. /\ DOMAIN trees = 1..Len(trees) /\ DOMAIN rest = 1..Len(rest)
      /\ l \in Seq(Seq(Nat)) /\ Len(l) = Len(trees)
  BY <1>1, LeafListsIs
<1>3. /\ \A i \in 1..Len(trees) : l[i] = trees[i].leaves
      /\ \A i \in 1..Len(rest) : LeafLists(rest)[i] = rest[i].leaves
  BY <1>2 DEF LeafLists
<1> HIDE DEF l
<1>4. l # <<>> /\ Head(l) = Head(trees).leaves
  BY <1>1, <1>2, <1>3
<1>5. Tail(l) = LeafLists(rest)
  <2> DEFINE V == Seq(Nat)
             m == LeafLists(rest)
             r == Tail(l)
  <2>1. m \in Seq(V) /\ Len(m) = Len(trees) - 1
    BY <1>1, LeafListsIs
  <2>2. l \in Seq(V)
    BY <1>2
  <2> HIDE DEF V, m
  <2>3. /\ r \in Seq(V) /\ Len(r) = Len(trees) - 1
        /\ \A i \in 1..Len(r) : r[i] = l[i + 1]
    BY <1>2, <1>4, <2>2, HeadTailProperties
  <2> HIDE DEF r
  <2>4. ASSUME NEW i \in 1..Len(r) PROVE r[i] = m[i]
    <3>1. i + 1 \in 1..Len(trees) /\ i \in 1..Len(rest)
      BY <1>1, <2>3
    <3> QED
      BY <1>1, <1>3, <2>3, <3>1 DEF m
  <2>5. r = m
    BY <2>1, <2>3, <2>4, SeqEqual
  <2> QED
    BY <2>5 DEF r, m
<1>6. FlattenSeq(l) = Head(l) \o FlattenSeq(Tail(l))
  BY <1>2, <1>4, FlattenTail
<1> QED
  BY <1>1, <1>4, <1>5, <1>6, LeafListsIs DEF l, rest

-----------------------------------------------------------------------------
(* Merging the last two trees, once and as often as the loop does.         *)
LEMMA HashIsTree ==
    ASSUME NEW l \in Tree, NEW r \in Tree
    PROVE  Hash(l, r) \in Tree /\ Hash(l, r).leaves = l.leaves \o r.leaves
BY DEF Tree, Hash

LastTwo(trees, front, a, b) ==
    /\ trees = Append(Append(front, a), b)
    /\ front \in Seq(Tree) /\ Len(front) = Len(trees) - 2 /\ a \in Tree /\ b \in Tree
    /\ a = trees[Len(trees) - 1] /\ b = trees[Len(trees)]
    /\ \A i \in 1..Len(trees) - 2 : front[i] = trees[i]
    /\ MergeLast(trees) = Append(front, Hash(a, b))

LEMMA SplitLastTwo ==
    ASSUME NEW trees \in Seq(Tree), Len(trees) >= 2
    PROVE  LastTwo(trees, SubSeq(trees, 1, Len(trees) - 2), trees[Len(trees) - 1],
                   trees[Len(trees)])
<1> DEFINE n == Len(trees)
           front == SubSeq(trees, 1, n - 2)
           a == trees[n - 1]
           b == trees[n]
           one == Append(front, a)
           two == Append(one, b)
<1>1. n \in Nat /\ n - 1 \in 1..n /\ n \in 1..n /\ n - 2 \in Nat
  OBVIOUS
<1>2. a \in Tree /\ b \in Tree
  BY <1>1, ElementOfSeq
<1>3. /\ front \in Seq(Tree) /\ Len(front) = n - 2
      /\ \A i \in 1..n - 2 : front[i] = trees[i]
  <2>1. \A i \in 1..n - 2 : trees[i] \in Tree
    BY <1>1
  <2>2. 1 \in Int /\ n - 2 \in Int /\ Len(front) = (IF 1 <= n - 2 THEN n - 2 - 1 + 1 ELSE 0)
        /\ front \in Seq(Tree) /\ \A i \in 1..n - 2 - 1 + 1 : front[i] = trees[1 + i - 1]
    BY <1>1, <2>1, SubSeqProperties
  <2> HIDE DEF front, n
  <2>3. \A i \in 1..n - 2 : i \in 1..n - 2 - 1 + 1 /\ 1 + i - 1 = i
    BY <1>1
  <2> QED
    BY <1>1, <2>2, <2>3
<1> HIDE DEF front, a, b
<1>4. /\ one \in Seq(Tree) /\ Len(one) = n - 1 /\ one[n - 1] = a
      /\ \A i \in 1..n - 2 : one[i] = trees[i]
  <2>1. /\ one \in Seq(Tree) /\ Len(one) = Len(front) + 1 /\ one[Len(front) + 1] = a
        /\ \A i \in 1..Len(front) : one[i] = front[i]
    BY <1>2, <1>3, AppendProperties
  <2> HIDE DEF one, n
  <2> QED
    BY <1>1, <1>3, <2>1
<1> HIDE DEF one
<1>5. /\ two \in Seq(Tree) /\ Len(two) = n /\ two[n] = b
      /\ \A i \in 1..n - 1 : two[i] = one[i]
  <2>1. /\ two \in Seq(Tree) /\ Len(two) = Len(one) + 1 /\ two[Len(one) + 1] = b
        /\ \A i \in 1..Len(one) : two[i] = one[i]
    BY <1>2, <1>4, AppendProperties
  <2> HIDE DEF two, n
  <2> QED
    BY <1>1, <1>4, <2>1
<1> HIDE DEF two
<1>6. \A i \in 1..n : trees[i] = two[i]
  <2>1. \A i \in 1..n : i = n \/ i = n - 1 \/ i \in 1..n - 2
    BY <1>1
  <2>2. n - 1 \in 1..n - 1 /\ \A i \in 1..n - 2 : i \in 1..n - 1
    BY <1>1
  <2> HIDE DEF n
  <2> QED
    BY <1>4, <1>5, <2>1, <2>2 DEF a, b
<1>7. trees = two
  BY <1>5, <1>6, SeqEqual
<1>8. MergeLast(trees) = Append(front, Hash(a, b))
  BY DEF MergeLast, front, a, b
<1> HIDE DEF n
<1>9. LastTwo(trees, front, a, b)
  BY <1>2, <1>3, <1>7, <1>8 DEF LastTwo, two, one, n, a, b
<1> QED
  BY <1>9 DEF front, a, b, n

LEMMA MergeKeepsLeaves ==
    ASSUME NEW trees \in Seq(Tree), Len(trees) >= 2
    PROVE  /\ MergeLast(trees) \in Seq(Tree) /\ Len(MergeLast(trees)) = Len(trees) - 1
           /\ LeavesOf(MergeLast(trees)) = LeavesOf(trees)
<1> DEFINE front == SubSeq(trees, 1, Len(trees) - 2)
           a == trees[Len(trees) - 1]
           b == trees[Len(trees)]
<1>1. LastTwo(trees, front, a, b)
  BY SplitLastTwo
<1> HIDE DEF front, a, b
<1>2. /\ front \in Seq(Tree) /\ a \in Tree /\ b \in Tree /\ Len(trees) \in Nat
      /\ Len(front) = Len(trees) - 2
      /\ trees = Append(Append(front, a), b) /\ MergeLast(trees) = Append(front, Hash(a, b))
  BY <1>1 DEF LastTwo
<1>3. Hash(a, b) \in Tree /\ Hash(a, b).leaves = a.leaves \o b.leaves
  BY <1>2, HashIsTree
<1>4. /\ MergeLast(trees) \in Seq(Tree) /\ Len(MergeLast(trees)) = Len(trees) - 1
  BY <1>2, <1>3, AppendProperties
<1>5. LeavesOf(MergeLast(trees)) = LeavesOf(front) \o (a.leaves \o b.leaves)
  BY <1>2, <1>3, LeavesOfAppend
<1>6. LeavesOf(trees) = (LeavesOf(front) \o a.leaves) \o b.leaves
  <2>1. Append(front, a) \in Seq(Tree)
    BY <1>2
  <2> QED
    BY <1>2, <2>1, LeavesOfAppend
<1>7. Reassociates(LeavesOf(front), a.leaves, b.leaves)
  <2>1. LeavesOf(front) \in Seq(Nat) /\ a.leaves \in Seq(Nat) /\ b.leaves \in Seq(Nat)
    BY <1>2, LeafListsIs DEF Tree
  <2> QED
    BY <2>1, Reassociated
<1> QED
  BY <1>4, <1>5, <1>6, <1>7 DEF Reassociates

\* The rounds of the loop, as long as there are hashes.
MergeRounds(f, trees, times) ==
    /\ f \in [0..times -> Seq(Tree)] /\ f[0] = trees
    /\ \A n \in 0..times : Len(f[n]) = Len(trees) - n
    /\ \A n \in 0..times - 1 : f[n + 1] = MergeLast(f[n])
    /\ Merged(trees, times) = f[times]

LEMMA MergedInRounds ==
    ASSUME NEW trees \in Seq(Tree), NEW times \in Nat, times < Len(trees)
    PROVE  \E f : MergeRounds(f, trees, times)
<1> DEFINE V == Seq(Tree)
           step == [x \in V \X Int |-> IF Len(x[1]) >= 2 THEN MergeLast(x[1]) ELSE x[1]]
           IsMerge(g) == g = [n \in 0..times |-> IF n = 0 THEN trees ELSE MergeLast(g[n - 1])]
           after == CHOOSE g : IsMerge(g)
<1>1. \A v \in V : Len(v) \in Nat /\ (Len(v) >= 2 => MergeLast(v) \in V /\ Len(MergeLast(v)) = Len(v) - 1)
  BY MergeKeepsLeaves
<1>2. trees \in V /\ 0 \in Int /\ times \in Int
  OBVIOUS
<1>3. Merged(trees, times) = after[times]
  BY DEF Merged
<1> HIDE DEF V, after
<1>4. /\ step \in [V \X Int -> V]
      /\ \A v \in V, n \in Int : Len(v) >= 2 => step[<<v, n>>] = MergeLast(v)
  BY <1>1
<1> HIDE DEF step
<1>5. PICK f \in [0..times -> V] : LoopsFrom(f, 0, times, trees, step)
  BY <1>2, <1>4, IntervalRecursion
<1>6. f[0] = trees /\ \A n \in 0..times - 1 : n + 1 \in 0..times /\ f[n] \in V /\ f[n + 1] = step[<<f[n], n + 1>>]
  <2>1. \A n \in 0..times - 1 : n + 1 \in 0..times /\ n \in 0..times /\ n + 1 # 0 /\ (n + 1) - 1 = n
    BY <1>2
  <2>2. 0 \in 0..times
    BY <1>2
  <2> QED
    BY <1>5, <2>1, <2>2 DEF LoopsFrom
<1> DEFINE T == {n \in 0..times : Len(f[n]) = Len(trees) - n}
<1>7. 0 \in T
  BY <1>1, <1>2, <1>6
<1>8. ASSUME NEW n \in 0..times - 1, n \in T
      PROVE  n + 1 \in T /\ f[n + 1] = MergeLast(f[n])
  <2>1. f[n] \in V /\ Len(f[n]) = Len(trees) - n /\ Len(f[n]) >= 2 /\ n + 1 \in 0..times
    BY <1>1, <1>2, <1>6, <1>8
  <2>2. f[n + 1] = MergeLast(f[n])
    <3>1. n + 1 \in Int
      BY <1>2
    <3>2. step[<<f[n], n + 1>>] = MergeLast(f[n])
      BY <1>4, <2>1, <3>1
    <3> QED
      BY <1>6, <3>2
  <2>3. Len(f[n + 1]) = Len(f[n]) - 1
    BY <1>1, <2>1, <2>2
  <2>4. Len(f[n + 1]) = Len(trees) - (n + 1)
    BY <1>1, <1>2, <2>1, <2>3
  <2> QED
    BY <2>1, <2>2, <2>4
<1>9. 0..times \subseteq T
  <2> HIDE DEF T
  <2> QED
    BY <1>2, <1>7, <1>8, IntervalInduction
<1>10. \A n \in 0..times - 1 : f[n + 1] = MergeLast(f[n])
  <2>1. \A n \in 0..times - 1 : n \in 0..times
    BY <1>2
  <2> QED
    BY <1>8, <1>9, <2>1
<1>11. IsMerge(f)
  <2>1. \A n \in 0..times : n # 0 => n - 1 \in 0..times - 1 /\ (n - 1) + 1 = n
    BY <1>2
  <2>2. \A n \in 0..times : n # 0 => f[n] = MergeLast(f[n - 1])
    BY <1>10, <2>1
  <2> QED
    BY <1>5, <1>6, <2>2
<1>12. after[times] = f[times]
  <2>1. IsMerge(after)
    BY <1>11 DEF after
  <2> DEFINE U == {n \in 0..times : after[n] = f[n]}
  <2>2. 0 \in U
    BY <1>2, <1>6, <2>1
  <2>3. ASSUME NEW n \in 0..times - 1, n \in U PROVE n + 1 \in U
    <3>1. n + 1 \in 0..times /\ n + 1 # 0 /\ (n + 1) - 1 = n
      BY <1>2
    <3>2. after[n + 1] = MergeLast(after[n])
      BY <2>1, <3>1
    <3> QED
      BY <1>10, <2>3, <3>1, <3>2
  <2>4. times \in 0..times
    BY <1>2
  <2> HIDE DEF U
  <2>5. times \in U
    BY <1>2, <2>2, <2>3, <2>4, IntervalInduction
  <2> QED
    BY <2>5 DEF U
<1>13. MergeRounds(f, trees, times)
  BY <1>3, <1>5, <1>6, <1>9, <1>10, <1>12 DEF MergeRounds, V
<1> QED
  BY <1>13

LEMMA MergedKeepsLeaves ==
    ASSUME NEW trees \in Seq(Tree), NEW times \in Nat, times < Len(trees)
    PROVE  Merged(trees, times) \in Seq(Tree) /\ LeavesOf(Merged(trees, times)) = LeavesOf(trees)
<1>1. PICK f : MergeRounds(f, trees, times)
  BY MergedInRounds
<1> DEFINE T == {n \in 0..times : LeavesOf(f[n]) = LeavesOf(trees)}
<1>2. 0 \in T
  BY <1>1 DEF MergeRounds
<1>3. ASSUME NEW n \in 0..times - 1, n \in T PROVE n + 1 \in T
  <2>1. n + 1 \in 0..times /\ n \in 0..times /\ Len(trees) \in Nat
    OBVIOUS
  <2>2. f[n] \in Seq(Tree) /\ Len(f[n]) = Len(trees) - n /\ f[n + 1] = MergeLast(f[n])
    BY <1>1, <2>1 DEF MergeRounds
  <2>3. Len(f[n]) >= 2
    BY <2>1, <2>2
  <2>4. LeavesOf(f[n + 1]) = LeavesOf(f[n])
    BY <2>2, <2>3, MergeKeepsLeaves
  <2> QED
    BY <1>3, <2>1, <2>4
<1>4. 0 \in Int /\ times \in Int /\ times \in 0..times
  OBVIOUS
<1> HIDE DEF T
<1>5. times \in T
  BY <1>2, <1>3, <1>4, IntervalInduction
<1>6. f[times] \in Seq(Tree) /\ Merged(trees, times) = f[times]
  BY <1>1, <1>4 DEF MergeRounds
<1> QED
  BY <1>5, <1>6 DEF T

-----------------------------------------------------------------------------
(* The deposits: the subtrees inserted, with those pending, list them.     *)
Places == [tree : Tree, position : Position]

KeptInv ==
    /\ pendingDeposits \in Seq(Tree) /\ inserted \in Seq(Places)
    /\ deposited \in Nat /\ queueNumber \in 0..Word - 1 /\ depositSubtreeHeight \in Nat
    /\ DepositsKept

LEMMA TreesOfPlaces ==
    ASSUME NEW places \in Seq(Places), NEW p \in Places,
           NEW trees, trees = [i \in DOMAIN places |-> places[i].tree],
           NEW more, more = [i \in DOMAIN Append(places, p) |-> Append(places, p)[i].tree]
    PROVE  trees \in Seq(Tree) /\ more = Append(trees, p.tree) /\ p.tree \in Tree
<1> DEFINE n == Len(places)
           q == Append(places, p)
<1>1. /\ n \in Nat /\ DOMAIN places = 1..n /\ \A i \in 1..n : places[i].tree \in Tree
      /\ p.tree \in Tree
  <2>1. \A i \in 1..n : places[i] \in Places
    OBVIOUS
  <2> QED
    BY <2>1 DEF Places
<1>2. /\ q \in Seq(Places) /\ Len(q) = n + 1 /\ DOMAIN q = 1..n + 1
      /\ q[n + 1] = p /\ \A i \in 1..n : q[i] = places[i]
  BY AppendProperties
<1> HIDE DEF n
<1>3. trees \in Seq(Tree) /\ Len(trees) = n /\ \A i \in 1..n : trees[i] = places[i].tree
  BY <1>1
<1> HIDE DEF q
<1>4. more = [i \in 1..n + 1 |-> q[i].tree]
  BY <1>2 DEF q
<1>5. /\ more \in Seq(Tree) /\ Len(more) = n + 1 /\ more[n + 1] = p.tree
      /\ \A i \in 1..n : more[i] = trees[i]
  <2>1. /\ \A i \in 1..n + 1 : i = n + 1 \/ i \in 1..n
        /\ n + 1 \in 1..n + 1 /\ \A i \in 1..n : i \in 1..n + 1
    BY <1>1
  <2>2. \A i \in 1..n + 1 : q[i].tree \in Tree
    BY <1>1, <1>2, <2>1
  <2> QED
    BY <1>1, <1>2, <1>3, <1>4, <2>1, <2>2
<1> DEFINE r == Append(trees, p.tree)
<1>6. /\ r \in Seq(Tree) /\ Len(r) = n + 1 /\ r[n + 1] = p.tree
      /\ \A i \in 1..n : r[i] = trees[i]
  BY <1>1, <1>3, AppendProperties
<1> HIDE DEF r
<1>7. \A i \in 1..n + 1 : more[i] = r[i]
  <2>1. \A i \in 1..n + 1 : i = n + 1 \/ i \in 1..n
    BY <1>1
  <2> QED
    BY <1>5, <1>6, <2>1
<1>8. more = r
  BY <1>5, <1>6, <1>7, SeqEqual
<1> QED
  BY <1>1, <1>3, <1>8 DEF r

LEMMA InitKept == Init => KeptInv
<1> SUFFICES ASSUME Init PROVE KeptInv
  OBVIOUS
<1>1. /\ pendingDeposits = <<>> /\ inserted = <<>> /\ deposited = 0
      /\ queueNumber \in 0..Word - 1 /\ depositSubtreeHeight = 0
  BY RollupAssumption DEF Init
<1>2. [i \in DOMAIN inserted |-> inserted[i].tree] = <<>>
  BY <1>1
<1>3. Processed = <<>> /\ LeavesOf(pendingDeposits) = <<>> /\ [i \in 1..deposited |-> i] = <<>>
  BY <1>1, <1>2, LeavesOfNone DEF Processed
<1>4. DepositsKept
  BY <1>3 DEF DepositsKept
<1> QED
  BY <1>1, <1>4 DEF KeptInv

\* A deposit is the last leaf of the pending trees, whatever is hashed then.
LEMMA DepositKeeps ==
    ASSUME KeptInv, Deposit
    PROVE  /\ KeptInv'
           /\ LeavesOf(pendingDeposits)' = Append(LeavesOf(pendingDeposits), deposited + 1)
<1> DEFINE pushed == Append(pendingDeposits, Leaf(deposited + 1))
           n == deposited + 1
           listed == [i \in 1..deposited |-> i]
<1>1. /\ pendingDeposits \in Seq(Tree) /\ deposited \in Nat /\ queueNumber \in Nat
      /\ inserted' = inserted /\ deposited' = n /\ inserted \in Seq(Places)
  BY DEF KeptInv, Deposit
<1>2. Leaf(n) \in Tree /\ Leaf(n).leaves = <<n>> /\ n \in Nat
  BY <1>1 DEF Leaf, Tree
<1>3. pushed \in Seq(Tree) /\ LeavesOf(pushed) = LeavesOf(pendingDeposits) \o <<n>>
  <2> DEFINE leaf == Leaf(n)
  <2> HIDE DEF leaf
  <2>1. leaf \in Tree /\ leaf.leaves = <<n>>
    BY <1>2 DEF leaf
  <2>2. pendingDeposits \in Seq(Tree)
    BY <1>1
  <2>3. LeavesOf(Append(pendingDeposits, leaf)) = LeavesOf(pendingDeposits) \o leaf.leaves
    BY <2>1, <2>2, LeavesOfAppend
  <2>4. Append(pendingDeposits, leaf) \in Seq(Tree)
    BY <2>1, <2>2, AppendProperties
  <2> QED
    BY <2>1, <2>3, <2>4 DEF leaf
<1>4. queueNumber' = (queueNumber + 1) % Word /\ queueNumber' \in 0..Word - 1
  BY <1>1, RollupAssumption DEF Deposit
<1>5. PICK rounds \in Rounds((queueNumber + 1) % Word) :
        /\ rounds < Len(pushed) /\ pendingDeposits' = Merged(pushed, rounds)
        /\ depositSubtreeHeight' = Largest(depositSubtreeHeight, rounds)
  BY DEF Deposit
<1>6. rounds \in Nat /\ depositSubtreeHeight' \in Nat
  <2>1. rounds \in Nat
    BY <1>4, <1>5 DEF Rounds
  <2> QED
    BY <1>5, <2>1 DEF KeptInv, Largest
<1> HIDE DEF pushed
<1>7. pendingDeposits' \in Seq(Tree) /\ LeavesOf(pendingDeposits') = LeavesOf(pushed)
  BY <1>3, <1>5, <1>6, MergedKeepsLeaves
<1>8. LeavesOf(pendingDeposits) \in Seq(Nat) /\ Processed \in Seq(Nat)
  <2> DEFINE trees == [i \in DOMAIN inserted |-> inserted[i].tree]
  <2>1. DOMAIN inserted = 1..Len(inserted) /\ \A i \in 1..Len(inserted) : inserted[i] \in Places
    BY <1>1
  <2>2. \A i \in 1..Len(inserted) : inserted[i].tree \in Tree
    BY <2>1 DEF Places
  <2>3. trees \in Seq(Tree)
    BY <1>1, <2>1, <2>2
  <2>4. LeavesOf(trees) \in Seq(Nat)
    <3> HIDE DEF trees
    <3> QED
      BY <2>3, LeafListsIs
  <2> QED
    BY <1>1, <2>4, LeafListsIs DEF Processed
<1>9. Reassociates(Processed, LeavesOf(pendingDeposits), <<n>>)
  <2>1. <<n>> \in Seq(Nat)
    BY <1>2
  <2> DEFINE last == <<n>>
  <2> HIDE DEF last
  <2>2. last \in Seq(Nat)
    BY <2>1 DEF last
  <2>3. Reassociates(Processed, LeavesOf(pendingDeposits), last)
    BY <1>8, <2>2, Reassociated
  <2> QED
    BY <2>3 DEF last
<1>10. listed \o <<n>> = [i \in 1..n |-> i]
  <2> DEFINE r == [i \in 1..n |-> i]
             l == listed \o <<n>>
  <2>1. listed \in Seq(Nat) /\ Len(listed) = deposited /\ <<n>> \in Seq(Nat) /\ Len(<<n>>) = 1
    BY <1>1
  <2>2. /\ l \in Seq(Nat) /\ Len(l) = n
        /\ \A i \in 1..n : l[i] = IF i <= deposited THEN listed[i] ELSE <<n>>[i - deposited]
    <3> HIDE DEF listed
    <3> QED
      BY <1>1, <2>1, ConcatProperties
  <2>3. r \in Seq(Nat) /\ Len(r) = n
    BY <1>1
  <2>4. ASSUME NEW i \in 1..n PROVE l[i] = r[i]
    <3>1. CASE i <= deposited
      <4>1. i \in 1..deposited /\ l[i] = listed[i]
        BY <1>1, <2>2, <3>1
      <4> QED
        BY <4>1
    <3>2. CASE ~(i <= deposited)
      <4>1. i = n /\ i - deposited = 1
        BY <1>1, <3>2
      <4>2. l[i] = <<n>>[1]
        BY <2>2, <3>2, <4>1
      <4> QED
        BY <4>1, <4>2
    <3> QED
      BY <3>1, <3>2
  <2> HIDE DEF l, r
  <2>5. l = r
    BY <2>2, <2>3, <2>4, SeqEqual
  <2> QED
    BY <2>5 DEF l, r
<1>11. Processed' = Processed
  BY <1>1 DEF Processed
<1>12. DepositsKept'
  <2>1. Processed \o LeavesOf(pendingDeposits) = listed
    BY DEF KeptInv, DepositsKept
  <2>2. LeavesOf(pendingDeposits)' = LeavesOf(pendingDeposits')
    BY DEF LeavesOf
  <2>3. Processed' \o LeavesOf(pendingDeposits)' = listed \o <<n>>
    BY <1>3, <1>7, <1>9, <1>11, <2>1, <2>2 DEF Reassociates
  <2> QED
    BY <1>1, <1>10, <2>3 DEF DepositsKept
<1>13. LeavesOf(pendingDeposits)' = Append(LeavesOf(pendingDeposits), n)
  BY <1>2, <1>3, <1>7, <1>8, AppendIsConcat DEF LeavesOf
<1> QED
  BY <1>1, <1>4, <1>6, <1>7, <1>12, <1>13 DEF KeptInv

\* The first pending tree becomes the last one inserted.
LEMMA ProcessKeeps ==
    ASSUME KeptInv, NEW position \in Position, ProcessDeposits(position)
    PROVE  /\ KeptInv'
           /\ LeavesOf(pendingDeposits) =
                Head(pendingDeposits).leaves \o LeavesOf(pendingDeposits)'
<1> DEFINE tree == Head(pendingDeposits)
           place == [tree |-> tree, position |-> position]
           trees == [i \in DOMAIN inserted |-> inserted[i].tree]
           rest == Tail(pendingDeposits)
<1>1. /\ pendingDeposits \in Seq(Tree) /\ pendingDeposits # <<>> /\ inserted \in Seq(Places)
      /\ inserted' = Append(inserted, place) /\ pendingDeposits' = rest
      /\ deposited' = deposited /\ deposited \in Nat
  BY DEF KeptInv, ProcessDeposits
<1>2. tree \in Tree /\ rest \in Seq(Tree)
  BY <1>1, HeadTailProperties
<1>3. LeavesOf(pendingDeposits) = tree.leaves \o LeavesOf(rest)
  BY <1>1, LeavesOfTail
<1>4. queueNumber' \in 0..Word - 1 /\ depositSubtreeHeight' = depositSubtreeHeight
  <2> DEFINE size == 2^depositSubtreeHeight
  <2>1. size \in Nat
    BY PowersOfTwo DEF KeptInv
  <2>2. queueNumber' = (queueNumber - size) % Word
    BY DEF ProcessDeposits, Dequeued
  <2> HIDE DEF size
  <2>3. queueNumber' \in 0..Word - 1
    BY <2>1, <2>2, RollupAssumption DEF KeptInv
  <2> QED
    BY <2>3 DEF ProcessDeposits
<1> HIDE DEF tree, rest
<1>5. place \in Places /\ place.tree = tree
  BY <1>2 DEF Places
<1>6. inserted' \in Seq(Places)
  <2> HIDE DEF place
  <2> QED
    BY <1>1, <1>5
<1> DEFINE more == [i \in DOMAIN Append(inserted, place) |-> Append(inserted, place)[i].tree]
<1>7. trees \in Seq(Tree) /\ more = Append(trees, tree)
  <2> HIDE DEF place
  <2> QED
    BY <1>1, <1>5, TreesOfPlaces
<1>8. Processed = LeavesOf(trees) /\ Processed' = LeavesOf(more)
  BY <1>1 DEF Processed, LeavesOf
<1> HIDE DEF trees, more
<1>9. Processed' = Processed \o tree.leaves /\ Processed \in Seq(Nat)
  BY <1>2, <1>7, <1>8, LeavesOfAppend, LeafListsIs
<1>10. Reassociates(Processed, tree.leaves, LeavesOf(rest))
  <2>1. tree.leaves \in Seq(Nat) /\ LeavesOf(rest) \in Seq(Nat)
    BY <1>2, LeafListsIs DEF Tree
  <2> QED
    BY <1>9, <2>1, Reassociated
<1>11. LeavesOf(pendingDeposits)' = LeavesOf(rest)
  BY <1>1 DEF LeavesOf
<1>12. DepositsKept'
  BY <1>1, <1>3, <1>9, <1>10, <1>11 DEF KeptInv, DepositsKept, Reassociates
<1> QED
  BY <1>1, <1>2, <1>3, <1>4, <1>6, <1>11, <1>12 DEF KeptInv, tree

LEMMA StepKept == KeptInv /\ [Next]_vars => KeptInv'
<1> SUFFICES ASSUME KeptInv, [Next]_vars PROVE KeptInv'
  OBVIOUS
<1>1. ASSUME UNCHANGED depositVars, inserted' = inserted PROVE KeptInv'
  <2>1. UNCHANGED <<pendingDeposits, queueNumber, depositSubtreeHeight, deposited>>
    BY <1>1 DEF depositVars
  <2>2. Processed' = Processed /\ LeavesOf(pendingDeposits)' = LeavesOf(pendingDeposits)
    BY <1>1, <2>1 DEF Processed, LeavesOf
  <2> QED
    BY <1>1, <2>1, <2>2 DEF KeptInv, DepositsKept
<1>2. CASE Deposit
  BY <1>2, DepositKeeps
<1>3. ASSUME NEW position \in Position, ProcessDeposits(position) PROVE KeptInv'
  BY <1>3, ProcessKeeps
<1>4. ASSUME NEW t \in TxRoot, ProveUpdate(t) PROVE KeptInv'
  BY <1>1, <1>4 DEF ProveUpdate
<1>5. ASSUME NEW t \in TxRoot, UpdateState(t) PROVE KeptInv'
  <2>1. inserted' = inserted
    BY <1>5 DEF UpdateState, FromCurrentRoot, currentRoot
  <2> QED
    BY <1>1, <1>5, <2>1 DEF UpdateState
<1>6. CASE UNCHANGED vars
  BY <1>1, <1>6 DEF vars
<1> QED
  BY <1>2, <1>3, <1>4, <1>5, <1>6 DEF Next

(* The subtrees in the balance tree and the pending ones list the deposits *)
(* in the order they came, none lost, taken twice or moved, whatever the   *)
(* heights of the subtrees the coordinator takes, and whatever uint256     *)
(* wraps (RollupNC.sol: deposit, removeDeposit, processDeposits,           *)
(* updateState).                                                           *)
THEOREM NoDepositIsLost == Spec => []DepositsKept
<1>1. KeptInv => DepositsKept
  BY DEF KeptInv
<1> QED
  BY <1>1, InitKept, StepKept, PTL DEF Spec

-----------------------------------------------------------------------------
(* The binary representation.  A full tree of height h has 2^h leaves.     *)
Full(tree) == tree.perfect /\ Len(tree.leaves) = 2^tree.height
AllFull(trees, n) == \A i \in 1..Len(trees) : Full(trees[i]) /\ trees[i].height >= n
Descending(trees, n) == \A i \in 1..n : i > 1 => trees[i].height < trees[i - 1].height

Size(trees) == Len(LeavesOf(trees))

LEMMA SizeOfAppend ==
    ASSUME NEW trees \in Seq(Tree), NEW t \in Tree
    PROVE  /\ Size(Append(trees, t)) = Size(trees) + Len(t.leaves)
           /\ Size(trees) \in Nat /\ Len(t.leaves) \in Nat
<1>1. LeavesOf(trees) \in Seq(Nat) /\ t.leaves \in Seq(Nat)
  BY LeafListsIs DEF Tree
<1>2. LeavesOf(Append(trees, t)) = LeavesOf(trees) \o t.leaves
  BY LeavesOfAppend
<1> QED
  BY <1>1, <1>2 DEF Size

LEMMA SizeOfTail ==
    ASSUME NEW trees \in Seq(Tree), trees # <<>>
    PROVE  /\ Size(trees) = Len(Head(trees).leaves) + Size(Tail(trees))
           /\ Size(Tail(trees)) \in Nat /\ Len(Head(trees).leaves) \in Nat
<1>1. Head(trees) \in Tree /\ Tail(trees) \in Seq(Tree)
  BY HeadTailProperties
<1>2. LeavesOf(Tail(trees)) \in Seq(Nat) /\ Head(trees).leaves \in Seq(Nat)
  BY <1>1, LeafListsIs DEF Tree
<1>3. LeavesOf(trees) = Head(trees).leaves \o LeavesOf(Tail(trees))
  BY LeavesOfTail
<1> QED
  BY <1>2, <1>3 DEF Size

\* Trees of height n and more: the number of their leaves is a multiple of 2^n.
LEMMA SizeIsMultiple ==
    ASSUME NEW n \in Nat, NEW trees \in Seq(Tree), AllFull(trees, n)
    PROVE  Multiple(Size(trees), 2^n)
<1> DEFINE S == {k \in Nat : \A s \in Seq(Tree) :
                                Len(s) = k /\ AllFull(s, n) => Multiple(Size(s), 2^n)}
<1>1. 2^n \in Nat \ {0}
  BY PowersOfTwo
<1>2. 0 \in S
  <2>1. ASSUME NEW s \in Seq(Tree), Len(s) = 0 PROVE Multiple(Size(s), 2^n)
    <3>1. s = <<>> /\ Size(s) = 0
      BY <2>1, LeavesOfNone DEF Size
    <3> QED
      BY <1>1, <3>1, Multiples
  <2> QED
    BY <2>1
<1>3. ASSUME NEW k \in Nat, k \in S PROVE k + 1 \in S
  <2>1. SUFFICES ASSUME NEW s \in Seq(Tree), Len(s) = k + 1, AllFull(s, n)
                 PROVE  Multiple(Size(s), 2^n)
    OBVIOUS
  <2>2. /\ s # <<>> /\ Tail(s) \in Seq(Tree) /\ Len(Tail(s)) = k
        /\ \A i \in 1..k : Tail(s)[i] = s[i + 1]
        /\ Head(s) = s[1] /\ s[1] \in Tree
    BY <2>1, HeadTailProperties
  <2>3. AllFull(Tail(s), n)
    <3>1. \A i \in 1..k : i + 1 \in 1..k + 1
      BY <1>3
    <3> QED
      BY <2>1, <2>2, <3>1 DEF AllFull
  <2>4. Multiple(Size(Tail(s)), 2^n)
    BY <1>3, <2>2, <2>3
  <2>5. Full(Head(s)) /\ Head(s).height >= n /\ Head(s).height \in Nat
    <3>1. 1 \in 1..Len(s)
      BY <2>1
    <3> QED
      BY <2>1, <2>2, <3>1 DEF AllFull, Tree
  <2>6. Multiple(Len(Head(s).leaves), 2^n)
    BY <2>5, PowerMultiple DEF Full
  <2>7. Size(s) = Len(Head(s).leaves) + Size(Tail(s))
    BY <2>1, <2>2, SizeOfTail
  <2> QED
    BY <1>1, <2>4, <2>6, <2>7, Multiples
<1> HIDE DEF S
<1>4. Nat \subseteq S
  BY <1>2, <1>3, SetInduction
<1>5. Len(trees) \in Nat
  OBVIOUS
<1> QED
  BY <1>4, <1>5 DEF S

\* Before round n of the loop: the last tree has height n, those before it are
\* not lower, and no two of them alike.
BeforeRound(trees, n) ==
    /\ trees \in Seq(Tree) /\ Len(trees) >= 1 /\ AllFull(trees, n)
    /\ trees[Len(trees)].height = n /\ Descending(trees, Len(trees) - 1)

LastAlike(trees, n) == Len(trees) >= 2 /\ trees[Len(trees) - 1].height = n

LEMMA TreesOfRound ==
    ASSUME NEW trees, NEW n \in Nat, BeforeRound(trees, n), NEW i \in 1..Len(trees)
    PROVE  Full(trees[i]) /\ trees[i].height >= n /\ trees[i].height \in Nat
<1>1. trees[i] \in Tree
  BY DEF BeforeRound
<1>2. trees[i].height \in Nat
  BY <1>1 DEF Tree
<1>3. Full(trees[i]) /\ trees[i].height >= n
  BY DEF BeforeRound, AllFull
<1> QED
  BY <1>2, <1>3

\* Merging two trees of height n leaves one of height n + 1, the last.
LEMMA RoundOfLoop ==
    ASSUME NEW trees, NEW n \in Nat, BeforeRound(trees, n), LastAlike(trees, n)
    PROVE  BeforeRound(MergeLast(trees), n + 1)
<1> DEFINE front == SubSeq(trees, 1, Len(trees) - 2)
           a == trees[Len(trees) - 1]
           b == trees[Len(trees)]
           h == Hash(a, b)
           m == Len(trees) - 1
           next == MergeLast(trees)
<1>1. trees \in Seq(Tree) /\ Len(trees) \in Nat /\ Len(trees) >= 2
  BY DEF BeforeRound, LastAlike
<1>2. LastTwo(trees, front, a, b)
  BY <1>1, SplitLastTwo
<1>3. Full(a) /\ Full(b) /\ a.height = n /\ b.height = n
  <2>1. Len(trees) - 1 \in 1..Len(trees) /\ Len(trees) \in 1..Len(trees)
    BY <1>1
  <2> QED
    BY <2>1 DEF BeforeRound, LastAlike, AllFull
<1> HIDE DEF front, a, b
<1>4. a \in Tree /\ b \in Tree /\ h \in Tree
  BY <1>2, HashIsTree DEF LastTwo
<1>5. Full(h) /\ h.height = n + 1
  <2>1. h.perfect /\ h.height = n + 1 /\ h.leaves = a.leaves \o b.leaves
    BY <1>3 DEF Hash, Full
  <2>2. Len(h.leaves) = Len(a.leaves) + Len(b.leaves)
    <3>1. a.leaves \in Seq(Nat) /\ b.leaves \in Seq(Nat)
      BY <1>4 DEF Tree
    <3> QED
      BY <2>1, <3>1
  <2>3. Len(h.leaves) = 2^(n + 1)
    <3>1. 2^(n + 1) = 2 * 2^n /\ 2^n \in Nat
      BY PowersOfTwo
    <3>2. Len(a.leaves) = 2^n /\ Len(b.leaves) = 2^n
      BY <1>3 DEF Full
    <3> QED
      BY <2>2, <3>1, <3>2
  <2> QED
    BY <2>1, <2>3 DEF Full
<1> HIDE DEF h
<1>6. /\ next \in Seq(Tree) /\ Len(next) = m /\ next[m] = h /\ m \in Nat /\ m >= 1
      /\ \A i \in 1..m - 1 : next[i] = trees[i]
  <2>1. front \in Seq(Tree) /\ Len(front) = m - 1 /\ next = Append(front, h)
        /\ \A i \in 1..m - 1 : front[i] = trees[i]
    BY <1>1, <1>2 DEF LastTwo, h
  <2> HIDE DEF next, m
  <2>2. /\ next \in Seq(Tree) /\ Len(next) = (m - 1) + 1 /\ next[(m - 1) + 1] = h
        /\ \A i \in 1..m - 1 : next[i] = front[i]
    BY <1>4, <2>1, AppendProperties
  <2>3. m \in Nat /\ m >= 1 /\ (m - 1) + 1 = m
    BY <1>1 DEF m
  <2> QED
    BY <2>1, <2>2, <2>3
<1>7. \A i \in 1..Len(trees) : Full(trees[i]) /\ trees[i].height >= n /\ trees[i].height \in Nat
  BY TreesOfRound
<1>8. \A i \in 1..m : i > 1 => trees[i].height < trees[i - 1].height
  BY DEF BeforeRound, Descending
<1> HIDE DEF next
<1>9. ASSUME NEW i \in 1..m - 1
      PROVE  Full(next[i]) /\ next[i].height >= n + 1
  <2>1. /\ i \in 1..Len(trees) /\ i + 1 \in 1..Len(trees) /\ i + 1 \in 1..m
        /\ i + 1 > 1 /\ (i + 1) - 1 = i /\ i \in 1..m - 1
    BY <1>1, <1>9
  <2>2. trees[i + 1].height < trees[i].height
    BY <1>8, <2>1
  <2> HIDE DEF m
  <2>3. trees[i].height >= n + 1
    BY <1>7, <2>1, <2>2
  <2> QED
    BY <1>6, <1>7, <2>1, <2>3
<1>10. AllFull(next, n + 1)
  <2>1. \A i \in 1..m : i = m \/ i \in 1..m - 1
    BY <1>6
  <2> HIDE DEF m
  <2> QED
    BY <1>5, <1>6, <1>9, <2>1 DEF AllFull
<1>11. Descending(next, Len(next) - 1)
  <2>1. \A i \in 1..m - 1 : i > 1 => i - 1 \in 1..m - 1 /\ i \in 1..m
    BY <1>6
  <2> HIDE DEF m
  <2> QED
    BY <1>6, <1>8, <2>1 DEF Descending
<1> QED
  BY <1>5, <1>6, <1>10, <1>11 DEF BeforeRound, next

\* Whether the last two trees are alike shows in the number of leaves.
LEMMA AlikeByNumber ==
    ASSUME NEW trees, NEW n \in Nat, BeforeRound(trees, n)
    PROVE  LastAlike(trees, n) <=> Size(trees) % (2^(n + 1)) = 0
<1> DEFINE d == 2^(n + 1)
           k == Len(trees)
<1>1. trees \in Seq(Tree) /\ k \in Nat /\ k >= 1
  BY DEF BeforeRound
<1>2. 2^n \in Nat \ {0} /\ d \in Nat \ {0} /\ d = 2 * 2^n
  BY PowersOfTwo
<1>3. ASSUME LastAlike(trees, n) PROVE Size(trees) % d = 0
  <2>1. BeforeRound(MergeLast(trees), n + 1)
    BY <1>3, RoundOfLoop
  <2>2. Multiple(Size(MergeLast(trees)), d)
    <3>1. n + 1 \in Nat
      OBVIOUS
    <3> QED
      BY <2>1, <3>1, SizeIsMultiple DEF BeforeRound
  <2>3. Size(MergeLast(trees)) = Size(trees) /\ Size(trees) \in Nat
    <3>1. LeavesOf(trees) \in Seq(Nat) /\ k >= 2
      BY <1>1, <1>3, LeafListsIs DEF LastAlike
    <3> QED
      BY <1>1, <3>1, MergeKeepsLeaves DEF Size
  <2> HIDE DEF d
  <2> QED
    BY <1>2, <2>2, <2>3, Multiples
<1>4. ASSUME ~LastAlike(trees, n) PROVE Size(trees) % d # 0
  <2> DEFINE front == SubSeq(trees, 1, k - 1)
             b == trees[k]
  <2>1. /\ front \in Seq(Tree) /\ Len(front) = k - 1 /\ b \in Tree
        /\ \A i \in 1..k - 1 : front[i] = trees[i]
    <3>1. \A i \in 1..k - 1 : trees[i] \in Tree
      BY <1>1
    <3>2. k \in 1..k /\ k - 1 \in Int /\ 1 \in Int
      BY <1>1
    <3>3. /\ front \in Seq(Tree) /\ Len(front) = (IF 1 <= k - 1 THEN k - 1 - 1 + 1 ELSE 0)
          /\ \A i \in 1..k - 1 - 1 + 1 : front[i] = trees[1 + i - 1]
      BY <3>1, <3>2, SubSeqProperties
    <3>4. b \in Tree
      BY <1>1, <3>2, ElementOfSeq
    <3> HIDE DEF front, b, k
    <3>5. \A i \in 1..k - 1 : i \in 1..k - 1 - 1 + 1 /\ 1 + i - 1 = i
      BY <1>1
    <3> QED
      BY <1>1, <3>3, <3>4, <3>5
  <2>2. trees = Append(front, b)
    <3> DEFINE r == Append(front, b)
    <3> HIDE DEF front, b
    <3>1. r \in Seq(Tree) /\ Len(r) = k /\ r[k] = b /\ \A i \in 1..k - 1 : r[i] = trees[i]
      <4>1. r \in Seq(Tree) /\ Len(r) = Len(front) + 1 /\ r[Len(front) + 1] = b
            /\ \A i \in 1..Len(front) : r[i] = front[i]
        BY <2>1, AppendProperties
      <4>2. (k - 1) + 1 = k
        BY <1>1
      <4> HIDE DEF r, k
      <4> QED
        BY <2>1, <4>1, <4>2
    <3> HIDE DEF r
    <3>2. \A i \in 1..k : r[i] = trees[i]
      <4>1. \A i \in 1..k : i = k \/ i \in 1..k - 1
        BY <1>1
      <4> QED
        BY <3>1, <4>1 DEF b
    <3>3. trees = r
      BY <1>1, <3>1, <3>2, SeqEqual
    <3> QED
      BY <3>3 DEF r
  <2>3. \A i \in 1..k : Full(trees[i]) /\ trees[i].height >= n /\ trees[i].height \in Nat
    BY TreesOfRound
  <2>4. ASSUME NEW i \in 1..k - 1 PROVE trees[i].height >= n + 1
    <3>1. i \in 1..k /\ trees[i].height >= n /\ trees[i].height \in Nat
      BY <1>1, <2>3
    <3>2. CASE i = k - 1
      <4>1. k >= 2
        BY <1>1, <3>2
      <4>2. trees[k - 1].height # n
        BY <1>4, <4>1 DEF LastAlike
      <4> QED
        BY <3>1, <3>2, <4>2
    <3>3. CASE i # k - 1
      <4>1. i + 1 \in 1..k - 1 /\ i + 1 \in 1..k /\ i + 1 > 1 /\ (i + 1) - 1 = i
        BY <1>1, <3>3
      <4>2. trees[i + 1].height < trees[i].height
        BY <4>1 DEF BeforeRound, Descending
      <4> QED
        BY <2>3, <3>1, <4>1, <4>2
    <3> QED
      BY <3>2, <3>3
  <2> HIDE DEF front, b
  <2>5. AllFull(front, n + 1)
    <3>1. \A i \in 1..k - 1 : i \in 1..k
      BY <1>1
    <3> QED
      BY <2>1, <2>3, <2>4, <3>1 DEF AllFull
  <2>6. Len(b.leaves) = 2^n
    BY <1>1, <2>3 DEF BeforeRound, Full, b
  <2>7. PICK q \in Nat : Size(front) = q * d
    <3>1. n + 1 \in Nat
      OBVIOUS
    <3>2. Multiple(Size(front), d)
      BY <2>1, <2>5, <3>1, SizeIsMultiple
    <3> QED
      BY <3>2 DEF Multiple
  <2>8. Size(trees) = d * q + 2^n
    <3>1. Size(trees) = Size(front) + Len(b.leaves)
      BY <2>1, <2>2, SizeOfAppend
    <3> DEFINE e == 2^n
    <3> HIDE DEF d, e
    <3>2. d \in Nat
      BY <1>2
    <3>3. q * d = d * q
      BY <3>2
    <3> QED
      BY <2>6, <2>7, <3>1, <3>3 DEF e
  <2>9. Size(trees) % d = 2^n
    <3> DEFINE e == 2^n
    <3>1. e \in 0..d - 1 /\ q \in Int /\ d * q + e \in Int
      BY <1>2
    <3>2. Size(trees) = d * q + e
      BY <2>8
    <3>3. Size(trees) % d = e
      <4> DEFINE v == Size(trees)
      <4>1. v \in Int /\ v = d * q + e
        BY <3>1, <3>2
      <4>2. d \in Nat \ {0} /\ q \in Int /\ e \in 0..d - 1
        BY <1>2, <3>1
      <4> HIDE DEF d, e, v
      <4>3. v % d = e
        BY <4>1, <4>2, QuotientIs
      <4> QED
        BY <4>3 DEF v
    <3> QED
      BY <3>3
  <2> QED
    BY <1>2, <2>9
<1> QED
  BY <1>3, <1>4

(* The pending trees count in binary: they are full, no two alike, and     *)
(* queueNumber is the number of their leaves.                              *)
InBinary(trees) == trees \in Seq(Tree) /\ AllFull(trees, 0) /\ Descending(trees, Len(trees))

\* After the last round, no two trees are alike.
LEMMA LoopEnds ==
    ASSUME NEW trees, NEW n \in Nat, BeforeRound(trees, n), ~LastAlike(trees, n)
    PROVE  InBinary(trees)
<1> DEFINE k == Len(trees)
<1>1. trees \in Seq(Tree) /\ k \in Nat /\ k >= 1
  BY DEF BeforeRound
<1>2. AllFull(trees, 0)
  <2>1. ASSUME NEW i \in 1..k PROVE Full(trees[i]) /\ trees[i].height >= 0
    <3>1. Full(trees[i]) /\ trees[i].height \in Nat
      BY TreesOfRound
    <3> QED
      BY <3>1
  <2> QED
    BY <2>1 DEF AllFull
<1>3. ASSUME NEW i \in 1..k, i > 1 PROVE trees[i].height < trees[i - 1].height
  <2>1. CASE i = k
    <3>1. i - 1 \in 1..k /\ k >= 2
      BY <1>1, <1>3
    <3>2. trees[i - 1].height >= n /\ trees[i - 1].height \in Nat
      BY <3>1, TreesOfRound
    <3>3. trees[i].height = n /\ trees[i - 1].height # n
      BY <2>1, <3>1 DEF BeforeRound, LastAlike
    <3> QED
      BY <3>2, <3>3
  <2>2. CASE i # k
    <3>1. i \in 1..k - 1
      BY <1>1, <2>2
    <3> QED
      BY <1>3, <3>1 DEF BeforeRound, Descending
  <2> QED
    BY <2>1, <2>2
<1> QED
  BY <1>1, <1>2, <1>3 DEF InBinary, Descending

\* The loop makes as many rounds as the number of leaves can be halved.
LEMMA MergedInBinary ==
    ASSUME NEW trees, BeforeRound(trees, 0),
           NEW rounds \in Rounds(Size(trees)), rounds < Len(trees)
    PROVE  InBinary(Merged(trees, rounds)) /\ Size(Merged(trees, rounds)) = Size(trees)
<1> DEFINE number == Size(trees)
<1>1. trees \in Seq(Tree) /\ Len(trees) \in Nat
  BY DEF BeforeRound
<1>2. number \in Nat
  BY <1>1, LeafListsIs DEF Size
<1>3. rounds \in Nat /\ number % (2^rounds) = 0 /\ number % (2^(rounds + 1)) # 0
  BY <1>2 DEF Rounds
<1>4. PICK f : MergeRounds(f, trees, rounds)
  BY <1>1, <1>3, MergedInRounds
<1> HIDE DEF number
<1> DEFINE T == {n \in 0..rounds : BeforeRound(f[n], n) /\ Size(f[n]) = number}
<1>5. 0 \in T
  BY <1>3, <1>4 DEF MergeRounds, number
<1>6. ASSUME NEW n \in 0..rounds - 1, n \in T PROVE n + 1 \in T
  <2>1. n + 1 \in 0..rounds /\ n \in 0..rounds /\ n \in Nat /\ n + 1 \in Nat /\ n + 1 <= rounds
    BY <1>3
  <2>2. f[n + 1] = MergeLast(f[n]) /\ BeforeRound(f[n], n) /\ Size(f[n]) = number
    BY <1>4, <1>6, <2>1 DEF MergeRounds
  <2>3. number % (2^(n + 1)) = 0
    <3>1. 2^rounds \in Nat \ {0} /\ 2^(n + 1) \in Nat \ {0}
      BY <1>3, <2>1, PowersOfTwo
    <3>2. Multiple(2^rounds, 2^(n + 1))
      BY <1>3, <2>1, PowerMultiple
    <3> DEFINE a == 2^rounds
               b == 2^(n + 1)
    <3>3. a \in Nat \ {0} /\ b \in Nat \ {0} /\ Multiple(a, b) /\ number % a = 0
      BY <1>3, <3>1, <3>2
    <3>4. number % b = 0
      <4> HIDE DEF a, b
      <4>1. Multiple(number, a)
        BY <1>2, <3>3, Multiples
      <4>2. Multiple(number, b)
        BY <3>3, <4>1, Multiples
      <4> QED
        BY <1>2, <3>3, <4>2, Multiples
    <3> QED
      BY <3>4
  <2>4. LastAlike(f[n], n)
    BY <2>1, <2>2, <2>3, AlikeByNumber
  <2>5. BeforeRound(f[n + 1], n + 1)
    BY <2>1, <2>2, <2>4, RoundOfLoop
  <2>6. Size(f[n + 1]) = Size(f[n])
    <3>1. f[n] \in Seq(Tree) /\ Len(f[n]) >= 2
      BY <2>2, <2>4 DEF BeforeRound, LastAlike
    <3> QED
      BY <2>2, <3>1, MergeKeepsLeaves DEF Size
  <2> QED
    BY <2>1, <2>2, <2>5, <2>6
<1>7. 0 \in Int /\ rounds \in Int /\ rounds \in 0..rounds
  BY <1>3
<1> HIDE DEF T
<1>8. rounds \in T
  BY <1>5, <1>6, <1>7, IntervalInduction
<1>9. BeforeRound(f[rounds], rounds) /\ Size(f[rounds]) = number /\ Merged(trees, rounds) = f[rounds]
  BY <1>4, <1>8 DEF T, MergeRounds
<1>10. ~LastAlike(f[rounds], rounds)
  BY <1>3, <1>9, AlikeByNumber
<1> QED
  BY <1>3, <1>9, <1>10, LoopEnds DEF number

-----------------------------------------------------------------------------
\* The coordinator takes only subtrees of depositSubtreeHeight, and there are
\* fewer deposits than a uint256 counts.
WholeAndFew == WholeBatches /\ MaxDeposits < Word

BinaryInv ==
    /\ KeptInv /\ deposited <= MaxDeposits
    /\ InBinary(pendingDeposits) /\ queueNumber = Size(pendingDeposits)
    /\ 2^depositSubtreeHeight <= deposited + 1

LEMMA SizeAtMost ==
    ASSUME KeptInv
    PROVE  Size(pendingDeposits) \in Nat /\ Size(pendingDeposits) <= deposited
<1> DEFINE waiting == LeavesOf(pendingDeposits)
           trees == [i \in DOMAIN inserted |-> inserted[i].tree]
<1>1. waiting \in Seq(Nat)
  BY LeafListsIs DEF KeptInv
<1>2. Processed \in Seq(Nat)
  <2>1. inserted \in Seq(Places)
    BY DEF KeptInv
  <2>2. \A i \in 1..Len(inserted) : inserted[i] \in Places
    BY <2>1
  <2>3. \A i \in 1..Len(inserted) : inserted[i].tree \in Tree
    BY <2>2 DEF Places
  <2>4. trees \in Seq(Tree)
    BY <2>1, <2>3
  <2> HIDE DEF trees
  <2>5. LeavesOf(trees) \in Seq(Nat)
    BY <2>4, LeafListsIs
  <2> QED
    BY <2>5 DEF Processed, trees
<1>3. Processed \o waiting = [i \in 1..deposited |-> i] /\ deposited \in Nat
  BY DEF KeptInv, DepositsKept
<1>4. Len([i \in 1..deposited |-> i]) = deposited
  BY <1>3
<1> HIDE DEF waiting
<1>5. Len(Processed \o waiting) = Len(Processed) + Len(waiting)
  BY <1>1, <1>2
<1>6. Len(Processed) + Len(waiting) = deposited /\ Len(Processed) \in Nat /\ Len(waiting) \in Nat
  BY <1>1, <1>2, <1>3, <1>4, <1>5
<1> QED
  BY <1>3, <1>6 DEF Size, waiting

LEMMA InitCounts == Init => BinaryInv
<1> SUFFICES ASSUME Init PROVE BinaryInv
  OBVIOUS
<1>1. KeptInv
  BY InitKept
<1>2. pendingDeposits = <<>> /\ Len(pendingDeposits) = 0 /\ queueNumber = 0
      /\ deposited = 0 /\ depositSubtreeHeight = 0
  BY DEF Init
<1>3. Size(pendingDeposits) = 0
  BY <1>2, LeavesOfNone DEF Size
<1>4. InBinary(pendingDeposits)
  BY <1>1, <1>2 DEF InBinary, AllFull, Descending, KeptInv
<1>5. deposited <= MaxDeposits
  BY <1>2, RollupAssumption
<1>6. 2^depositSubtreeHeight <= deposited + 1
  BY <1>2, PowersOfTwo
<1> QED
  BY <1>1, <1>2, <1>3, <1>4, <1>5, <1>6 DEF BinaryInv

\* A new leaf is a tree of height 0, after the others.
LEMMA PushedIsBeforeRound ==
    ASSUME NEW trees, InBinary(trees), NEW t \in Tree, Full(t), t.height = 0
    PROVE  BeforeRound(Append(trees, t), 0)
<1> DEFINE k == Len(trees)
           pushed == Append(trees, t)
<1>1. trees \in Seq(Tree) /\ k \in Nat
  BY DEF InBinary
<1>2. /\ pushed \in Seq(Tree) /\ Len(pushed) = k + 1 /\ pushed[k + 1] = t
      /\ \A i \in 1..k : pushed[i] = trees[i]
  BY <1>1, AppendProperties
<1> HIDE DEF pushed, k
<1>3. \A i \in 1..k : Full(trees[i]) /\ trees[i].height >= 0
  BY DEF InBinary, AllFull, k
<1>4. AllFull(pushed, 0)
  <2>1. \A i \in 1..k + 1 : i = k + 1 \/ i \in 1..k
    BY <1>1
  <2> QED
    BY <1>2, <1>3, <2>1 DEF AllFull
<1>5. Descending(pushed, k)
  <2>1. \A i \in 1..k : i > 1 => i - 1 \in 1..k
    BY <1>1
  <2> QED
    BY <1>2, <2>1 DEF InBinary, Descending, k
<1>6. Len(pushed) >= 1 /\ Len(pushed) - 1 = k
  BY <1>1, <1>2
<1> QED
  BY <1>2, <1>4, <1>5, <1>6 DEF BeforeRound, pushed

LEMMA DepositCounts ==
    ASSUME WholeAndFew, BinaryInv, Deposit
    PROVE  BinaryInv'
<1> DEFINE leaf == Leaf(deposited + 1)
           pushed == Append(pendingDeposits, leaf)
           number == queueNumber + 1
<1>1. /\ deposited \in Nat /\ deposited < MaxDeposits /\ deposited' = deposited + 1
      /\ MaxDeposits \in Nat /\ Word \in Nat \ {0} /\ MaxDeposits < Word
  BY RollupAssumption DEF BinaryInv, KeptInv, Deposit, WholeAndFew
<1>2. Size(pendingDeposits) \in Nat /\ Size(pendingDeposits) <= deposited
      /\ queueNumber = Size(pendingDeposits)
  BY SizeAtMost DEF BinaryInv
<1>3. number % Word = number /\ number \in Nat /\ number <= deposited + 1
  BY <1>1, <1>2
<1>4. leaf \in Tree /\ Full(leaf) /\ leaf.height = 0 /\ Len(leaf.leaves) = 1
  <2>1. leaf \in Tree /\ leaf.height = 0 /\ leaf.perfect /\ leaf.leaves = <<deposited + 1>>
    BY <1>1 DEF Leaf, Tree
  <2>2. Len(leaf.leaves) = 1
    BY <2>1
  <2>3. 2^0 = 1
    BY PowersOfTwo
  <2> QED
    BY <2>1, <2>2, <2>3 DEF Full
<1>5. PICK rounds \in Rounds(number % Word) :
        /\ rounds < Len(pushed) /\ pendingDeposits' = Merged(pushed, rounds)
        /\ depositSubtreeHeight' = Largest(depositSubtreeHeight, rounds)
  BY DEF Deposit
<1> HIDE DEF leaf
<1>6. pendingDeposits \in Seq(Tree) /\ InBinary(pendingDeposits)
  BY DEF BinaryInv, InBinary
<1>7. Size(pushed) = number
  BY <1>2, <1>4, <1>6, SizeOfAppend
<1>8. BeforeRound(pushed, 0)
  BY <1>4, <1>6, PushedIsBeforeRound
<1> HIDE DEF pushed, number
<1>9. rounds \in Rounds(Size(pushed))
  BY <1>3, <1>5, <1>7
<1>10. InBinary(pendingDeposits') /\ Size(pendingDeposits') = number
  BY <1>5, <1>7, <1>8, <1>9, MergedInBinary
<1>11. queueNumber' = number
  BY <1>3 DEF Deposit, number
<1>12. 2^depositSubtreeHeight' <= deposited' + 1
  <2>1. rounds \in Nat /\ number % (2^rounds) = 0 /\ number # 0
    <3>1. rounds \in Nat /\ number % (2^rounds) = 0
      BY <1>3, <1>5 DEF Rounds
    <3>2. number # 0
      BY <1>2 DEF number
    <3> QED
      BY <3>1, <3>2
  <2>2. 2^rounds <= number
    <3> DEFINE d == 2^rounds
    <3>1. d \in Nat \ {0} /\ number % d = 0
      BY <2>1, PowersOfTwo
    <3> HIDE DEF d
    <3>2. ~(number < d)
      BY <1>3, <2>1, <3>1
    <3>3. d <= number
      BY <1>3, <3>1, <3>2
    <3> QED
      BY <3>3 DEF d
  <2>3. 2^rounds \in Nat /\ 2^depositSubtreeHeight \in Nat /\ 2^depositSubtreeHeight <= deposited + 1
    BY <2>1, PowersOfTwo DEF BinaryInv, KeptInv
  <2>4. CASE depositSubtreeHeight' = rounds
    BY <1>1, <1>3, <2>2, <2>3, <2>4
  <2>5. CASE depositSubtreeHeight' = depositSubtreeHeight
    BY <1>1, <2>3, <2>5
  <2> QED
    BY <1>5, <2>4, <2>5 DEF Largest
<1>13. KeptInv'
  BY DepositKeeps DEF BinaryInv
<1>14. Size(pendingDeposits)' = number
  BY <1>10 DEF Size, LeavesOf
<1>15. InBinary(pendingDeposits)'
  BY <1>10 DEF InBinary, AllFull, Descending
<1>16. (deposited <= MaxDeposits)'
  BY <1>1
<1> QED
  BY <1>11, <1>12, <1>13, <1>14, <1>15, <1>16 DEF BinaryInv

\* The subtree taken has as many leaves as are subtracted, for it is full.
LEMMA ProcessCounts ==
    ASSUME WholeAndFew, BinaryInv, NEW position \in Position, ProcessDeposits(position)
    PROVE  BinaryInv'
<1> DEFINE tree == Head(pendingDeposits)
           rest == Tail(pendingDeposits)
           k == Len(pendingDeposits)
<1>1. /\ pendingDeposits \in Seq(Tree) /\ pendingDeposits # <<>>
      /\ pendingDeposits' = rest /\ UNCHANGED <<depositSubtreeHeight, deposited>>
      /\ tree.height = depositSubtreeHeight /\ queueNumber' = Dequeued(queueNumber)
  BY DEF BinaryInv, KeptInv, ProcessDeposits, WholeAndFew
<1>2. /\ k \in Nat /\ k >= 1 /\ tree = pendingDeposits[1] /\ rest \in Seq(Tree)
      /\ Len(rest) = k - 1 /\ \A i \in 1..k - 1 : rest[i] = pendingDeposits[i + 1]
  BY <1>1, HeadTailProperties
<1> HIDE DEF tree, rest
<1>3. \A i \in 1..k : Full(pendingDeposits[i]) /\ pendingDeposits[i].height >= 0
  BY DEF BinaryInv, InBinary, AllFull
<1>4. Len(tree.leaves) = 2^depositSubtreeHeight
  <2>1. 1 \in 1..k
    BY <1>2
  <2> QED
    BY <1>1, <1>2, <1>3, <2>1 DEF Full
<1>5. Size(pendingDeposits) = Len(tree.leaves) + Size(rest) /\ Size(rest) \in Nat
      /\ Len(tree.leaves) \in Nat
  BY <1>1, SizeOfTail DEF tree, rest
<1>6. queueNumber' = Size(rest)
  <2> DEFINE size == 2^depositSubtreeHeight
  <2>1. queueNumber' = (queueNumber - size) % Word
    BY <1>1 DEF Dequeued
  <2>2. queueNumber \in 0..Word - 1 /\ Word \in Nat \ {0} /\ queueNumber = Size(pendingDeposits)
    BY RollupAssumption DEF BinaryInv, KeptInv
  <2>3. Len(tree.leaves) = size
    BY <1>4
  <2> HIDE DEF size
  <2>4. queueNumber - size = Size(rest) /\ Size(rest) \in 0..Word - 1
    BY <1>5, <2>2, <2>3
  <2> QED
    BY <2>1, <2>2, <2>4
<1>7. AllFull(rest, 0)
  <2>1. \A i \in 1..k - 1 : i + 1 \in 1..k
    BY <1>2
  <2> HIDE DEF k
  <2> QED
    BY <1>2, <1>3, <2>1 DEF AllFull
<1>8. Descending(rest, Len(rest))
  <2>1. \A i \in 1..k : i > 1 => pendingDeposits[i].height < pendingDeposits[i - 1].height
    BY DEF BinaryInv, InBinary, Descending
  <2>2. ASSUME NEW i \in 1..k - 1, i > 1 PROVE rest[i].height < rest[i - 1].height
    <3>1. i + 1 \in 1..k /\ i + 1 > 1 /\ (i + 1) - 1 = i /\ i - 1 \in 1..k - 1 /\ (i - 1) + 1 = i
      BY <1>2, <2>2
    <3>2. pendingDeposits[i + 1].height < pendingDeposits[i].height
      BY <2>1, <3>1
    <3>3. rest[i] = pendingDeposits[i + 1] /\ rest[i - 1] = pendingDeposits[i]
      BY <1>2, <3>1
    <3> QED
      BY <3>2, <3>3
  <2> QED
    BY <1>2, <2>2 DEF Descending
<1>9. KeptInv'
  BY ProcessKeeps DEF BinaryInv
<1>10. Size(pendingDeposits)' = Size(rest)
  BY <1>1 DEF Size, LeavesOf
<1>11. InBinary(pendingDeposits)'
  BY <1>1, <1>2, <1>7, <1>8 DEF InBinary, AllFull, Descending
<1>12. (deposited <= MaxDeposits /\ 2^depositSubtreeHeight <= deposited + 1)'
  BY <1>1 DEF BinaryInv
<1> QED
  BY <1>6, <1>9, <1>10, <1>11, <1>12 DEF BinaryInv

LEMMA StepCounts == WholeAndFew /\ BinaryInv /\ [Next]_vars => BinaryInv'
<1> SUFFICES ASSUME WholeAndFew, BinaryInv, [Next]_vars PROVE BinaryInv'
  OBVIOUS
<1>1. KeptInv'
  BY StepKept DEF BinaryInv
<1>2. ASSUME UNCHANGED depositVars PROVE BinaryInv'
  <2>1. UNCHANGED <<pendingDeposits, queueNumber, depositSubtreeHeight, deposited>>
    BY <1>2 DEF depositVars
  <2>2. Size(pendingDeposits)' = Size(pendingDeposits)
        /\ (InBinary(pendingDeposits)' <=> InBinary(pendingDeposits))
    BY <2>1 DEF Size, LeavesOf, InBinary, AllFull, Descending
  <2> QED
    BY <1>1, <2>1, <2>2 DEF BinaryInv
<1>3. CASE Deposit
  BY <1>3, DepositCounts
<1>4. ASSUME NEW position \in Position, ProcessDeposits(position) PROVE BinaryInv'
  BY <1>4, ProcessCounts
<1>5. ASSUME NEW t \in TxRoot, ProveUpdate(t) \/ UpdateState(t) PROVE BinaryInv'
  BY <1>2, <1>5 DEF ProveUpdate, UpdateState
<1>6. CASE UNCHANGED vars
  BY <1>2, <1>6 DEF vars
<1> QED
  BY <1>3, <1>4, <1>5, <1>6 DEF Next

LEMMA BinaryHolds == ASSUME WholeAndFew PROVE Spec => []BinaryInv
<1>1. BinaryInv /\ [Next]_vars => BinaryInv'
  BY StepCounts
<1> QED
  BY <1>1, InitCounts, PTL DEF Spec

(* While the coordinator takes only subtrees of depositSubtreeHeight and   *)
(* no uint256 wraps, the pending subtrees are the binary representation of *)
(* the number of waiting deposits: perfect, the highest first, no two      *)
(* alike (RollupNC.sol: the loop of deposit, which hashes by queueNumber). *)
THEOREM PendingCountsInBinary == ASSUME WholeAndFew PROVE Spec => []PendingIsBinary
<1>1. BinaryInv => PendingIsBinary
  <2> SUFFICES ASSUME BinaryInv PROVE PendingIsBinary
    OBVIOUS
  <2>1. DOMAIN pendingDeposits = 1..Len(pendingDeposits)
    BY DEF BinaryInv, KeptInv
  <2>2. AllFull(pendingDeposits, 0) /\ Descending(pendingDeposits, Len(pendingDeposits))
    BY DEF BinaryInv, InBinary
  <2> QED
    BY <2>1, <2>2 DEF PendingIsBinary, AllFull, Descending, Full
<1> QED
  BY <1>1, BinaryHolds, PTL

(* The types; and depositSubtreeHeight never exceeds what the deposits     *)
(* there were can fill, since the loop makes a round only for an even      *)
(* number (RollupNC.sol: deposit).                                         *)
THEOREM RollupTypes == ASSUME WholeAndFew PROVE Spec => []TypeOK
<1>1. Spec => []IInv
  BY InitHolds, StepHolds, PTL DEF Spec
<1>2. IInv /\ BinaryInv => TypeOK
  <2> SUFFICES ASSUME IInv, BinaryInv PROVE TypeOK
    OBVIOUS
  <2>1. \A i \in DOMAIN pendingDeposits : pendingDeposits[i] \in Tree
    BY DEF BinaryInv, KeptInv
  <2>2. \A i \in DOMAIN inserted : inserted[i].tree \in Tree /\ inserted[i].position \in Position
    <3>1. \A i \in DOMAIN inserted : inserted[i] \in Places
      BY DEF BinaryInv, KeptInv
    <3> QED
      BY <3>1 DEF Places
  <2>3. batches \in Seq(TxRoot) /\ updateNumber \in Nat /\ updates \in [TxRoot -> Nat]
    BY DEF IInv, BatchesKept
  <2>4. deposited \in 0..MaxDeposits /\ queueNumber \in 0..Word - 1 /\ depositSubtreeHeight \in Nat
    BY RollupAssumption DEF BinaryInv, KeptInv
  <2> QED
    BY <2>1, <2>2, <2>3, <2>4 DEF TypeOK, BinaryInv
<1> QED
  BY <1>1, <1>2, BinaryHolds, PTL
=============================================================================
