------------------------------ MODULE RollupNC ------------------------------
(***************************************************************************)
(* The rollup contract of Assignment 4/RollupNC.sol.  Deposits are hashed  *)
(* into subtrees while they come in, like a binary counter; the            *)
(* coordinator inserts the first subtree into the balance tree, and        *)
(* replaces the root by that of a batch of transactions with a SNARK.      *)
(*                                                                         *)
(* A hash is the tree it is the root of.  The root of the balance tree is  *)
(* given by the subtrees inserted so far and the batches applied to it.    *)
(* External: the coordinator, who makes the proofs, the hashes, the two    *)
(* verifiers and the tokens.                                               *)
(***************************************************************************)
EXTENDS Integers, Sequences, SequencesExt

CONSTANTS
    BalDepth,       \* BAL_DEPTH
    Word,           \* the modulus of a uint256
    TxRoot,         \* roots of batches of transactions
    Position,       \* leaves of the balance tree where the coordinator looks
                    \* for an empty subtree
    WholeBatches,   \* whether the coordinator waits for a subtree of
                    \* depositSubtreeHeight before he processes one
    MaxDeposits     \* bound on the number of deposits

ASSUME RollupAssumption ==
    BalDepth \in Nat /\ MaxDeposits \in Nat /\ Word \in Nat \ {0}
    /\ Position \subseteq 0..2^BalDepth - 1 /\ WholeBatches \in BOOLEAN

VARIABLES
    pendingDeposits, queueNumber, depositSubtreeHeight,
    inserted,       \* the subtrees in the balance tree and their places
    batches,        \* the batches of transactions applied to it
    updateNumber, updates,
    proof,          \* the roots that the coordinator's proofs start from
    deposited       \* how many deposits there were

depositVars == <<pendingDeposits, queueNumber, depositSubtreeHeight, deposited>>
updateVars == <<batches, updateNumber, updates>>
vars == <<depositVars, inserted, updateVars, proof>>

(* Trees: the deposits at the leaves, and whether both subtrees of every   *)
(* node have the same height.                                              *)
Tree == [leaves : Seq(Nat), height : Nat, perfect : BOOLEAN]
Leaf(deposit) == [leaves |-> <<deposit>>, height |-> 0, perfect |-> TRUE]

\* Mutant: the two hashes are swapped.
HashSwapped(l, r) == [leaves |-> r.leaves \o l.leaves, height |-> l.height + 1,
                      perfect |-> l.perfect /\ r.perfect /\ l.height = r.height]
Hash(l, r) == [leaves |-> l.leaves \o r.leaves, height |-> l.height + 1,
               perfect |-> l.perfect /\ r.perfect /\ l.height = r.height]

currentRoot == [inserted |-> inserted, batches |-> batches]
NoProof == <<>>

Init ==
    /\ pendingDeposits = <<>> /\ queueNumber = 0 /\ depositSubtreeHeight = 0
    /\ inserted = <<>> /\ batches = <<>> /\ updateNumber = 0
    /\ updates = [t \in TxRoot |-> 0] /\ proof = [t \in TxRoot |-> NoProof] /\ deposited = 0

-----------------------------------------------------------------------------
\* One round of the loop: the last two hashes become one.
MergeLast(s) ==
    Append(SubSeq(s, 1, Len(s) - 2), Hash(s[Len(s) - 1], s[Len(s)]))

Merged(s, times) ==
    LET after[n \in 0..times] == IF n = 0 THEN s ELSE MergeLast(after[n - 1])
    IN after[times]

\* Mutant: the loop stops one round early.
RoundsButOne(number) == {m \in 0..number : number % (2^(m + 1)) = 0 /\ number % (2^(m + 2)) # 0}
                        \cup (IF number % 2 = 1 THEN {0} ELSE {})
\* How often `number` can be divided by 2: never ending for 0, where the loop
\* runs out of hashes and the call is reverted.
Rounds(number) == {m \in 0..number : number % (2^m) = 0 /\ number % (2^(m + 1)) # 0}

Largest(a, b) == IF a > b THEN a ELSE b

Deposit ==
    LET number == (queueNumber + 1) % Word
        pushed == Append(pendingDeposits, Leaf(deposited + 1))
    IN
    /\ deposited < MaxDeposits
    /\ \E rounds \in Rounds(number) :
        /\ rounds < Len(pushed)
        /\ pendingDeposits' = Merged(pushed, rounds)
        /\ depositSubtreeHeight' = Largest(depositSubtreeHeight, rounds)
    /\ queueNumber' = number
    /\ deposited' = deposited + 1
    /\ UNCHANGED <<inserted, updateVars, proof>>

\* The height is the greatest there ever was, not that of the subtree.
Dequeued(number) == (number - 2^depositSubtreeHeight) % Word

\* "specified subtree is not empty"
EmptyAt(height, position) ==
    \A i \in DOMAIN inserted :
        LET there == inserted[i] IN
        \/ there.position + 2^there.tree.height <= position
        \/ position + 2^height <= there.position

\* The coordinator finds an empty place of the height of the first subtree.
ProcessDeposits(position) ==
    /\ pendingDeposits # <<>>
    /\ LET tree == Head(pendingDeposits) IN
        /\ tree.height <= BalDepth /\ position % (2^tree.height) = 0
        /\ WholeBatches => tree.height = depositSubtreeHeight
        /\ EmptyAt(tree.height, position)
        /\ inserted' = Append(inserted, [tree |-> tree, position |-> position])
    /\ pendingDeposits' = Tail(pendingDeposits)
    /\ queueNumber' = Dequeued(queueNumber)
    /\ UNCHANGED <<depositSubtreeHeight, deposited, updateVars, proof>>

\* The coordinator proves a batch against the root he sees (external).
ProveUpdate(t) ==
    /\ updates[t] = 0 /\ proof[t] # currentRoot
    /\ proof' = [proof EXCEPT ![t] = currentRoot]
    /\ UNCHANGED <<depositVars, inserted, updateVars>>

\* Mutant: the proof may start from another root.
FromAnyRoot(old) == TRUE
\* "input does not match current root"
FromCurrentRoot(old) == old = currentRoot

\* The new root is that of the tree the proof was made for, with the batch.
UpdateState(t) ==
    /\ proof[t] # NoProof /\ FromCurrentRoot(proof[t])
    /\ inserted' = proof[t].inserted /\ batches' = Append(proof[t].batches, t)
    /\ updateNumber' = updateNumber + 1
    /\ updates' = [updates EXCEPT ![t] = updateNumber + 1]
    /\ proof' = [proof EXCEPT ![t] = NoProof]
    /\ UNCHANGED depositVars

Next ==
    \/ Deposit
    \/ \E position \in Position : ProcessDeposits(position)
    \/ \E t \in TxRoot : ProveUpdate(t) \/ UpdateState(t)

Spec == Init /\ [][Next]_vars

-----------------------------------------------------------------------------
(* The types; no subtree is higher than the deposits there were can fill.  *)
TypeOK ==
    /\ \A i \in DOMAIN pendingDeposits : pendingDeposits[i] \in Tree
    /\ queueNumber \in 0..Word - 1 /\ depositSubtreeHeight \in Nat
    /\ 2^depositSubtreeHeight <= deposited + 1
    /\ \A i \in DOMAIN inserted :
        inserted[i].tree \in Tree /\ inserted[i].position \in Position
    /\ batches \in Seq(TxRoot) /\ updateNumber \in Nat /\ deposited \in 0..MaxDeposits
    /\ updates \in [TxRoot -> Nat]

LeavesOf(trees) == FlattenSeq([i \in DOMAIN trees |-> trees[i].leaves])
Processed == LeavesOf([i \in DOMAIN inserted |-> inserted[i].tree])

(* No deposit is lost, taken twice or moved: the subtrees in the balance   *)
(* tree and the pending ones list the deposits in the order they came,     *)
(* whatever hashing, removals, processing and updates there were.          *)
DepositsKept ==
    Processed \o LeavesOf(pendingDeposits) = [i \in 1..deposited |-> i]

(* No batch is undone by an update or an insertion: the root contains      *)
(* every batch that has a number, in the order of the numbers.             *)
BatchesKept ==
    /\ updateNumber = Len(batches)
    /\ \A i \in DOMAIN batches : updates[batches[i]] = i

(* queueNumber is the number of deposits that wait to be processed         *)
(* ("Increase deposit queue number" for each deposit).                     *)
QueueNumberCounts == queueNumber = Len(LeavesOf(pendingDeposits))

(* The pending subtrees are the binary representation of the number of     *)
(* waiting deposits: perfect trees, the highest first, no two alike.       *)
PendingIsBinary ==
    \A i \in DOMAIN pendingDeposits :
        /\ pendingDeposits[i].perfect
        /\ i > 1 => pendingDeposits[i].height < pendingDeposits[i - 1].height
=============================================================================
