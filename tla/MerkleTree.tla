----------------------------- MODULE MerkleTree -----------------------------
(***************************************************************************)
(* Assignment 1/Question2-NFT/merkleTree.sol: the nodes lie in one array,  *)
(* the leaves first, then one level after the other; a new leaf updates    *)
(* the nodes above it.                                                     *)
(***************************************************************************)
EXTENDS Integers, Sequences, FiniteSetsExt

CONSTANT levels

ASSUME LevelsAssumption == levels \in Nat

VARIABLES
    node, root, nextLeaf,
    leaves          \* the leaves, in the order in which they were added

treeVars == <<node, root, nextLeaf, leaves>>

maxLeaf == 2^levels
Nodes == 0..2^(levels + 1) - 2

\* A hash is written as what was hashed, in brackets; it is never zero.
Zero == <<0>>
Leaf(l) == <<l>>
Hash(left, right) == <<-1>> \o left \o right \o <<-2>>

TreeInit ==
    /\ node = [n \in Nodes |-> Zero] /\ root = Zero
    /\ nextLeaf = 0 /\ leaves = <<>>

-----------------------------------------------------------------------------
\* Mutant: a new leaf is always hashed on the left.
AlwaysLeft(leaf) == TRUE
IsLeft(leaf) == leaf % 2 = 0

\* One round of the loop for i = level, from the state of the round before.
\* `leaf` is nextLeaf, which does not change; the array is zero outside.
At(nodes, n) == IF n \in Nodes THEN nodes[n] ELSE Zero
Climb(leaf, level, r) ==
    LET offset == r.offset + 2^level
        parent == (r.index - r.offset) \div 2 + offset
        hash == IF IsLeft(leaf) THEN Hash(At(r.node, r.index), At(r.node, r.index + 1))
                                ELSE Hash(At(r.node, r.index - 1), At(r.node, r.index))
    IN [node |-> [r.node EXCEPT ![parent] = hash], index |-> parent, offset |-> offset]

UpdateTree(leaf, nodes) ==
    LET round[done \in 0..levels] ==
            IF done = 0 THEN [node |-> nodes, index |-> leaf, offset |-> 0]
            ELSE Climb(leaf, levels - done + 1, round[done - 1])
    IN round[levels]

NextLeaf(leaf) == leaf + 1

HasRoom == nextLeaf # maxLeaf
AddLeaf(hashedLeaf) ==
    /\ HasRoom
    /\ LET updated == UpdateTree(nextLeaf, [node EXCEPT ![nextLeaf] = hashedLeaf]) IN
        /\ node' = updated.node
        /\ root' = updated.node[updated.index]
    /\ nextLeaf' = NextLeaf(nextLeaf)
    /\ leaves' = Append(leaves, hashedLeaf)

\* Mutant: the order of the two hashes does not follow the index.
ProofOnRight(hash, element, index) == Hash(hash, element)
ProofStep(hash, element, index) ==
    IF index % 2 = 0 THEN Hash(hash, element) ELSE Hash(element, hash)

CheckLeafExists(proof, hashedLeaf, index) ==
    LET hash[i \in 0..Len(proof)] ==
            IF i = 0 THEN hashedLeaf
            ELSE ProofStep(hash[i - 1], proof[i], index \div 2^(i - 1))
    IN hash[Len(proof)] = root

-----------------------------------------------------------------------------
(* The reference: the value of the i-th node of a height.                  *)
LeafAt(i) == IF i < Len(leaves) THEN leaves[i + 1] ELSE Zero
Reference ==
    LET value[height \in 0..levels] ==
            IF height = 0 THEN [i \in 0..maxLeaf - 1 |-> LeafAt(i)]
            ELSE [i \in 0..2^(levels - height) - 1 |->
                    Hash(value[height - 1][2 * i], value[height - 1][2 * i + 1])]
    IN value
\* Where the nodes of a height start in the array.
Start(height) == 2^(levels + 1) - 2^(levels - height + 1)
Filled(height, i) == (i + 1) * 2^height <= Len(leaves)

(* A node whose leaves have all been added is the root of these leaves,    *)
(* and no later leaf disturbs it.                                          *)
FilledNodesAreRight ==
    \A height \in 0..levels : \A i \in 0..2^(levels - height) - 1 :
        Filled(height, i) => node[Start(height) + i] = Reference[height][i]

\* The nodes next to the path from a leaf to the root.
Sibling(i) == IF i % 2 = 0 THEN i + 1 ELSE i - 1
ProofOf(index) ==
    [h \in 1..levels |-> node[Start(h - 1) + Sibling(index \div 2^(h - 1))]]

(* In a full tree the siblings of a leaf prove it at its index, and prove  *)
(* no other leaf and no other index.                                       *)
FullTreeProves ==
    ~HasRoom =>
        /\ root = Reference[levels][0]
        /\ \A index, i, j \in 0..maxLeaf - 1 :
            CheckLeafExists(ProofOf(index), LeafAt(i), j) <=> (i = index /\ j = index)

(* The root is always that of the leaves (and zero before the first): at   *)
(* an odd level of nodes, an unset node on the right counts as zero.       *)
PartialReference ==
    LET value[height \in 0..levels] ==
            IF height = 0 THEN [i \in 0..maxLeaf - 1 |-> LeafAt(i)]
            ELSE [i \in 0..2^(levels - height) - 1 |->
                    IF i * 2^height >= Len(leaves) THEN Zero
                    ELSE Hash(value[height - 1][2 * i], value[height - 1][2 * i + 1])]
    IN value[levels][0]
RootIsOfLeaves == root = PartialReference
=============================================================================
