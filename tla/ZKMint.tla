------------------------------- MODULE ZKMint -------------------------------
(***************************************************************************)
(* Assignment 1/Question2-NFT/NFT.sol: minting, where the receiver of the  *)
(* token is called before its leaf is added, and may mint itself.          *)
(* External: ERC721 calls receivers that are contracts; when a call is     *)
(* reverted its whole effect is, and a receiver may go on without it.      *)
(***************************************************************************)
EXTENDS MerkleTree, SequencesExt

CONSTANTS
    Receiver,       \* who gets tokens
    Contract,       \* which of them are contracts
    MaxDepth        \* bound on the depth of nested calls

ASSUME MintAssumption == Contract \subseteq Receiver /\ MaxDepth \in Nat

VARIABLES
    tokenIdCounter,
    tokens,         \* the tokens minted: [id, to]
    calls           \* calls of safeMint in progress, with what a revert restores

vars == <<treeVars, tokenIdCounter, tokens, calls>>

Init == TreeInit /\ tokenIdCounter = 0 /\ tokens = {} /\ calls = <<>>

State == [node |-> node, root |-> root, nextLeaf |-> nextLeaf, leaves |-> leaves,
          counter |-> tokenIdCounter, tokens |-> tokens]

-----------------------------------------------------------------------------
NextId(id) == id + 1

\* Up to the callback: nested in that of a contract, or a new transaction.
SafeMint(to) ==
    /\ Len(calls) < MaxDepth
    /\ calls # <<>> => Last(calls).to \in Contract
    /\ \A t \in tokens : t.id # tokenIdCounter
    /\ tokens' = tokens \cup {[id |-> tokenIdCounter, to |-> to]}
    /\ calls' = Append(calls, [id |-> tokenIdCounter, to |-> to, before |-> State])
    /\ tokenIdCounter' = NextId(tokenIdCounter)
    /\ UNCHANGED treeVars

\* Mutant: the leaf is that of the token minted last.
LastMinted(call) == Leaf(tokenIdCounter)
LeafOf(call) == Leaf(call.id + 1)

\* The callback returns, the leaf is added.
Minted ==
    /\ calls # <<>>
    /\ AddLeaf(LeafOf(Last(calls)))
    /\ calls' = Front(calls)
    /\ UNCHANGED <<tokenIdCounter, tokens>>

\* A contract may refuse the token; the tree may be full.
MayFail(call) == call.to \in Contract \/ ~HasRoom
Reverted ==
    /\ calls # <<>> /\ MayFail(Last(calls))
    /\ LET before == Last(calls).before IN
        /\ node' = before.node /\ root' = before.root
        /\ nextLeaf' = before.nextLeaf /\ leaves' = before.leaves
        /\ tokenIdCounter' = before.counter /\ tokens' = before.tokens
    /\ calls' = Front(calls)

Next == (\E to \in Receiver : SafeMint(to)) \/ Minted \/ Reverted
Spec == Init /\ [][Next]_vars

-----------------------------------------------------------------------------
Ids == {t.id : t \in tokens}
InProgress == {calls[i].id : i \in DOMAIN calls}
Proved == {leaves[i][1] - 1 : i \in DOMAIN leaves}

(* The types; the tree never grows above its size.                         *)
TypeOK ==
    /\ nextLeaf \in 0..maxLeaf /\ nextLeaf = Len(leaves) /\ DOMAIN node = Nodes
    /\ tokenIdCounter \in Nat /\ tokens \subseteq [id : Nat, to : Receiver]
    /\ Len(calls) <= MaxDepth

(* Every token has one leaf as soon as its call is over, in whatever order *)
(* nested calls end and whichever of them fail.                            *)
TokensHaveLeaves ==
    /\ Proved \cup InProgress = Ids /\ Proved \cap InProgress = {}
    /\ \A i, j \in DOMAIN leaves : leaves[i] = leaves[j] => i = j
=============================================================================
