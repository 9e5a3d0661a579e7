---------------------------- MODULE ZKMintProofs ----------------------------
(***************************************************************************)
(* Proofs about minting, for trees of any size, calls nested to any depth  *)
(* and any receivers: every token has its leaf when its call is over; the  *)
(* nodes whose leaves have all been added are right, in spite of the       *)
(* wrong sides that updateTree hashes on the way; and in a full tree the   *)
(* siblings of a leaf prove it, and prove nothing else.                    *)
(***************************************************************************)
EXTENDS ZKMint, Induction

-----------------------------------------------------------------------------
(* The invariant relates the state that a call would restore to the calls  *)
(* below it, exactly as the present state to all calls.                    *)

IsSeq(s) == s \in Seq({s[i] : i \in DOMAIN s})

TokenLeaf == {Leaf(id + 1) : id \in Nat}
LeafIds(ls) == {ls[i][1] - 1 : i \in DOMAIN ls}
TokenIds(ts) == {t.id : t \in ts}
OpenIds(n) == {calls[i].id : i \in 1..n}

\* Of the tokens up to the counter, each has a leaf or is one of the open calls'.
Good(ls, counter, ts, open) ==
    /\ counter \in Nat /\ ls \in Seq(TokenLeaf)
    /\ TokenIds(ts) \subseteq 0..counter - 1
    /\ LeafIds(ls) \cup open = TokenIds(ts) /\ LeafIds(ls) \cap open = {}
    /\ \A i, j \in DOMAIN ls : ls[i] = ls[j] => i = j

GoodCall(k) ==
    LET before == calls[k].before
    IN  /\ calls[k].id = before.counter
        /\ Good(before.leaves, before.counter, before.tokens, OpenIds(k - 1))

IInv ==
    /\ IsSeq(calls)
    /\ Good(leaves, tokenIdCounter, tokens, OpenIds(Len(calls)))
    /\ \A k \in 1..Len(calls) : GoodCall(k)

\* Sequences that get longer or shorter at their end.
LEMMA LongerShorter ==
    ASSUME NEW s, IsSeq(s), NEW e
    PROVE  /\ Len(s) \in Nat /\ DOMAIN s = 1..Len(s)
           /\ IsSeq(Append(s, e)) /\ Len(Append(s, e)) = Len(s) + 1
           /\ \A i \in 1..Len(s) : Append(s, e)[i] = s[i]
           /\ Append(s, e)[Len(s) + 1] = e
           /\ s # <<>> => /\ Len(s) > 0
                          /\ IsSeq(Front(s)) /\ Len(Front(s)) = Len(s) - 1
                          /\ \A i \in 1..Len(s) - 1 : Front(s)[i] = s[i]
<1> DEFINE S == {s[i] : i \in DOMAIN s}
           T == S \cup {e}
<1>1. s \in Seq(S)
  BY DEF IsSeq
<1> HIDE DEF S
<1>2. Len(s) \in Nat /\ DOMAIN s = 1..Len(s) /\ s \in Seq(T)
  BY <1>1
<1> HIDE DEF T
<1>3. ASSUME NEW t, NEW V, t \in Seq(V) PROVE IsSeq(t)
  BY <1>3 DEF IsSeq
<1>4. e \in T
  BY DEF T
<1>5. /\ Append(s, e) \in Seq(T) /\ Len(Append(s, e)) = Len(s) + 1
      /\ \A i \in 1..Len(s) : Append(s, e)[i] = s[i]
      /\ Append(s, e)[Len(s) + 1] = e
  BY <1>2, <1>4, AppendProperties
<1>6. ASSUME s # <<>>
      PROVE  /\ Len(s) > 0
             /\ IsSeq(Front(s)) /\ Len(Front(s)) = Len(s) - 1
             /\ \A i \in 1..Len(s) - 1 : Front(s)[i] = s[i]
  <2>1. Len(s) > 0
    BY <1>1, <1>6, EmptySeq
  <2> DEFINE n == Len(s) - 1
  <2>2. n \in Nat /\ \A i \in 1..n : s[i] \in S
    BY <1>1, <2>1
  <2>3. /\ SubSeq(s, 1, n) \in Seq(S) /\ Len(SubSeq(s, 1, n)) = n
        /\ \A i \in 1..n : SubSeq(s, 1, n)[i] = s[i]
    <3>1. 1 \in Int /\ n \in Int /\ \A i \in 1..n : i \in DOMAIN s
      BY <1>2, <2>2
    <3>2. n - 1 + 1 = n /\ (1 <= n => n - 1 + 1 = n) /\ \A i \in 1..n : 1 + i - 1 = i
      BY <2>2
    <3> HIDE DEF n
    <3> QED
      BY <1>1, <2>2, <3>1, <3>2, SubSeqProperties
  <2> QED
    BY <1>3, <2>1, <2>3 DEF Front
<1> QED
  BY <1>2, <1>3, <1>5, <1>6

LEMMA InitInv == Init => IInv
<1> SUFFICES ASSUME Init PROVE IInv
  OBVIOUS
<1>1. leaves = <<>> /\ calls = <<>> /\ tokens = {} /\ tokenIdCounter = 0
  BY DEF Init, TreeInit
<1>2. OpenIds(0) = {} /\ Len(calls) = 0 /\ TokenIds(tokens) = {} /\ LeafIds(leaves) = {}
  BY <1>1 DEF OpenIds, TokenIds, LeafIds
<1>3. <<>> \in Seq(TokenLeaf) /\ IsSeq(<<>>)
  BY DEF IsSeq
<1> QED
  BY <1>1, <1>2, <1>3 DEF IInv, Good

\* Calls that stay on the stack, with those below them, are as good as before.
LEMMA StackKept ==
    ASSUME IInv, NEW n \in 0..Len(calls), \A i \in 1..n : calls'[i] = calls[i]
    PROVE  /\ OpenIds(n)' = OpenIds(n)
           /\ \A k \in 1..n : GoodCall(k)'
<1>1. Len(calls) \in Nat
  BY LongerShorter DEF IInv
<1>2. \A k \in 0..n : OpenIds(k)' = OpenIds(k)
  BY <1>1 DEF OpenIds
<1>3. ASSUME NEW k \in 1..n PROVE GoodCall(k)'
  <2>1. GoodCall(k) /\ calls'[k] = calls[k] /\ k - 1 \in 0..n
    BY <1>1 DEF IInv
  <2>2. OpenIds(k - 1)' = OpenIds(k - 1)
    BY <1>2, <2>1
  <2> QED
    BY <2>1, <2>2 DEF GoodCall
<1> QED
  BY <1>1, <1>2, <1>3

LEMMA SafeMintInv ==
    ASSUME IInv, NEW to \in Receiver, SafeMint(to)
    PROVE  IInv'
<1>0. PICK n \in Nat : n = Len(calls)
  BY LongerShorter DEF IInv
<1> DEFINE c == [id |-> tokenIdCounter, to |-> to, before |-> State]
<1>1. /\ IsSeq(calls') /\ Len(calls') = n + 1
      /\ \A i \in 1..n : calls'[i] = calls[i]
      /\ calls'[n + 1] = c
  BY <1>0, LongerShorter DEF IInv, SafeMint
<1>2. OpenIds(n)' = OpenIds(n) /\ \A k \in 1..n : GoodCall(k)'
  BY <1>0, <1>1, StackKept
<1>3. Good(leaves, tokenIdCounter, tokens, OpenIds(n))
  BY <1>0 DEF IInv
<1>4. GoodCall(n + 1)'
  <2>1. /\ calls'[n + 1].id = tokenIdCounter
        /\ calls'[n + 1].before.counter = tokenIdCounter
        /\ calls'[n + 1].before.leaves = leaves
        /\ calls'[n + 1].before.tokens = tokens
    BY <1>1 DEF State
  <2>2. (n + 1) - 1 = n
    BY <1>1
  <2> QED
    BY <1>2, <1>3, <2>1, <2>2 DEF GoodCall
<1>5. OpenIds(n + 1)' = OpenIds(n) \cup {tokenIdCounter}
  <2>1. OpenIds(n + 1)' = OpenIds(n)' \cup {calls'[n + 1].id}
    BY <1>1 DEF OpenIds
  <2> QED
    BY <1>1, <1>2, <2>1
<1>6. /\ leaves' = leaves /\ tokenIdCounter' = tokenIdCounter + 1
      /\ tokens' = tokens \cup {[id |-> tokenIdCounter, to |-> to]}
  BY DEF SafeMint, treeVars, NextId
<1>7. TokenIds(tokens') = TokenIds(tokens) \cup {tokenIdCounter}
  <2> DEFINE t == [id |-> tokenIdCounter, to |-> to]
  <2>1. t.id = tokenIdCounter /\ tokens' = tokens \cup {t}
    BY <1>6
  <2> HIDE DEF t
  <2> QED
    BY <2>1 DEF TokenIds
<1>8. Good(leaves', tokenIdCounter', tokens', OpenIds(n + 1)')
  <2>1. tokenIdCounter \in Nat /\ TokenIds(tokens) \subseteq 0..tokenIdCounter - 1
        /\ LeafIds(leaves) \subseteq TokenIds(tokens)
    BY <1>3 DEF Good
  <2>2. tokenIdCounter \notin LeafIds(leaves)
    BY <2>1
  <2>3. TokenIds(tokens') \subseteq 0..(tokenIdCounter + 1) - 1
    BY <1>7, <2>1
  <2>4. LeafIds(leaves) \cup OpenIds(n + 1)' = TokenIds(tokens')
        /\ LeafIds(leaves) \cap OpenIds(n + 1)' = {}
    BY <1>3, <1>5, <1>7, <2>2 DEF Good
  <2>5. leaves \in Seq(TokenLeaf)
        /\ \A i, j \in DOMAIN leaves : leaves[i] = leaves[j] => i = j
    BY <1>3 DEF Good
  <2>6. tokenIdCounter + 1 \in Nat
    BY <2>1
  <2>7. Good(leaves, tokenIdCounter + 1, tokens', OpenIds(n + 1)')
    BY <2>3, <2>4, <2>5, <2>6 DEF Good
  <2> QED
    BY <1>6, <2>7
<1> QED
  <2>1. \A k \in 1..n + 1 : GoodCall(k)'
    BY <1>1, <1>2, <1>4
  <2> QED
    BY <1>1, <1>8, <2>1 DEF IInv

\* The call on top is the only one for its token.
LEMMA TopCall ==
    ASSUME IInv, calls # <<>>
    PROVE  \E n \in Nat :
               /\ n = Len(calls) /\ n > 0 /\ Last(calls) = calls[n] /\ GoodCall(n)
               /\ calls[n].id \in Nat /\ calls[n].id \notin OpenIds(n - 1)
               /\ OpenIds(n) = OpenIds(n - 1) \cup {calls[n].id}
<1>1. PICK n \in Nat : n = Len(calls) /\ n > 0
  BY LongerShorter DEF IInv
<1> DEFINE c == calls[n]
<1>2. GoodCall(n) /\ Last(calls) = c
  BY <1>1 DEF IInv, Last
<1>3. OpenIds(n) = OpenIds(n - 1) \cup {c.id}
  BY <1>1 DEF OpenIds
<1>4. c.id \in Nat /\ c.id \notin OpenIds(n - 1)
  <2>1. c.id = c.before.counter /\ c.id \in Nat
        /\ OpenIds(n - 1) \subseteq 0..c.before.counter - 1
    BY <1>2 DEF GoodCall, Good
  <2> QED
    BY <2>1
<1> QED
  BY <1>1, <1>2, <1>3, <1>4

\* The number of a token is read off its leaf.
LEMMA LeafOfToken ==
    ASSUME NEW id \in Nat
    PROVE  Leaf(id + 1) \in TokenLeaf /\ Leaf(id + 1)[1] - 1 = id
  BY DEF Leaf, TokenLeaf

LEMMA MintedInv ==
    ASSUME IInv, Minted
    PROVE  IInv'
<1>1. PICK n \in Nat :
         /\ n = Len(calls) /\ n > 0 /\ Last(calls) = calls[n] /\ GoodCall(n)
         /\ calls[n].id \in Nat /\ calls[n].id \notin OpenIds(n - 1)
         /\ OpenIds(n) = OpenIds(n - 1) \cup {calls[n].id}
  BY TopCall DEF Minted
<1> DEFINE c == calls[n]
           l == Leaf(c.id + 1)
<1>2. /\ IsSeq(calls') /\ Len(calls') = n - 1
      /\ \A i \in 1..n - 1 : calls'[i] = calls[i]
  BY <1>1, LongerShorter DEF IInv, Minted
<1>3. OpenIds(n - 1)' = OpenIds(n - 1) /\ \A k \in 1..n - 1 : GoodCall(k)'
  <2>1. n - 1 \in 0..Len(calls)
    BY <1>1
  <2> QED
    BY <1>2, <2>1, StackKept
<1>4. Good(leaves, tokenIdCounter, tokens, OpenIds(n))
  BY <1>1 DEF IInv
<1>5. UNCHANGED <<tokenIdCounter, tokens>> /\ leaves' = Append(leaves, l)
  BY <1>1 DEF Minted, AddLeaf, LeafOf
<1>6. l \in TokenLeaf /\ l[1] - 1 = c.id
  BY <1>1, LeafOfToken
<1>7. leaves \in Seq(TokenLeaf)
  BY <1>4 DEF Good
<1> HIDE DEF c, l
<1>8. /\ leaves' \in Seq(TokenLeaf) /\ Len(leaves') = Len(leaves) + 1 /\ Len(leaves) \in Nat
      /\ \A i \in 1..Len(leaves) : leaves'[i] = leaves[i]
      /\ leaves'[Len(leaves) + 1] = l
      /\ DOMAIN leaves' = 1..Len(leaves) + 1 /\ DOMAIN leaves = 1..Len(leaves)
  BY <1>5, <1>6, <1>7, AppendProperties, LenProperties
<1>9. LeafIds(leaves') = LeafIds(leaves) \cup {c.id}
  BY <1>6, <1>8 DEF LeafIds
<1>10. c.id \notin LeafIds(leaves)
  BY <1>1, <1>4 DEF Good, c
<1>11. \A i \in 1..Len(leaves) : leaves[i] # l
  BY <1>6, <1>8, <1>10 DEF LeafIds
<1>12. \A i, j \in DOMAIN leaves' : leaves'[i] = leaves'[j] => i = j
  <2>1. \A i, j \in 1..Len(leaves) : leaves[i] = leaves[j] => i = j
    BY <1>4, <1>8 DEF Good
  <2>2. \A i \in DOMAIN leaves' : i \in 1..Len(leaves) \/ i = Len(leaves) + 1
    BY <1>8
  <2> QED
    BY <1>8, <1>11, <2>1, <2>2
<1>13. Good(leaves', tokenIdCounter', tokens', OpenIds(n - 1)')
  <2>1. LeafIds(leaves') \cup OpenIds(n - 1) = TokenIds(tokens)
        /\ LeafIds(leaves') \cap OpenIds(n - 1) = {}
    BY <1>1, <1>4, <1>9 DEF Good, c
  <2> QED
    BY <1>3, <1>4, <1>5, <1>8, <1>12, <2>1 DEF Good
<1> QED
  BY <1>2, <1>3, <1>13 DEF IInv

\* What a failed call restores is good for the calls that remain.
LEMMA RevertedInv ==
    ASSUME IInv, Reverted
    PROVE  IInv'
<1>1. PICK n \in Nat :
         /\ n = Len(calls) /\ n > 0 /\ Last(calls) = calls[n] /\ GoodCall(n)
         /\ calls[n].id \in Nat /\ calls[n].id \notin OpenIds(n - 1)
         /\ OpenIds(n) = OpenIds(n - 1) \cup {calls[n].id}
  BY TopCall DEF Reverted
<1> DEFINE c == calls[n]
<1>2. /\ IsSeq(calls') /\ Len(calls') = n - 1
      /\ \A i \in 1..n - 1 : calls'[i] = calls[i]
  BY <1>1, LongerShorter DEF IInv, Reverted
<1>3. OpenIds(n - 1)' = OpenIds(n - 1) /\ \A k \in 1..n - 1 : GoodCall(k)'
  <2>1. n - 1 \in 0..Len(calls)
    BY <1>1
  <2> QED
    BY <1>2, <2>1, StackKept
<1>4. /\ leaves' = c.before.leaves /\ tokenIdCounter' = c.before.counter
      /\ tokens' = c.before.tokens
  BY <1>1 DEF Reverted
<1>5. Good(leaves', tokenIdCounter', tokens', OpenIds(n - 1)')
  BY <1>1, <1>3, <1>4 DEF GoodCall
<1> QED
  BY <1>2, <1>3, <1>5 DEF IInv

LEMMA NextInv == IInv /\ [Next]_vars => IInv'
<1> SUFFICES ASSUME IInv, [Next]_vars PROVE IInv'
  OBVIOUS
<1>1. CASE \E to \in Receiver : SafeMint(to)
  BY <1>1, SafeMintInv
<1>2. CASE Minted
  BY <1>2, MintedInv
<1>3. CASE Reverted
  BY <1>3, RevertedInv
<1>4. CASE UNCHANGED vars
  BY <1>4 DEF vars, treeVars, IInv, GoodCall, OpenIds
<1> QED
  BY <1>1, <1>2, <1>3, <1>4 DEF Next

\* Every token has exactly one leaf as soon as its call is over, whichever nested
\* calls fail and in whatever order they end.
THEOREM EveryTokenHasItsLeaf == Spec => []TokensHaveLeaves
<1>1. IInv => TokensHaveLeaves
  <2> SUFFICES ASSUME IInv PROVE TokensHaveLeaves
    OBVIOUS
  <2>1. InProgress = OpenIds(Len(calls))
    BY LongerShorter DEF IInv, InProgress, OpenIds
  <2>2. Proved = LeafIds(leaves) /\ Ids = TokenIds(tokens)
    BY DEF Proved, LeafIds, Ids, TokenIds
  <2> QED
    BY <2>1, <2>2 DEF IInv, Good, TokensHaveLeaves
<1> QED
  BY InitInv, NextInv, <1>1, PTL DEF Spec

-----------------------------------------------------------------------------
(* The array.  Heights are numbers up to levels, a height has 2^(levels -  *)
(* height) nodes, and they do not overlap.                                 *)
Width(h) == 2^(levels - h)
Heights == 0..levels
Index(h) == 0..Width(h) - 1

LEMMA WidthIs ==
    ASSUME NEW h \in Heights
    PROVE  /\ h \in Nat /\ levels \in Nat /\ Width(h) \in Nat \ {0} /\ 2^h \in Nat \ {0}
           /\ maxLeaf \in Nat \ {0} /\ Start(h) \in Int
           /\ h < levels => /\ h + 1 \in Heights /\ Width(h) = 2 * Width(h + 1)
                            /\ 2^(h + 1) = 2 * 2^h /\ Start(h + 1) = Start(h) + Width(h)
           /\ Width(0) = maxLeaf /\ Width(levels) = 1 /\ Start(0) = 0 /\ 2^0 = 1
           /\ Start(h) = 2^(levels + 1) - 2 * Width(h) /\ 2^(levels + 1) \in Nat
<1>1. h \in Nat /\ levels \in Nat /\ levels - h \in Nat /\ levels - h + 1 \in Nat
  BY LevelsAssumption DEF Heights
<1>2. Width(h) \in Nat \ {0} /\ 2^h \in Nat \ {0}
  BY <1>1, PowersOfTwo DEF Width
<1>3. maxLeaf \in Nat \ {0}
  BY <1>1, PowersOfTwo DEF maxLeaf
<1>4. 2^(levels + 1) \in Nat /\ 2^(levels + 1) = 2 * maxLeaf
  <2>1. levels + 1 \in Nat
    BY <1>1
  <2> QED
    BY <1>1, <2>1, PowersOfTwo DEF maxLeaf
<1>5. 2^(levels - h + 1) = 2 * Width(h)
  BY <1>1, PowersOfTwo DEF Width
<1>6. Start(h) = 2^(levels + 1) - 2 * Width(h)
  BY <1>5 DEF Start
<1>7. ASSUME h < levels
      PROVE  /\ h + 1 \in Heights /\ Width(h) = 2 * Width(h + 1)
             /\ 2^(h + 1) = 2 * 2^h /\ Start(h + 1) = Start(h) + Width(h)
  <2> DEFINE m == levels - (h + 1)
  <2>1. h + 1 \in Heights /\ m \in Nat /\ m + 1 = levels - h /\ levels - (h + 1) + 1 = levels - h
    BY <1>1, <1>7 DEF Heights
  <2>2. Width(h + 1) = 2^m /\ Width(h) = 2^(m + 1)
    BY <2>1 DEF Width
  <2> HIDE DEF m
  <2>3. Width(h) = 2 * Width(h + 1)
    BY <2>1, <2>2, PowersOfTwo
  <2>4. Start(h + 1) = 2^(levels + 1) - Width(h)
    BY <2>1 DEF Start, Width
  <2>5. 2^(h + 1) = 2 * 2^h
    BY <1>1, PowersOfTwo
  <2> QED
    BY <1>2, <1>4, <1>6, <2>1, <2>3, <2>4, <2>5
<1>8. Width(0) = maxLeaf /\ Width(levels) = 1 /\ 2^0 = 1
  <2>1. levels - 0 = levels /\ levels - levels = 0
    BY <1>1
  <2>2. 2^0 = 1
    BY <1>1, PowersOfTwo
  <2> QED
    BY <2>1, <2>2 DEF Width, maxLeaf
<1>9. Start(0) = 0
  <2>1. levels - 0 + 1 = levels + 1
    BY <1>1
  <2> QED
    BY <1>4, <2>1 DEF Start
<1> QED
  BY <1>1, <1>2, <1>3, <1>4, <1>6, <1>7, <1>8, <1>9

LEMMA Starts ==
    ASSUME NEW h \in Heights
    PROVE  /\ Start(h) \in Nat /\ Start(h) + Width(h) - 1 \in Nodes
           /\ \A g \in Heights : g > h => Start(g) >= Start(h) + Width(h)
<1>1. levels \in Nat /\ h \in Nat /\ h <= levels
  BY LevelsAssumption DEF Heights
<1>2. ASSUME NEW g \in Heights, NEW k \in Heights, k <= g PROVE Start(k) <= Start(g)
  <2> DEFINE S == {i \in k..g : Start(k) <= Start(i)}
  <2>1. k \in Int /\ g \in Int /\ k \in k..g /\ g \in k..g /\ k \in Nat /\ g <= levels
    BY <1>1, <1>2 DEF Heights
  <2>2. k \in S
    BY <2>1, WidthIs
  <2>3. ASSUME NEW i \in k..g - 1, i \in S PROVE i + 1 \in S
    <3>1. i \in Heights /\ i < levels /\ i + 1 \in k..g
      BY <1>1, <2>1 DEF Heights
    <3>2. /\ Start(i + 1) = Start(i) + Width(i) /\ Width(i) \in Nat /\ Start(i) \in Int
          /\ Start(k) \in Int
      BY <3>1, WidthIs
    <3> QED
      BY <2>3, <3>1, <3>2
  <2> HIDE DEF S
  <2>4. k..g \subseteq S
    BY <2>1, <2>2, <2>3, IntervalInduction
  <2> QED
    BY <2>1, <2>4 DEF S
<1>3. ASSUME NEW g \in Heights, g > h PROVE Start(g) >= Start(h) + Width(h)
  <2>1. h + 1 \in Heights /\ h + 1 <= g /\ h < levels /\ g \in Nat
    BY <1>1, <1>3 DEF Heights
  <2>2. Start(h + 1) = Start(h) + Width(h) /\ Start(h) \in Int /\ Width(h) \in Int
    BY <2>1, WidthIs
  <2>3. Start(h + 1) <= Start(g) /\ Start(g) \in Int
    BY <1>2, <2>1, WidthIs
  <2> QED
    BY <2>2, <2>3
<1>4. 0 \in Heights /\ levels \in Heights
  BY <1>1 DEF Heights
<1>5. Start(h) \in Nat
  <2>1. Start(0) = 0 /\ Start(0) <= Start(h) /\ Start(h) \in Int
    BY <1>1, <1>2, <1>4, WidthIs
  <2> QED
    BY <2>1
<1>6. Start(h) + Width(h) - 1 \in Nodes
  <2>1. Width(h) \in Nat \ {0}
    BY WidthIs
  <2>2. Start(levels) = 2^(levels + 1) - 2 /\ 2^(levels + 1) \in Nat
    BY <1>4, WidthIs
  <2>3. CASE h = levels
    BY <1>5, <2>1, <2>2, <2>3, WidthIs DEF Nodes
  <2>4. CASE h # levels
    <3>1. Start(levels) >= Start(h) + Width(h)
      BY <1>1, <1>3, <1>4, <2>4
    <3> QED
      BY <1>5, <2>1, <2>2, <3>1 DEF Nodes
  <2> QED
    BY <2>3, <2>4
<1> QED
  BY <1>3, <1>5, <1>6

\* Two nodes at one place of the array are the same.
LEMMA Places ==
    ASSUME NEW h \in Heights, NEW i \in Index(h)
    PROVE  /\ Start(h) + i \in Nodes
           /\ \A g \in Heights : \A j \in Index(g) : Start(h) + i = Start(g) + j => h = g /\ i = j
<1>1. /\ Start(h) \in Nat /\ Width(h) \in Nat \ {0} /\ i \in Nat /\ i <= Width(h) - 1
      /\ Start(h) + Width(h) - 1 \in Nodes
  BY Starts, WidthIs DEF Index
<1>2. Start(h) + i \in Nodes
  <2>1. 2^(levels + 1) \in Nat
    BY WidthIs
  <2> QED
    BY <1>1, <2>1 DEF Nodes
<1>3. ASSUME NEW g \in Heights, NEW j \in Index(g), Start(h) + i = Start(g) + j PROVE h = g /\ i = j
  <2>1. Start(g) \in Nat /\ Width(g) \in Nat \ {0} /\ j \in Nat /\ j <= Width(g) - 1
    BY Starts, WidthIs DEF Index
  <2>2. h \in Nat /\ g \in Nat
    BY WidthIs
  <2>3. ~ (g > h)
    <3>1. g > h => Start(g) >= Start(h) + Width(h)
      BY Starts
    <3> QED
      BY <1>1, <1>3, <2>1, <3>1
  <2>4. ~ (h > g)
    <3>1. h > g => Start(h) >= Start(g) + Width(g)
      BY Starts
    <3> QED
      BY <1>1, <1>3, <2>1, <3>1
  <2>5. h = g
    BY <2>2, <2>3, <2>4
  <2> QED
    BY <1>1, <1>3, <2>1, <2>5
<1> QED
  BY <1>2, <1>3

-----------------------------------------------------------------------------
(* Terms, the values of the reference: two terms of the same lengths that  *)
(* hash to the same are the same.                                          *)
Term == Seq(Int)

Join(l, r) == l \o r

LEMMA Joined ==
    ASSUME NEW l \in Term, NEW r \in Term
    PROVE  /\ Join(l, r) \in Term /\ Len(Join(l, r)) = Len(l) + Len(r)
           /\ Len(l) \in Nat /\ Len(r) \in Nat
           /\ \A i \in 1..Len(l) : Join(l, r)[i] = l[i]
           /\ \A i \in 1..Len(r) : Join(l, r)[Len(l) + i] = r[i]
<1>1. Len(l) \in Nat /\ Len(r) \in Nat /\ l \in Seq(Int) /\ r \in Seq(Int)
  BY DEF Term
<1>2. /\ l \o r \in Seq(Int) /\ Len(l \o r) = Len(l) + Len(r)
      /\ \A i \in 1..Len(l) + Len(r) : (l \o r)[i] = IF i <= Len(l) THEN l[i] ELSE r[i - Len(l)]
  BY <1>1, ConcatProperties
<1> DEFINE n == Len(l)
           m == Len(r)
           s == l \o r
<1>3. n \in Nat /\ m \in Nat /\ \A i \in 1..n + m : s[i] = IF i <= n THEN l[i] ELSE r[i - n]
  BY <1>1, <1>2
<1> HIDE DEF n, m, s
<1>4. ASSUME NEW i \in 1..n PROVE s[i] = l[i]
  <2>1. i \in 1..n + m /\ i <= n
    BY <1>3
  <2> QED
    BY <1>3, <2>1
<1>5. ASSUME NEW i \in 1..m PROVE s[n + i] = r[i]
  <2>1. n + i \in 1..n + m /\ ~ (n + i <= n) /\ (n + i) - n = i
    BY <1>3
  <2> QED
    BY <1>3, <2>1
<1> QED
  BY <1>1, <1>2, <1>4, <1>5 DEF n, m, s, Term, Join

Open == <<-1>>
Close == <<-2>>

LEMMA Brackets ==
    /\ Open \in Term /\ Len(Open) = 1 /\ Close \in Term /\ Len(Close) = 1
    /\ \A l, r : Hash(l, r) = Join(Join(Join(Open, l), r), Close)
<1>1. Open \in Term /\ Len(Open) = 1
  BY DEF Open, Term
<1>2. Close \in Term /\ Len(Close) = 1
  BY DEF Close, Term
<1>3. ASSUME NEW l, NEW r PROVE Hash(l, r) = Join(Join(Join(Open, l), r), Close)
  BY DEF Hash, Join, Open, Close
<1> QED
  BY <1>1, <1>2, <1>3

LEMMA HashIs ==
    ASSUME NEW l \in Term, NEW r \in Term
    PROVE  /\ Hash(l, r) \in Term /\ Len(Hash(l, r)) = Len(l) + Len(r) + 2
           /\ \A i \in 1..Len(l) : Hash(l, r)[i + 1] = l[i]
           /\ \A i \in 1..Len(r) : Hash(l, r)[(Len(l) + 1) + i] = r[i]
<1> DEFINE p == Join(Open, l)
           s == Join(p, r)
<1>2. Len(l) \in Nat /\ Len(r) \in Nat
  BY Joined
<1>3. p \in Term /\ Len(p) = 1 + Len(l) /\ \A i \in 1..Len(l) : p[1 + i] = l[i]
  <2>1. /\ p \in Term /\ Len(p) = Len(Open) + Len(l)
        /\ \A i \in 1..Len(l) : p[Len(Open) + i] = l[i]
    BY Brackets, Joined
  <2> QED
    BY <2>1, Brackets
<1> HIDE DEF p
<1>4. /\ s \in Term /\ Len(s) = Len(p) + Len(r)
      /\ \A i \in 1..Len(p) : s[i] = p[i]
      /\ \A i \in 1..Len(r) : s[Len(p) + i] = r[i]
  BY <1>3, Joined
<1> HIDE DEF s
<1>5. Hash(l, r) = Join(s, Close)
  BY Brackets DEF s, p
<1>6. /\ Join(s, Close) \in Term /\ Len(Join(s, Close)) = Len(s) + 1
      /\ \A i \in 1..Len(s) : Join(s, Close)[i] = s[i]
  <2>1. /\ Join(s, Close) \in Term /\ Len(Join(s, Close)) = Len(s) + Len(Close)
        /\ \A i \in 1..Len(s) : Join(s, Close)[i] = s[i]
    BY <1>4, Brackets, Joined
  <2> QED
    BY <2>1, Brackets
<1>7. \A i \in 1..Len(l) : Hash(l, r)[i + 1] = l[i]
  <2> SUFFICES ASSUME NEW i \in 1..Len(l) PROVE Hash(l, r)[i + 1] = l[i]
    OBVIOUS
  <2>1. i + 1 = 1 + i /\ 1 + i \in 1..Len(p) /\ 1 + i \in 1..Len(s)
    BY <1>2, <1>3, <1>4
  <2> QED
    BY <1>3, <1>4, <1>5, <1>6, <2>1
<1>8. \A i \in 1..Len(r) : Hash(l, r)[(Len(l) + 1) + i] = r[i]
  <2> SUFFICES ASSUME NEW i \in 1..Len(r) PROVE Hash(l, r)[(Len(l) + 1) + i] = r[i]
    OBVIOUS
  <2>1. (Len(l) + 1) + i = Len(p) + i /\ Len(p) + i \in 1..Len(s)
    BY <1>2, <1>3, <1>4
  <2> QED
    BY <1>4, <1>5, <1>6, <2>1
<1>9. Len(Hash(l, r)) = Len(l) + Len(r) + 2
  BY <1>2, <1>3, <1>4, <1>5, <1>6
<1> QED
  BY <1>5, <1>6, <1>7, <1>8, <1>9

LEMMA SameHash ==
    ASSUME NEW k \in Term, NEW l \in Term, NEW m \in Term, NEW r \in Term,
           Len(k) = Len(m), Len(l) = Len(r), Hash(k, l) = Hash(m, r)
    PROVE  k = m /\ l = r
<1>1. /\ \A i \in 1..Len(k) : Hash(k, l)[i + 1] = k[i]
      /\ \A i \in 1..Len(l) : Hash(k, l)[(Len(k) + 1) + i] = l[i]
  BY HashIs
<1>2. /\ \A i \in 1..Len(m) : Hash(m, r)[i + 1] = m[i]
      /\ \A i \in 1..Len(r) : Hash(m, r)[(Len(m) + 1) + i] = r[i]
  BY HashIs
<1>3. ASSUME NEW i \in 1..Len(k) PROVE k[i] = m[i]
  BY <1>1, <1>2
<1>4. ASSUME NEW i \in 1..Len(l) PROVE l[i] = r[i]
  BY <1>1, <1>2
<1>5. ASSUME NEW s \in Seq(Int), NEW t \in Seq(Int), Len(s) = Len(t), \A i \in 1..Len(s) : s[i] = t[i]
      PROVE  s = t
  <2> DEFINE n == Len(s)
  <2>1. s = [i \in 1..n |-> s[i]]
    OBVIOUS
  <2>2. t = [i \in 1..n |-> t[i]]
    BY <1>5
  <2> HIDE DEF n
  <2> QED
    BY <1>5, <2>1, <2>2 DEF n
<1> QED
  BY <1>3, <1>4, <1>5 DEF Term

\* The values of the nodes above the leaves ls.
NthLeaf(ls, i) == IF i < Len(ls) THEN ls[i + 1] ELSE Zero
Values(v, ls) ==
    /\ \A h \in Heights : \A i \in Index(h) : v[h][i] \in Term
    /\ \A i \in Index(0) : v[0][i] = NthLeaf(ls, i)
    /\ \A h \in Heights \ {0} : \A i \in Index(h) :
            v[h][i] = Hash(v[h - 1][2 * i], v[h - 1][2 * i + 1])

LEMMA Children ==
    ASSUME NEW h \in Heights, h # 0, NEW i \in Index(h)
    PROVE  /\ h - 1 \in Heights /\ 2 * i \in Index(h - 1) /\ 2 * i + 1 \in Index(h - 1)
           /\ Width(h - 1) = 2 * Width(h) /\ h - 1 < levels /\ (h - 1) + 1 = h
           /\ Start(h) = Start(h - 1) + Width(h - 1) /\ 2^h = 2 * 2^(h - 1)
<1>1. h - 1 \in Heights /\ h - 1 < levels /\ (h - 1) + 1 = h
  BY LevelsAssumption DEF Heights
<1>2. /\ Width(h - 1) = 2 * Width(h) /\ Start(h) = Start(h - 1) + Width(h - 1)
      /\ 2^h = 2 * 2^(h - 1) /\ Width(h) \in Nat
  <2> DEFINE g == h - 1
  <2>1. g \in Heights /\ g < levels /\ g + 1 = h
    BY <1>1
  <2> HIDE DEF g
  <2>2. Width(g) = 2 * Width(h) /\ Start(h) = Start(g) + Width(g) /\ 2^h = 2 * 2^g
    BY <2>1, WidthIs
  <2> QED
    BY <2>2, WidthIs DEF g
<1>3. 2 * i \in Index(h - 1) /\ 2 * i + 1 \in Index(h - 1)
  BY <1>2 DEF Index
<1> QED
  BY <1>1, <1>2, <1>3

LEMMA NthLeafIs ==
    ASSUME NEW ls \in Seq(Term), NEW i \in Nat
    PROVE  NthLeaf(ls, i) \in Term
<1>1. Zero \in Term
  BY DEF Zero, Term
<1>2. ASSUME i < Len(ls) PROVE ls[i + 1] \in Term
  <2>1. i + 1 \in 1..Len(ls)
    BY <1>2
  <2> QED
    BY <2>1
<1> QED
  BY <1>1, <1>2 DEF NthLeaf

IsReference(f, ls) ==
    f = [height \in 0..levels |->
            IF height = 0 THEN [i \in 0..maxLeaf - 1 |-> NthLeaf(ls, i)]
            ELSE [i \in 0..2^(levels - height) - 1 |->
                    Hash(f[height - 1][2 * i], f[height - 1][2 * i + 1])]]

LEMMA ReferenceExists ==
    ASSUME NEW ls \in Seq(Term)
    PROVE  \E f : IsReference(f, ls)
<1> DEFINE Level(h) == [Index(h) -> Term]
           V == UNION {Level(h) : h \in Heights}
           Up(g, h) == [i \in Index(h) |-> Hash(g[2 * i], g[2 * i + 1])]
           base == [i \in Index(0) |-> NthLeaf(ls, i)]
           step == [x \in V \X Int |->
                        IF x[2] \in 1..levels /\ x[1] \in Level(x[2] - 1) THEN Up(x[1], x[2]) ELSE base]
<1>1. base \in Level(0) /\ 0 \in Heights /\ levels \in Nat
  <2>1. \A i \in Index(0) : i \in Nat
    BY DEF Index
  <2> QED
    BY <2>1, NthLeafIs, LevelsAssumption DEF Heights
<1>2. ASSUME NEW h \in 1..levels, NEW g \in Level(h - 1) PROVE Up(g, h) \in Level(h)
  <2>1. h \in Heights /\ h # 0
    BY <1>1 DEF Heights
  <2>2. ASSUME NEW i \in Index(h) PROVE Hash(g[2 * i], g[2 * i + 1]) \in Term
    <3>1. g[2 * i] \in Term /\ g[2 * i + 1] \in Term
      BY <2>1, Children
    <3> QED
      BY <3>1, HashIs
  <2> QED
    BY <2>2
<1> HIDE DEF Level, Up, base
<1>3. \A h \in 1..levels : h \in Heights /\ h - 1 \in Heights
  BY <1>1 DEF Heights
<1>4. base \in V /\ \A h \in Heights : \A g \in Level(h) : g \in V
  BY <1>1
<1> HIDE DEF V
<1>5. step \in [V \X Int -> V]
  BY <1>2, <1>3, <1>4
<1>6. ASSUME NEW g \in V, NEW h \in 1..levels, g \in Level(h - 1) PROVE step[<<g, h>>] = Up(g, h)
  <2>1. h \in Int /\ <<g, h>> \in V \X Int
    BY <1>1
  <2> QED
    BY <1>6, <2>1
<1> HIDE DEF step
<1>7. 0 \in Int /\ levels \in Int
  BY <1>1
<1>8. PICK f \in [0..levels -> V] : LoopsFrom(f, 0, levels, base, step)
  BY <1>4, <1>5, <1>7, IntervalRecursion
<1>9. \A i \in 0..levels : f[i] = IF i = 0 THEN base ELSE step[<<f[i - 1], i>>]
  BY <1>8 DEF LoopsFrom
<1>10. \A h \in 0..levels : f[h] \in Level(h)
  <2> DEFINE S == {h \in 0..levels : f[h] \in Level(h)}
  <2>1. 0 \in S
    BY <1>1, <1>9
  <2>2. ASSUME NEW h \in 0..levels - 1, h \in S PROVE h + 1 \in S
    <3>1. h + 1 \in 0..levels /\ h + 1 \in 1..levels /\ h + 1 # 0 /\ (h + 1) - 1 = h
      BY <1>1
    <3>2. f[h + 1] = step[<<f[h], h + 1>>] /\ f[h] \in V /\ f[h] \in Level(h)
      BY <1>8, <1>9, <2>2, <3>1
    <3>3. step[<<f[h], h + 1>>] = Up(f[h], h + 1) /\ Up(f[h], h + 1) \in Level(h + 1)
      BY <1>2, <1>6, <3>1, <3>2
    <3> QED
      BY <3>1, <3>2, <3>3
  <2> HIDE DEF S
  <2>3. 0..levels \subseteq S
    BY <1>7, <2>1, <2>2, IntervalInduction
  <2> QED
    BY <2>3 DEF S
<1>11. \A h \in 0..levels : f[h] = IF h = 0 THEN base ELSE Up(f[h - 1], h)
  <2> SUFFICES ASSUME NEW h \in 0..levels, h # 0 PROVE f[h] = Up(f[h - 1], h)
    BY <1>9
  <2>1. h - 1 \in 0..levels /\ h \in 1..levels
    BY <1>1
  <2>2. f[h] = step[<<f[h - 1], h>>] /\ f[h - 1] \in V /\ f[h - 1] \in Level(h - 1)
    BY <1>8, <1>9, <1>10, <2>1
  <2> QED
    BY <1>6, <2>1, <2>2
<1>12. f = [h \in 0..levels |-> IF h = 0 THEN base ELSE Up(f[h - 1], h)]
  BY <1>8, <1>11
<1>13. IsReference(f, ls)
  <2>1. Width(0) = maxLeaf
    BY <1>1, WidthIs
  <2> QED
    BY <1>12, <2>1 DEF IsReference, base, Up, Index, Width
<1> QED
  BY <1>13

LEMMA ReferenceValues ==
    ASSUME NEW ls \in Seq(Term), NEW f, IsReference(f, ls)
    PROVE  Values(f, ls)
<1>1. levels \in Nat /\ 0 \in Heights /\ Width(0) = maxLeaf
  BY LevelsAssumption, WidthIs DEF Heights
<1>2. \A h \in Heights : f[h] = IF h = 0 THEN [i \in Index(0) |-> NthLeaf(ls, i)]
                                ELSE [i \in Index(h) |-> Hash(f[h - 1][2 * i], f[h - 1][2 * i + 1])]
  BY <1>1 DEF IsReference, Heights, Index, Width
<1>3. \A i \in Index(0) : f[0][i] = NthLeaf(ls, i)
  BY <1>1, <1>2
<1>4. \A h \in Heights \ {0} : \A i \in Index(h) : f[h][i] = Hash(f[h - 1][2 * i], f[h - 1][2 * i + 1])
  BY <1>2
<1>5. \A h \in Heights : \A i \in Index(h) : f[h][i] \in Term
  <2> DEFINE S == {h \in Heights : \A i \in Index(h) : f[h][i] \in Term}
  <2>1. 0 \in S
    <3>1. \A i \in Index(0) : i \in Nat
      BY DEF Index
    <3> QED
      BY <1>1, <1>3, <3>1, NthLeafIs
  <2>2. ASSUME NEW h \in 0..levels - 1, h \in S PROVE h + 1 \in S
    <3>1. h + 1 \in Heights /\ h + 1 # 0 /\ (h + 1) - 1 = h
      BY <1>1 DEF Heights
    <3>2. ASSUME NEW i \in Index(h + 1) PROVE f[h + 1][i] \in Term
      <4> DEFINE g == h + 1
      <4>1. g \in Heights /\ g # 0 /\ i \in Index(g) /\ g - 1 = h
        BY <3>1
      <4> HIDE DEF g
      <4>2. 2 * i \in Index(h) /\ 2 * i + 1 \in Index(h)
        BY <4>1, Children
      <4>3. f[g][i] = Hash(f[h][2 * i], f[h][2 * i + 1])
        BY <1>4, <4>1
      <4>4. f[h][2 * i] \in Term /\ f[h][2 * i + 1] \in Term
        BY <2>2, <4>2
      <4> QED
        BY <4>3, <4>4, HashIs DEF g
    <3> QED
      BY <3>1, <3>2
  <2>3. Heights \subseteq S
    <3>1. 0 \in Int /\ levels \in Int /\ Heights = 0..levels
      BY <1>1 DEF Heights
    <3> HIDE DEF S
    <3> QED
      BY <2>1, <2>2, <3>1, IntervalInduction
  <2> QED
    BY <2>3 DEF S
<1> QED
  BY <1>3, <1>4, <1>5 DEF Values

LEMMA ReferenceIs == leaves \in Seq(Term) => Values(Reference, leaves)
<1> SUFFICES ASSUME leaves \in Seq(Term) PROVE Values(Reference, leaves)
  OBVIOUS
<1>1. Reference = CHOOSE f : IsReference(f, leaves)
  BY DEF Reference, IsReference, LeafAt, NthLeaf
<1>2. \E f : IsReference(f, leaves)
  BY ReferenceExists
<1>3. IsReference(Reference, leaves)
  BY <1>1, <1>2
<1> QED
  BY <1>3, ReferenceValues

-----------------------------------------------------------------------------
(* Filled nodes.  Adding a leaf neither changes what a filled node should  *)
(* be nor touches it; it fills the nodes of which it is the last leaf.     *)
FilledBy(n, h, i) == (i + 1) * 2^h <= n

LEMMA FilledIs ==
    ASSUME NEW n \in Nat, NEW h \in Heights, NEW i \in Index(h)
    PROVE  /\ FilledBy(n, 0, i) <=> i < n
           /\ h # 0 /\ FilledBy(n, h, i) =>
                  FilledBy(n, h - 1, 2 * i) /\ FilledBy(n, h - 1, 2 * i + 1)
<1>1. i \in Nat /\ 2^0 = 1
  BY WidthIs DEF Index
<1>2. FilledBy(n, 0, i) <=> i < n
  <2>1. (i + 1) * 1 = i + 1
    BY <1>1
  <2> QED
    BY <1>1, <2>1 DEF FilledBy
<1>3. ASSUME h # 0, FilledBy(n, h, i)
      PROVE  FilledBy(n, h - 1, 2 * i) /\ FilledBy(n, h - 1, 2 * i + 1)
  <2> DEFINE d == 2^(h - 1)
             g == h - 1
  <2>1. g \in Heights /\ 2^h = 2 * d
    BY <1>3, Children
  <2>2. d \in Nat
    BY <2>1, WidthIs
  <2>3. (i + 1) * (2 * d) <= n
    BY <1>3, <2>1 DEF FilledBy
  <2> HIDE DEF d
  <2>4. /\ (i + 1) * (2 * d) = 2 * (i * d) + 2 * d
        /\ (2 * i + 1) * d = 2 * (i * d) + d
        /\ ((2 * i + 1) + 1) * d = 2 * (i * d) + 2 * d
    BY <1>1, <2>2
  <2>5. i * d \in Nat
    BY <1>1, <2>2
  <2>6. (2 * i + 1) * d <= n /\ ((2 * i + 1) + 1) * d <= n
    BY <2>2, <2>3, <2>4, <2>5
  <2> QED
    BY <2>6 DEF FilledBy, d
<1> QED
  BY <1>2, <1>3

\* What the nodes filled by the first n leaves should be depends on these only.
LEMMA Local ==
    ASSUME NEW n \in Nat, NEW ls, NEW ms, NEW v, NEW w, Values(v, ls), Values(w, ms),
           \A i \in 0..n - 1 : NthLeaf(ls, i) = NthLeaf(ms, i)
    PROVE  \A h \in Heights : \A i \in Index(h) : FilledBy(n, h, i) => v[h][i] = w[h][i]
<1> DEFINE S == {h \in Heights : \A i \in Index(h) : FilledBy(n, h, i) => v[h][i] = w[h][i]}
<1>1. 0 \in Heights /\ levels \in Nat /\ Heights = 0..levels
  BY LevelsAssumption DEF Heights
<1>2. 0 \in S
  <2>1. ASSUME NEW i \in Index(0), FilledBy(n, 0, i) PROVE v[0][i] = w[0][i]
    <3>1. i \in 0..n - 1
      BY <1>1, <2>1, FilledIs DEF Index
    <3>2. v[0][i] = NthLeaf(ls, i) /\ w[0][i] = NthLeaf(ms, i)
      BY DEF Values
    <3> QED
      BY <3>1, <3>2
  <2> QED
    BY <1>1, <2>1
<1>3. ASSUME NEW k \in 0..levels - 1, k \in S PROVE k + 1 \in S
  <2> DEFINE h == k + 1
  <2>1. h \in Heights /\ h # 0 /\ h - 1 = k
    BY <1>1 DEF Heights
  <2> HIDE DEF h
  <2>2. ASSUME NEW i \in Index(h), FilledBy(n, h, i) PROVE v[h][i] = w[h][i]
    <3>1. 2 * i \in Index(k) /\ 2 * i + 1 \in Index(k)
      BY <2>1, Children
    <3>2. FilledBy(n, k, 2 * i) /\ FilledBy(n, k, 2 * i + 1)
      BY <2>1, <2>2, FilledIs
    <3>3. v[k][2 * i] = w[k][2 * i] /\ v[k][2 * i + 1] = w[k][2 * i + 1]
      BY <1>3, <3>1, <3>2
    <3>4. /\ v[h][i] = Hash(v[k][2 * i], v[k][2 * i + 1])
          /\ w[h][i] = Hash(w[k][2 * i], w[k][2 * i + 1])
      BY <2>1 DEF Values
    <3> QED
      BY <3>3, <3>4
  <2>3. h \in S
    BY <2>1, <2>2
  <2> QED
    BY <2>3 DEF h
<1> HIDE DEF S
<1>4. 0..levels \subseteq S
  <2>1. 0 \in Int /\ levels \in Int
    BY <1>1
  <2> QED
    BY <1>2, <1>3, <2>1, IntervalInduction
<1> QED
  BY <1>1, <1>4 DEF S

\* The nodes above a leaf, and which of them it is the last leaf of.
Above(leaf, h) == leaf \div 2^h
Path(leaf, h) == Start(h) + Above(leaf, h)

LEMMA AboveIs ==
    ASSUME NEW leaf \in Index(0), NEW h \in Heights
    PROVE  /\ Above(leaf, h) \in Index(h) /\ Above(leaf, h) \in Nat
           /\ Above(leaf, 0) = leaf /\ Path(leaf, 0) = leaf /\ Above(leaf, levels) = 0
           /\ h < levels => /\ h + 1 \in Heights
                            /\ Above(leaf, h) \div 2 = Above(leaf, h + 1)
                            /\ \/ Above(leaf, h) = 2 * Above(leaf, h + 1)
                               \/ Above(leaf, h) = 2 * Above(leaf, h + 1) + 1
<1>1. leaf \in Nat /\ leaf < maxLeaf /\ h \in Nat /\ levels \in Nat /\ 0 \in Heights /\ levels \in Heights
  BY WidthIs, LevelsAssumption DEF Index, Heights
<1>2. ASSUME NEW g \in Heights PROVE Above(leaf, g) \in Nat
  <2>1. 2^g \in Nat \ {0}
    BY WidthIs
  <2> DEFINE d == 2^g
  <2> HIDE DEF d
  <2>2. leaf \div d \in Nat
    BY <1>1, <2>1 DEF d
  <2> QED
    BY <2>2 DEF Above, d
<1>3. ASSUME NEW g \in Heights, g < levels
      PROVE  /\ g + 1 \in Heights /\ Above(leaf, g) \div 2 = Above(leaf, g + 1)
             /\ \/ Above(leaf, g) = 2 * Above(leaf, g + 1)
                \/ Above(leaf, g) = 2 * Above(leaf, g + 1) + 1
  <2> DEFINE d == 2^g
             p == leaf \div d
             q == leaf \div (2 * d)
  <2>1. g + 1 \in Heights /\ d \in Nat \ {0} /\ 2^(g + 1) = 2 * d
    BY <1>3, WidthIs
  <2>2. Above(leaf, g) = p /\ Above(leaf, g + 1) = q
    BY <2>1 DEF Above
  <2> HIDE DEF d
  <2>3. q \in Nat /\ p \in Nat /\ p % 2 \in {0, 1} /\ p = 2 * q + (p % 2)
    BY <1>1, <2>1, Halves
  <2> HIDE DEF p, q
  <2>4. p \div 2 = q
    BY <2>3
  <2> QED
    BY <2>1, <2>2, <2>3, <2>4
<1>4. Above(leaf, 0) = leaf
  BY <1>1, WidthIs DEF Above
<1>5. Path(leaf, 0) = leaf
  BY <1>1, <1>4, WidthIs DEF Path
<1>6. Above(leaf, h) \in Index(h)
  <2> DEFINE S == {g \in Heights : Above(leaf, g) <= Width(g) - 1}
  <2>1. 0 \in S
    BY <1>1, <1>4 DEF Index
  <2>2. ASSUME NEW g \in 0..levels - 1, g \in S PROVE g + 1 \in S
    <3>1. g \in Heights /\ g < levels
      BY <1>1, <2>2
    <3>2. g + 1 \in Heights /\ Width(g) = 2 * Width(g + 1) /\ Width(g + 1) \in Nat
      BY <3>1, WidthIs
    <3>3. /\ Above(leaf, g + 1) \in Nat /\ Above(leaf, g) \in Nat
          /\ \/ Above(leaf, g) = 2 * Above(leaf, g + 1)
             \/ Above(leaf, g) = 2 * Above(leaf, g + 1) + 1
      BY <1>2, <1>3, <3>1, <3>2
    <3> QED
      BY <2>2, <3>2, <3>3
  <2> HIDE DEF S
  <2>3. 0..levels \subseteq S
    <3>1. 0 \in Int /\ levels \in Int
      BY <1>1
    <3> QED
      BY <2>1, <2>2, <3>1, IntervalInduction
  <2>4. Above(leaf, h) <= Width(h) - 1 /\ Above(leaf, h) \in Nat /\ Width(h) \in Nat
    BY <1>2, <2>3, WidthIs DEF S, Heights
  <2> QED
    BY <2>4 DEF Index
<1>7. Above(leaf, levels) = 0
  <2> DEFINE d == 2^levels
  <2>1. d \in Nat \ {0} /\ leaf < d
    BY <1>1, WidthIs DEF maxLeaf
  <2> HIDE DEF d
  <2>2. 0 \in Int /\ leaf \in 0..d - 1 /\ leaf \in Int /\ leaf = d * 0 + leaf
    BY <1>1, <2>1
  <2>3. leaf \div d = 0
    BY <2>1, <2>2, QuotientIs
  <2> QED
    BY <2>3 DEF Above, d
<1> QED
  BY <1>2, <1>3, <1>4, <1>5, <1>6, <1>7

\* The nodes filled by one leaf more are those filled before and the one above it, which
\* is filled if the leaf is its last; then the leaf is the last of the right child, too.
LEMMA OneMoreLeaf ==
    ASSUME NEW leaf \in Index(0), NEW h \in Heights, NEW i \in Index(h), FilledBy(leaf + 1, h, i)
    PROVE  /\ i # Above(leaf, h) => FilledBy(leaf, h, i)
           /\ h # 0 /\ i = Above(leaf, h) => /\ Above(leaf, h - 1) = 2 * i + 1 /\ ~IsLeft(leaf)
                                             /\ FilledBy(leaf + 1, h - 1, 2 * i + 1)
                                             /\ FilledBy(leaf, h - 1, 2 * i)
<1>1. leaf \in Nat /\ i \in Nat /\ h \in Nat
  BY WidthIs DEF Index
<1> DEFINE d == 2^h
           q == leaf \div d
           s == leaf % d
<1>2. d \in Nat \ {0}
  BY WidthIs
<1>3. q = Above(leaf, h) /\ (i + 1) * d <= leaf + 1
  BY DEF Above, FilledBy
<1> HIDE DEF d
<1>4. q \in Nat /\ s \in 0..d - 1 /\ leaf = d * q + s
  BY <1>1, <1>2
<1> HIDE DEF q, s
<1>5. i <= q
  <2>1. SUFFICES ASSUME i >= q + 1 PROVE FALSE
    BY <1>1, <1>4
  <2>2. (i + 1) * d >= (q + 2) * d
    BY <1>1, <1>2, <1>4, <2>1
  <2>3. (q + 2) * d = d * q + 2 * d
    BY <1>2, <1>4
  <2>4. d * q \in Nat /\ (i + 1) * d \in Nat
    BY <1>1, <1>2, <1>4
  <2> QED
    BY <1>2, <1>3, <1>4, <2>2, <2>3, <2>4
<1>6. ASSUME i # q PROVE FilledBy(leaf, h, i)
  <2>1. i + 1 <= q
    BY <1>1, <1>4, <1>5, <1>6
  <2>2. (i + 1) * d <= q * d
    BY <1>1, <1>2, <1>4, <2>1
  <2>3. q * d = d * q /\ d * q \in Nat /\ (i + 1) * d \in Nat
    BY <1>1, <1>2, <1>4
  <2>4. (i + 1) * d <= leaf
    BY <1>4, <2>2, <2>3
  <2> QED
    BY <2>4 DEF FilledBy, d
<1>7. ASSUME h # 0, i = q
      PROVE  /\ Above(leaf, h - 1) = 2 * i + 1 /\ ~IsLeft(leaf)
             /\ FilledBy(leaf + 1, h - 1, 2 * i + 1) /\ FilledBy(leaf, h - 1, 2 * i)
  <2> DEFINE e == 2^(h - 1)
             g == h - 1
  <2>1. g \in Heights /\ g < levels /\ g + 1 = h /\ d = 2 * e
    BY <1>7, Children DEF d
  <2>2. e \in Nat \ {0}
    BY <2>1, WidthIs
  <2>3. FilledBy(leaf + 1, h - 1, 2 * i + 1)
    <3>1. leaf + 1 \in Nat
      BY <1>1
    <3> QED
      BY <1>7, <3>1, FilledIs
  <2>4. Above(leaf, g) = 2 * i \/ Above(leaf, g) = 2 * i + 1
    <3>1. \/ Above(leaf, g) = 2 * Above(leaf, g + 1)
          \/ Above(leaf, g) = 2 * Above(leaf, g + 1) + 1
      BY <2>1, AboveIs
    <3> QED
      BY <1>3, <1>7, <2>1, <3>1
  <2> HIDE DEF e
  <2> DEFINE k == q * e
  <2>5. k \in Nat /\ d * q = 2 * k /\ (i + 1) * d = 2 * k + 2 * e
        /\ (2 * i + 1) * e = 2 * k + e
    BY <1>1, <1>4, <1>7, <2>1, <2>2
  <2> HIDE DEF k
  <2>6. leaf + 1 = 2 * k + 2 * e
    <3>1. 2 * k + 2 * e <= leaf + 1
      BY <1>3, <2>5
    <3>2. leaf = 2 * k + s /\ s \in 0..2 * e - 1
      BY <1>4, <2>1, <2>5
    <3> QED
      BY <1>1, <2>2, <2>5, <3>1, <3>2
  <2>7. ~IsLeft(leaf)
    <3>1. leaf = 2 * (k + e - 1) + 1 /\ k + e - 1 \in Int
      BY <1>1, <2>2, <2>5, <2>6
    <3>2. leaf % 2 = 1
      BY <1>1, <3>1
    <3> QED
      BY <3>2 DEF IsLeft
  <2>8. (2 * i + 1) * e <= leaf
    BY <1>1, <2>2, <2>5, <2>6
  <2>9. FilledBy(leaf, h - 1, 2 * i)
    BY <2>8 DEF FilledBy, e
  <2>10. Above(leaf, h - 1) = 2 * i + 1
    <3> DEFINE m == 2 * i + 1
               r == e - 1
    <3>1. m \in Int /\ m * e = 2 * k + e /\ r \in 0..e - 1 /\ r + 1 = e
      BY <1>1, <2>2, <2>5
    <3> HIDE DEF m, r
    <3>2. e * m = m * e
      BY <2>2, <3>1
    <3>3. leaf = e * m + r
      BY <1>1, <2>2, <2>5, <2>6, <3>1, <3>2
    <3>4. leaf \div e = m
      <4>1. leaf \in Int /\ e \in Nat \ {0}
        BY <1>1, <2>2
      <4> QED
        BY <3>1, <3>3, <4>1, QuotientIs
    <3> QED
      BY <3>4 DEF Above, e, m
  <2> QED
    BY <2>3, <2>7, <2>9, <2>10
<1> QED
  BY <1>3, <1>6, <1>7

-----------------------------------------------------------------------------
(* The rounds of UpdateTree: round h writes the node above the leaf at     *)
(* height h, and no other.                                                 *)
Climbing(r, leaf, nodes) ==
    r = [done \in 0..levels |->
            IF done = 0 THEN [node |-> nodes, index |-> leaf, offset |-> 0]
            ELSE Climb(leaf, levels - done + 1, r[done - 1])]

\* What is written: the nodes to the left and to the right that are hashed.
Left(leaf, index) == IF IsLeft(leaf) THEN index ELSE index - 1
Rewritten(leaf, nodes, index) ==
    Hash(At(nodes, Left(leaf, index)), At(nodes, Left(leaf, index) + 1))

Rounds(r, leaf, nodes) ==
    /\ UpdateTree(leaf, nodes) = r[levels]
    /\ r[0].node = nodes
    /\ \A h \in Heights : /\ r[h].node \in [Nodes -> Term]
                          /\ r[h].index = Path(leaf, h) /\ r[h].offset = Start(h)
    /\ \A h \in Heights \ {0} :
          r[h].node = [r[h - 1].node EXCEPT ![Path(leaf, h)] =
                            Rewritten(leaf, r[h - 1].node, Path(leaf, h - 1))]

LEMMA AtIs ==
    ASSUME NEW nodes \in [Nodes -> Term], NEW n
    PROVE  At(nodes, n) \in Term
<1>1. Zero \in Term
  BY DEF Zero, Term
<1> QED
  BY <1>1 DEF At

RoundFrom(leaf, h, nodes, index, offset) ==
    Climb(leaf, levels - h + 1, [node |-> nodes, index |-> index, offset |-> offset])

NextOffset(h, offset) == offset + 2^(levels - h + 1)
Parent(h, index, offset) == (index - offset) \div 2 + NextOffset(h, offset)
IsRound(s, leaf, h, nodes, index, offset) ==
    /\ s = [node |-> s.node, index |-> s.index, offset |-> s.offset]
    /\ s.node = [nodes EXCEPT ![Parent(h, index, offset)] = Rewritten(leaf, nodes, index)]
    /\ s.node \in [Nodes -> Term] /\ s.index = Parent(h, index, offset) /\ s.index \in Int
    /\ s.offset = NextOffset(h, offset) /\ s.offset \in Int

LEMMA ClimbIs ==
    ASSUME NEW leaf \in Index(0), NEW h \in 1..levels,
           NEW nodes \in [Nodes -> Term], NEW index \in Int, NEW offset \in Int
    PROVE  IsRound(RoundFrom(leaf, h, nodes, index, offset), leaf, h, nodes, index, offset)
<1> DEFINE r == [node |-> nodes, index |-> index, offset |-> offset]
           s == RoundFrom(leaf, h, nodes, index, offset)
           parent == Parent(h, index, offset)
           next == NextOffset(h, offset)
<1>1. next \in Int
  <2>1. levels - h + 1 \in Nat
    BY LevelsAssumption
  <2>2. 2^(levels - h + 1) \in Nat
    BY <2>1, PowersOfTwo
  <2> QED
    BY <2>2 DEF NextOffset
<1>2. r.node = nodes /\ r.index = index /\ r.offset = offset /\ s = Climb(leaf, levels - h + 1, r)
  BY DEF RoundFrom
<1> HIDE DEF r
<1>3. parent \in Int
  BY <1>1 DEF Parent
<1>4. (IF IsLeft(leaf) THEN Hash(At(nodes, index), At(nodes, index + 1))
                       ELSE Hash(At(nodes, index - 1), At(nodes, index)))
      = Rewritten(leaf, nodes, index)
  <2>1. (index - 1) + 1 = index
    OBVIOUS
  <2> QED
    BY <2>1 DEF Rewritten, Left
<1>5. s = [node |-> [nodes EXCEPT ![parent] = Rewritten(leaf, nodes, index)],
           index |-> parent, offset |-> next]
  BY <1>2, <1>4 DEF Climb, Parent, NextOffset
<1> HIDE DEF s, parent, next
<1>6. Rewritten(leaf, nodes, index) \in Term
  BY AtIs, HashIs DEF Rewritten
<1>7. [nodes EXCEPT ![parent] = Rewritten(leaf, nodes, index)] \in [Nodes -> Term]
  BY <1>6
<1> QED
  <2>1. /\ s = [node |-> s.node, index |-> s.index, offset |-> s.offset]
        /\ s.node = [nodes EXCEPT ![parent] = Rewritten(leaf, nodes, index)]
        /\ s.node \in [Nodes -> Term] /\ s.index = parent /\ s.offset = next
    BY <1>5, <1>7
  <2> QED
    BY <1>1, <1>3, <2>1 DEF IsRound, s, parent, next

LEMMA ClimbExists ==
    ASSUME NEW leaf \in Index(0), NEW nodes \in [Nodes -> Term]
    PROVE  \E r : Climbing(r, leaf, nodes) /\ r[levels] = UpdateTree(leaf, nodes)
<1> DEFINE V == {[node |-> a, index |-> i, offset |-> o] : a \in [Nodes -> Term], i \in Int, o \in Int}
           base == [node |-> nodes, index |-> leaf, offset |-> 0]
           next == [x \in V \X Int |-> IF x[2] \in 1..levels THEN Climb(leaf, levels - x[2] + 1, x[1])
                                       ELSE x[1]]
<1>1. base \in V
  <2>1. leaf \in Int
    BY DEF Index
  <2> QED
    BY <2>1
<1>2. ASSUME NEW x \in V, NEW h \in 1..levels PROVE Climb(leaf, levels - h + 1, x) \in V
  <2>1. PICK a \in [Nodes -> Term], i \in Int, o \in Int : x = [node |-> a, index |-> i, offset |-> o]
    BY <1>2
  <2> DEFINE s == Climb(leaf, levels - h + 1, x)
  <2>2. s = RoundFrom(leaf, h, a, i, o)
    BY <2>1 DEF RoundFrom
  <2> HIDE DEF s
  <2>3. /\ s = [node |-> s.node, index |-> s.index, offset |-> s.offset]
        /\ s.node \in [Nodes -> Term] /\ s.index \in Int /\ s.offset \in Int
    <3>1. IsRound(s, leaf, h, a, i, o)
      BY <2>2, ClimbIs
    <3> QED
      BY <3>1 DEF IsRound
  <2> QED
    BY <2>3 DEF s
<1>3. levels \in Nat
  BY LevelsAssumption
<1> HIDE DEF V, base
<1>4. next \in [V \X Int -> V]
  BY <1>2
<1>5. ASSUME NEW x \in V, NEW h \in 1..levels PROVE next[<<x, h>>] = Climb(leaf, levels - h + 1, x)
  <2>1. h \in Int /\ <<x, h>> \in V \X Int
    BY <1>3
  <2> QED
    BY <2>1
<1> HIDE DEF next
<1>6. 0 \in Int /\ levels \in Int
  BY <1>3
<1>7. PICK r \in [0..levels -> V] : LoopsFrom(r, 0, levels, base, next)
  BY <1>1, <1>4, <1>6, IntervalRecursion
<1>8. \A h \in 0..levels : r[h] = IF h = 0 THEN base ELSE next[<<r[h - 1], h>>]
  BY <1>7 DEF LoopsFrom
<1>9. \A h \in 0..levels : r[h] = IF h = 0 THEN base ELSE Climb(leaf, levels - h + 1, r[h - 1])
  <2> SUFFICES ASSUME NEW h \in 0..levels, h # 0 PROVE r[h] = Climb(leaf, levels - h + 1, r[h - 1])
    BY <1>8
  <2>1. h - 1 \in 0..levels /\ h \in 1..levels
    BY <1>3
  <2> QED
    BY <1>5, <1>7, <1>8, <2>1
<1>10. r = [h \in 0..levels |-> IF h = 0 THEN base ELSE Climb(leaf, levels - h + 1, r[h - 1])]
  BY <1>7, <1>9
<1>11. Climbing(r, leaf, nodes)
  BY <1>10 DEF Climbing, base
<1>12. UpdateTree(leaf, nodes) = (CHOOSE s : Climbing(s, leaf, nodes))[levels]
  BY DEF UpdateTree, Climbing
<1>13. Climbing((CHOOSE s : Climbing(s, leaf, nodes)), leaf, nodes)
  BY <1>11
<1> QED
  BY <1>12, <1>13

LEMMA RoundsExist ==
    ASSUME NEW leaf \in Index(0), NEW nodes \in [Nodes -> Term]
    PROVE  \E r : Rounds(r, leaf, nodes)
<1>1. PICK r : Climbing(r, leaf, nodes) /\ r[levels] = UpdateTree(leaf, nodes)
  BY ClimbExists
<1>2. levels \in Nat /\ leaf \in Int /\ Heights = 0..levels /\ 0 \in Heights
  BY LevelsAssumption DEF Index, Heights
<1>3. \A h \in 0..levels : r[h] = IF h = 0 THEN [node |-> nodes, index |-> leaf, offset |-> 0]
                                  ELSE Climb(leaf, levels - h + 1, r[h - 1])
  BY <1>1 DEF Climbing
<1> DEFINE Right(h) == /\ r[h] = [node |-> r[h].node, index |-> r[h].index, offset |-> r[h].offset]
                       /\ r[h].node \in [Nodes -> Term]
                       /\ r[h].index = Path(leaf, h) /\ r[h].offset = Start(h)
           Wrote(h) == r[h].node = [r[h - 1].node EXCEPT ![Path(leaf, h)] =
                                        Rewritten(leaf, r[h - 1].node, Path(leaf, h - 1))]
           S == {h \in Heights : Right(h) /\ (h # 0 => Wrote(h))}
<1>4. 0 \in S
  <2>1. r[0] = [node |-> nodes, index |-> leaf, offset |-> 0]
    BY <1>2, <1>3
  <2>2. Path(leaf, 0) = leaf /\ Start(0) = 0
    BY <1>2, AboveIs, WidthIs
  <2> QED
    BY <1>2, <2>1, <2>2
<1>5. ASSUME NEW k \in 0..levels - 1, k \in S PROVE k + 1 \in S
  <2> DEFINE h == k + 1
             a == r[k].node
             p == Path(leaf, k)
             o == Start(k)
  <2>1. h \in Heights /\ h # 0 /\ h - 1 = k /\ h \in 1..levels /\ k \in Heights /\ k < levels
    BY <1>2
  <2>2. r[h] = Climb(leaf, levels - h + 1, r[k])
    BY <1>2, <1>3, <2>1
  <2>3. /\ r[k] = [node |-> a, index |-> p, offset |-> o]
        /\ a \in [Nodes -> Term]
    BY <1>5
  <2>4. o \in Int /\ Above(leaf, k) \in Nat /\ p = o + Above(leaf, k) /\ p \in Int
    BY <2>1, AboveIs, WidthIs DEF Path
  <2>5. NextOffset(h, o) = Start(h)
    <3>1. levels - h + 1 = levels - k
      BY <1>2
    <3>2. 2^(levels - h + 1) = Width(k)
      BY <3>1 DEF Width
    <3> QED
      BY <2>1, <3>2, WidthIs DEF NextOffset
  <2>6. (p - o) \div 2 = Above(leaf, h)
    <3>1. p - o = Above(leaf, k)
      BY <2>4
    <3> QED
      BY <2>1, <3>1, AboveIs
  <2>7. Parent(h, p, o) = Path(leaf, h)
    <3>1. Above(leaf, h) \in Nat /\ Start(h) \in Int
      BY <2>1, AboveIs, WidthIs
    <3> QED
      BY <2>5, <2>6, <3>1 DEF Path, Parent
  <2> HIDE DEF h, a, p, o
  <2>8. r[h] = RoundFrom(leaf, h, a, p, o)
    BY <2>2, <2>3 DEF RoundFrom
  <2>9. IsRound(r[h], leaf, h, a, p, o)
    BY <2>1, <2>3, <2>4, <2>8, ClimbIs
  <2>10. Right(h)
    BY <2>5, <2>7, <2>9 DEF IsRound
  <2>11. Wrote(h)
    BY <2>1, <2>7, <2>9 DEF a, p, IsRound
  <2> QED
    BY <2>1, <2>10, <2>11 DEF h
<1> HIDE DEF S
<1>6. 0..levels \subseteq S
  <2>1. 0 \in Int /\ levels \in Int
    BY <1>2
  <2> QED
    BY <1>4, <1>5, <2>1, IntervalInduction
<1>7. r[0].node = nodes
  BY <1>2, <1>3
<1> QED
  BY <1>1, <1>2, <1>6, <1>7 DEF S, Rounds

\* A node stays as it is through rounds for other nodes.
LEMMA Untouched ==
    ASSUME NEW leaf \in Index(0), NEW nodes, NEW r, Rounds(r, leaf, nodes),
           NEW a \in Heights, NEW b \in a..levels, NEW n \in Nodes,
           \A h \in a + 1..b : Path(leaf, h) # n
    PROVE  r[b].node[n] = r[a].node[n]
<1>1. a \in Int /\ b \in Int /\ b \in a..b /\ a \in Nat /\ b <= levels /\ levels \in Nat
  BY LevelsAssumption DEF Heights
<1> DEFINE S == {k \in a..b : r[k].node[n] = r[a].node[n]}
<1>2. a \in S
  BY <1>1
<1>3. ASSUME NEW k \in a..b - 1, k \in S PROVE k + 1 \in S
  <2> DEFINE h == k + 1
  <2>1. h \in Heights /\ h # 0 /\ h - 1 = k /\ h \in a + 1..b /\ h \in a..b /\ k \in Heights
    BY <1>1, <1>3 DEF Heights
  <2> HIDE DEF h
  <2>2. /\ r[k].node \in [Nodes -> Term]
        /\ r[h].node = [r[k].node EXCEPT ![Path(leaf, h)] = Rewritten(leaf, r[k].node, Path(leaf, k))]
    BY <2>1 DEF Rounds
  <2>3. Path(leaf, h) # n
    BY <2>1
  <2>4. r[h].node[n] = r[k].node[n]
    BY <2>2, <2>3
  <2> QED
    BY <1>3, <2>1, <2>4 DEF h
<1> HIDE DEF S
<1>4. a..b \subseteq S
  BY <1>1, <1>2, <1>3, IntervalInduction
<1> QED
  BY <1>1, <1>4 DEF S

\* The nodes above a leaf, as places of the array.
LEMMA PathIs ==
    ASSUME NEW leaf \in Index(0), NEW h \in Heights, NEW i \in Index(h), NEW g \in Heights
    PROVE  /\ Path(leaf, g) \in Nodes /\ Start(h) + i \in Nodes
           /\ Path(leaf, g) = Start(h) + i <=> g = h /\ i = Above(leaf, h)
<1>1. Above(leaf, g) \in Index(g) /\ Above(leaf, h) \in Index(h)
  BY AboveIs
<1>2. Path(leaf, g) \in Nodes /\ Start(h) + i \in Nodes
  BY <1>1, Places DEF Path
<1>3. Path(leaf, g) = Start(h) + i => g = h /\ Above(leaf, g) = i
  BY <1>1, Places DEF Path
<1>4. g = h /\ i = Above(leaf, h) => Path(leaf, g) = Start(h) + i
  BY DEF Path
<1> QED
  BY <1>2, <1>3, <1>4

\* The filled nodes are right; the root is the last of the nodes.
TreeRight(nodes, v, n) ==
    \A h \in Heights : \A i \in Index(h) : FilledBy(n, h, i) => nodes[Start(h) + i] = v[h][i]

LEMMA UpdateRight ==
    ASSUME NEW ls \in Seq(Term), NEW x \in Term, NEW nodes \in [Nodes -> Term],
           NEW leaf \in Index(0), leaf = Len(ls),
           NEW v, Values(v, ls), TreeRight(nodes, v, leaf),
           NEW w, Values(w, Append(ls, x)),
           NEW up, up = UpdateTree(leaf, [nodes EXCEPT ![leaf] = x])
    PROVE  /\ up.node \in [Nodes -> Term] /\ up.index = Start(levels)
           /\ TreeRight(up.node, w, leaf + 1)
<1> DEFINE set == [nodes EXCEPT ![leaf] = x]
<1>1. leaf \in Nat /\ leaf + 1 \in Nat /\ levels \in Nat /\ 0 \in Heights /\ levels \in Heights
      /\ Heights = 0..levels
  BY LevelsAssumption DEF Index, Heights
<1>2. leaf \in Nodes /\ Path(leaf, 0) = leaf
  BY <1>1, PathIs, AboveIs
<1>3. set \in [Nodes -> Term] /\ set[leaf] = x /\ \A n \in Nodes : n # leaf => set[n] = nodes[n]
  BY <1>2
<1> HIDE DEF set
<1>4. PICK r : Rounds(r, leaf, set)
  BY <1>3, RoundsExist
<1>5. up = r[levels] /\ r[0].node = set
  BY <1>4 DEF Rounds, set
<1>6. up.node \in [Nodes -> Term] /\ up.index = Start(levels)
  <2>1. up.node \in [Nodes -> Term] /\ up.index = Path(leaf, levels)
    BY <1>1, <1>4, <1>5 DEF Rounds
  <2>2. Path(leaf, levels) = Start(levels)
    BY <1>1, AboveIs, WidthIs DEF Path
  <2> QED
    BY <2>1, <2>2
<1>7. \A i \in 0..leaf - 1 : NthLeaf(ls, i) = NthLeaf(Append(ls, x), i)
  <2> SUFFICES ASSUME NEW i \in 0..leaf - 1 PROVE NthLeaf(ls, i) = NthLeaf(Append(ls, x), i)
    OBVIOUS
  <2>1. i < Len(ls) /\ i < Len(Append(ls, x)) /\ i + 1 \in 1..Len(ls)
    BY <1>1, AppendProperties
  <2>2. Append(ls, x)[i + 1] = ls[i + 1]
    BY <2>1, AppendProperties
  <2> QED
    BY <2>1, <2>2 DEF NthLeaf
<1>8. \A h \in Heights : \A i \in Index(h) : FilledBy(leaf, h, i) => v[h][i] = w[h][i]
  BY <1>1, <1>7, Local
\* A node that was filled before, after any round.
<1>9. ASSUME NEW h \in Heights, NEW i \in Index(h), FilledBy(leaf, h, i), i # Above(leaf, h),
             NEW k \in Heights
      PROVE  r[k].node[Start(h) + i] = w[h][i]
  <2> DEFINE n == Start(h) + i
  <2>1. n \in Nodes /\ \A g \in Heights : Path(leaf, g) # n
    BY <1>9, PathIs
  <2>2. nodes[n] = v[h][i] /\ v[h][i] = w[h][i]
    BY <1>8, <1>9 DEF TreeRight
  <2> HIDE DEF n
  <2>3. \A g \in 0 + 1..k : Path(leaf, g) # n
    BY <1>1, <2>1
  <2>4. r[k].node[n] = r[0].node[n]
    <3>1. k \in 0..levels
      BY <1>1
    <3> QED
      BY <1>1, <1>4, <2>1, <2>3, <3>1, Untouched
  <2>5. n # leaf
    BY <1>1, <1>2, <2>1
  <2>6. set[n] = nodes[n]
    BY <1>3, <2>1, <2>5
  <2> QED
    BY <1>5, <2>2, <2>4, <2>6 DEF n
\* A node whose last leaf this is, after its round.
<1> DEFINE Fills(h) == FilledBy(leaf + 1, h, Above(leaf, h))
           S == {h \in Heights : Fills(h) => r[h].node[Path(leaf, h)] = w[h][Above(leaf, h)]}
<1>10. 0 \in S
  <2>1. r[0].node[Path(leaf, 0)] = x
    BY <1>2, <1>3, <1>5
  <2>2. w[0][leaf] = NthLeaf(Append(ls, x), leaf)
    BY DEF Values
  <2>3. NthLeaf(Append(ls, x), leaf) = x
    <3>1. Len(Append(ls, x)) = leaf + 1 /\ Append(ls, x)[leaf + 1] = x
      BY AppendProperties
    <3> QED
      BY <1>1, <3>1 DEF NthLeaf
  <2>4. Above(leaf, 0) = leaf
    BY <1>1, AboveIs
  <2> QED
    BY <1>1, <2>1, <2>2, <2>3, <2>4
<1>11. ASSUME NEW k \in 0..levels - 1, k \in S PROVE k + 1 \in S
  <2> DEFINE h == k + 1
             i == Above(leaf, h)
  <2>1. h \in Heights /\ h # 0 /\ h - 1 = k /\ k \in Heights
    BY <1>1
  <2>2. i \in Index(h)
    BY <2>1, AboveIs
  <2> HIDE DEF h, i
  <2> SUFFICES ASSUME FilledBy(leaf + 1, h, i) PROVE r[h].node[Path(leaf, h)] = w[h][i]
    BY <2>1 DEF h, i
  <2>3. /\ Above(leaf, k) = 2 * i + 1 /\ ~IsLeft(leaf)
        /\ FilledBy(leaf + 1, k, 2 * i + 1) /\ FilledBy(leaf, k, 2 * i)
    BY <2>1, <2>2, OneMoreLeaf DEF i
  <2>4. 2 * i \in Index(k) /\ 2 * i + 1 \in Index(k) /\ 2 * i # 2 * i + 1
    <3>1. i \in Int
      BY <2>2 DEF Index
    <3> QED
      BY <2>1, <2>2, <3>1, Children
  <2> DEFINE a == r[k].node
             p == Path(leaf, k)
  <2>5. a[p] = w[k][2 * i + 1]
    BY <1>11, <2>3
  <2>6. a[Start(k) + 2 * i] = w[k][2 * i]
    BY <1>9, <2>1, <2>3, <2>4
  <2>7. p = Start(k) + (2 * i + 1) /\ p - 1 = Start(k) + 2 * i /\ (p - 1) + 1 = p
    <3>1. i \in Int /\ Start(k) \in Int
      BY <2>1, <2>2, WidthIs DEF Index
    <3>2. p = Start(k) + (2 * i + 1)
      BY <2>3 DEF Path
    <3> HIDE DEF p
    <3> QED
      BY <3>1, <3>2
  <2>8. p \in Nodes /\ Start(k) + 2 * i \in Nodes /\ Path(leaf, h) \in Nodes
    BY <2>1, <2>2, <2>4, PathIs
  <2> HIDE DEF p
  <2>9. Rewritten(leaf, a, p) = Hash(w[k][2 * i], w[k][2 * i + 1])
    <3>1. Left(leaf, p) = p - 1
      BY <2>3 DEF Left
    <3>2. At(a, p - 1) = w[k][2 * i] /\ At(a, p) = w[k][2 * i + 1]
      BY <2>5, <2>6, <2>7, <2>8 DEF At
    <3> QED
      BY <2>7, <3>1, <3>2 DEF Rewritten
  <2>10. a \in [Nodes -> Term] /\ r[h].node = [a EXCEPT ![Path(leaf, h)] = Rewritten(leaf, a, p)]
    BY <1>4, <2>1 DEF Rounds, p
  <2>11. r[h].node[Path(leaf, h)] = Rewritten(leaf, a, p)
    BY <2>8, <2>10
  <2>12. w[h][i] = Hash(w[k][2 * i], w[k][2 * i + 1])
    BY <2>1, <2>2 DEF Values
  <2> QED
    BY <2>9, <2>11, <2>12
<1> HIDE DEF S
<1>12. Heights \subseteq S
  <2>1. 0 \in Int /\ levels \in Int
    BY <1>1
  <2> QED
    BY <1>1, <1>10, <1>11, <2>1, IntervalInduction
<1>13. ASSUME NEW h \in Heights, NEW i \in Index(h), FilledBy(leaf + 1, h, i)
       PROVE  up.node[Start(h) + i] = w[h][i]
  <2>1. CASE i = Above(leaf, h)
    <3> DEFINE n == Start(h) + i
    <3>1. r[h].node[n] = w[h][i]
      BY <1>12, <1>13, <2>1 DEF S, Path
    <3>2. n \in Nodes /\ \A g \in Heights : Path(leaf, g) = n => g = h
      BY PathIs
    <3> HIDE DEF n
    <3>3. \A g \in h + 1..levels : Path(leaf, g) # n
      BY <1>1, <3>2
    <3>4. r[levels].node[n] = r[h].node[n]
      <4>1. levels \in h..levels
        BY <1>1
      <4> QED
        BY <1>4, <3>2, <3>3, <4>1, Untouched
    <3> QED
      BY <1>5, <3>1, <3>4 DEF n
  <2>2. CASE i # Above(leaf, h)
    <3>1. FilledBy(leaf, h, i)
      BY <1>13, <2>2, OneMoreLeaf
    <3> QED
      BY <1>1, <1>5, <1>9, <2>2, <3>1
  <2> QED
    BY <2>1, <2>2
<1> QED
  BY <1>6, <1>13 DEF TreeRight

-----------------------------------------------------------------------------
(* The invariant of the tree: it holds of the present tree and of those    *)
(* that the calls in progress would restore.                               *)
GoodTree(nodes, rt, next, ls) ==
    /\ ls \in Seq(Term) /\ nodes \in [Nodes -> Term]
    /\ next = Len(ls) /\ next <= maxLeaf
    /\ \A v : Values(v, ls) => TreeRight(nodes, v, next)
    /\ ls # <<>> => rt = nodes[Start(levels)]

GoodBefore(k) ==
    LET before == calls[k].before
    IN  GoodTree(before.node, before.root, before.nextLeaf, before.leaves)

TreeInv ==
    /\ GoodTree(node, root, nextLeaf, leaves)
    /\ \A k \in 1..Len(calls) : GoodBefore(k)

LEMMA InitTree == Init => TreeInv
<1> SUFFICES ASSUME Init PROVE TreeInv
  OBVIOUS
<1>1. leaves = <<>> /\ calls = <<>> /\ nextLeaf = 0 /\ node = [n \in Nodes |-> Zero]
  BY DEF Init, TreeInit
<1>2. <<>> \in Seq(Term) /\ Len(<<>>) = 0 /\ Zero \in Term
  BY DEF Term, Zero
<1>3. 0 <= maxLeaf
  <2>1. 0 \in Heights
    BY LevelsAssumption DEF Heights
  <2> QED
    BY <2>1, WidthIs
<1>4. ASSUME NEW v PROVE TreeRight(node, v, 0)
  <2>1. ASSUME NEW h \in Heights, NEW i \in Index(h) PROVE ~FilledBy(0, h, i)
    <3> DEFINE d == 2^h
    <3>1. i \in Nat /\ d \in Nat \ {0}
      BY WidthIs DEF Index
    <3> HIDE DEF d
    <3>2. (i + 1) * d = i * d + d /\ i * d \in Nat
      BY <3>1
    <3> DEFINE m == (i + 1) * d
    <3>3. m \in Nat /\ ~(m <= 0)
      BY <3>1, <3>2
    <3> HIDE DEF m
    <3>4. FilledBy(0, h, i) <=> m <= 0
      BY DEF FilledBy, m, d
    <3> QED
      BY <3>3, <3>4
  <2> QED
    BY <2>1 DEF TreeRight
<1>5. Len(calls) = 0
  BY <1>1
<1>6. node \in [Nodes -> Term]
  BY <1>1, <1>2
<1> QED
  BY <1>1, <1>2, <1>3, <1>4, <1>5, <1>6 DEF TreeInv, GoodTree

LEMMA AddLeafTree ==
    ASSUME GoodTree(node, root, nextLeaf, leaves), NEW x \in Term, AddLeaf(x)
    PROVE  GoodTree(node', root', nextLeaf', leaves')
<1>1. /\ leaves \in Seq(Term) /\ node \in [Nodes -> Term] /\ nextLeaf = Len(leaves)
      /\ nextLeaf <= maxLeaf
  BY DEF GoodTree
<1>2. Len(leaves) \in Nat /\ nextLeaf # maxLeaf /\ 0 \in Heights
  BY <1>1, LevelsAssumption DEF AddLeaf, HasRoom, Heights
<1>3. nextLeaf \in Index(0) /\ nextLeaf + 1 <= maxLeaf
  BY <1>1, <1>2, WidthIs DEF Index
<1> DEFINE set == [node EXCEPT ![nextLeaf] = x]
           up == UpdateTree(nextLeaf, set)
<1>4. /\ node' = up.node /\ root' = up.node[up.index] /\ nextLeaf' = nextLeaf + 1
      /\ leaves' = Append(leaves, x)
  BY DEF AddLeaf, NextLeaf
<1>5. leaves' \in Seq(Term) /\ Len(leaves') = nextLeaf + 1
  BY <1>1, <1>4, AppendProperties
<1>6. PICK v : Values(v, leaves) /\ TreeRight(node, v, nextLeaf)
  <2>1. PICK f : IsReference(f, leaves)
    BY <1>1, ReferenceExists
  <2>2. Values(f, leaves)
    BY <1>1, <2>1, ReferenceValues
  <2> QED
    BY <2>2 DEF GoodTree
<1> HIDE DEF up
<1>7. ASSUME NEW w, Values(w, leaves')
      PROVE  up.node \in [Nodes -> Term] /\ up.index = Start(levels) /\ TreeRight(up.node, w, nextLeaf + 1)
  BY <1>1, <1>3, <1>4, <1>6, <1>7, UpdateRight DEF up
<1>8. \E w : Values(w, leaves')
  <2>1. PICK f : IsReference(f, leaves')
    BY <1>5, ReferenceExists
  <2>2. Values(f, leaves')
    BY <1>5, <2>1, ReferenceValues
  <2> QED
    BY <2>2
<1>9. up.node \in [Nodes -> Term] /\ up.index = Start(levels)
  BY <1>7, <1>8
<1> QED
  BY <1>3, <1>4, <1>5, <1>7, <1>9 DEF GoodTree

LEMMA StackTree ==
    ASSUME TreeInv, NEW n \in Nat, n <= Len(calls), \A i \in 1..n : calls'[i] = calls[i]
    PROVE  \A k \in 1..n : GoodBefore(k)'
<1> SUFFICES ASSUME NEW k \in 1..n PROVE GoodBefore(k)'
  OBVIOUS
<1>1. Len(calls) \in Nat => k \in 1..Len(calls)
  OBVIOUS
<1>2. GoodBefore(k) \/ Len(calls) \notin Nat
  BY <1>1 DEF TreeInv
<1> QED
  BY <1>2 DEF GoodBefore

LEMMA SafeMintTree ==
    ASSUME IInv, TreeInv, NEW to \in Receiver, SafeMint(to)
    PROVE  TreeInv'
<1>0. PICK n \in Nat : n = Len(calls)
  BY LongerShorter DEF IInv
<1> DEFINE c == [id |-> tokenIdCounter, to |-> to, before |-> State]
<1>1. /\ Len(calls') = n + 1
      /\ \A i \in 1..n : calls'[i] = calls[i]
      /\ calls'[n + 1] = c
  BY <1>0, LongerShorter DEF IInv, SafeMint
<1>2. \A k \in 1..n : GoodBefore(k)'
  BY <1>0, <1>1, StackTree
<1>3. GoodTree(node, root, nextLeaf, leaves)
  BY DEF TreeInv
<1>4. GoodBefore(n + 1)'
  <2>1. /\ calls'[n + 1].before.node = node /\ calls'[n + 1].before.root = root
        /\ calls'[n + 1].before.nextLeaf = nextLeaf /\ calls'[n + 1].before.leaves = leaves
    BY <1>1 DEF State
  <2> QED
    BY <1>3, <2>1 DEF GoodBefore
<1>5. GoodTree(node', root', nextLeaf', leaves')
  BY <1>3 DEF SafeMint, treeVars
<1>6. \A k \in 1..n + 1 : GoodBefore(k)'
  BY <1>2, <1>4
<1> QED
  BY <1>1, <1>5, <1>6 DEF TreeInv

LEMMA MintedTree ==
    ASSUME IInv, TreeInv, Minted
    PROVE  TreeInv'
<1>1. PICK n \in Nat :
         /\ n = Len(calls) /\ n > 0 /\ Last(calls) = calls[n] /\ GoodCall(n)
         /\ calls[n].id \in Nat /\ calls[n].id \notin OpenIds(n - 1)
         /\ OpenIds(n) = OpenIds(n - 1) \cup {calls[n].id}
  BY TopCall DEF Minted
<1>2. Len(calls') = n - 1 /\ \A i \in 1..n - 1 : calls'[i] = calls[i]
  BY <1>1, LongerShorter DEF IInv, Minted
<1>3. \A k \in 1..n - 1 : GoodBefore(k)'
  <2>1. n - 1 \in Nat /\ n - 1 <= Len(calls)
    BY <1>1
  <2> QED
    BY <1>2, <2>1, StackTree
<1> DEFINE x == LeafOf(calls[n])
<1>4. x \in Term
  <2>1. calls[n].id + 1 \in Int
    BY <1>1
  <2> QED
    BY <2>1 DEF LeafOf, Leaf, Term
<1>5. AddLeaf(x)
  BY <1>1 DEF Minted
<1> HIDE DEF x
<1>6. GoodTree(node', root', nextLeaf', leaves')
  BY <1>4, <1>5, AddLeafTree DEF TreeInv
<1> QED
  BY <1>2, <1>3, <1>6 DEF TreeInv

LEMMA RevertedTree ==
    ASSUME IInv, TreeInv, Reverted
    PROVE  TreeInv'
<1>1. PICK n \in Nat : n = Len(calls) /\ n > 0 /\ Last(calls) = calls[n]
  BY TopCall DEF Reverted
<1>2. Len(calls') = n - 1 /\ \A i \in 1..n - 1 : calls'[i] = calls[i]
  BY <1>1, LongerShorter DEF IInv, Reverted
<1>3. \A k \in 1..n - 1 : GoodBefore(k)'
  <2>1. n - 1 \in Nat /\ n - 1 <= Len(calls)
    BY <1>1
  <2> QED
    BY <1>2, <2>1, StackTree
<1>4. GoodBefore(n)
  BY <1>1 DEF TreeInv
<1>5. /\ node' = calls[n].before.node /\ root' = calls[n].before.root
      /\ nextLeaf' = calls[n].before.nextLeaf /\ leaves' = calls[n].before.leaves
  BY <1>1 DEF Reverted
<1>6. GoodTree(node', root', nextLeaf', leaves')
  BY <1>4, <1>5 DEF GoodBefore
<1> QED
  BY <1>2, <1>3, <1>6 DEF TreeInv

LEMMA NextTree == IInv /\ TreeInv /\ [Next]_vars => TreeInv'
<1> SUFFICES ASSUME IInv, TreeInv, [Next]_vars PROVE TreeInv'
  OBVIOUS
<1>1. CASE \E to \in Receiver : SafeMint(to)
  BY <1>1, SafeMintTree
<1>2. CASE Minted
  BY <1>2, MintedTree
<1>3. CASE Reverted
  BY <1>3, RevertedTree
<1>4. CASE UNCHANGED vars
  BY <1>4 DEF vars, treeVars, TreeInv, GoodBefore
<1> QED
  BY <1>1, <1>2, <1>3, <1>4 DEF Next

\* In a tree of any size, whatever calls fail and in whatever order they end, every node
\* whose leaves have all been added is the root of these leaves; no later leaf disturbs it.
THEOREM FilledAreRight == Spec => []FilledNodesAreRight
<1>1. TreeInv => FilledNodesAreRight
  <2> SUFFICES ASSUME TreeInv, NEW h \in Heights, NEW i \in Index(h), Filled(h, i)
               PROVE  node[Start(h) + i] = Reference[h][i]
    BY DEF FilledNodesAreRight, Heights, Index, Width
  <2>1. Values(Reference, leaves)
    BY ReferenceIs DEF TreeInv, GoodTree
  <2>2. TreeRight(node, Reference, nextLeaf) /\ nextLeaf = Len(leaves)
    BY <2>1 DEF TreeInv, GoodTree
  <2>3. FilledBy(nextLeaf, h, i)
    BY <2>2 DEF FilledBy, Filled
  <2> QED
    BY <2>2, <2>3 DEF TreeRight
<1> QED
  BY InitInv, NextInv, InitTree, NextTree, <1>1, PTL DEF Spec

-----------------------------------------------------------------------------
(* A full tree: all its nodes are right, those of one height are terms of  *)
(* one length and no two of them are the same.                             *)
LEMMA AllFilled ==
    ASSUME NEW h \in Heights, NEW i \in Index(h)
    PROVE  FilledBy(maxLeaf, h, i)
<1> DEFINE S == {g \in Heights : Width(g) * 2^g = maxLeaf}
<1>1. levels \in Nat /\ Heights = 0..levels /\ 0 \in Heights
  BY LevelsAssumption DEF Heights
<1>2. 0 \in S
  <2>1. Width(0) = maxLeaf /\ 2^0 = 1 /\ maxLeaf \in Nat
    BY <1>1, WidthIs
  <2>2. Width(0) * 2^0 = maxLeaf
    BY <2>1
  <2> QED
    BY <1>1, <2>2
<1>3. ASSUME NEW g \in 0..levels - 1, g \in S PROVE g + 1 \in S
  <2> DEFINE w == Width(g + 1)
             d == 2^g
  <2>1. g \in Heights /\ g < levels
    BY <1>1
  <2>2. g + 1 \in Heights /\ Width(g) = 2 * w /\ d \in Nat \ {0} /\ 2^(g + 1) = 2 * d
    BY <2>1, WidthIs
  <2>3. w \in Nat
    BY <2>2, WidthIs
  <2>4. Width(g) * d = maxLeaf
    BY <1>3
  <2> HIDE DEF w, d
  <2>5. w * (2 * d) = (2 * w) * d
    BY <2>2, <2>3
  <2>6. w * 2^(g + 1) = maxLeaf
    BY <2>2, <2>4, <2>5
  <2> QED
    BY <2>2, <2>6 DEF w
<1> HIDE DEF S
<1>4. Heights \subseteq S
  <2>1. 0 \in Int /\ levels \in Int
    BY <1>1
  <2> QED
    BY <1>1, <1>2, <1>3, <2>1, IntervalInduction
<1> DEFINE w == Width(h)
           d == 2^h
<1>5. w * d = maxLeaf
  BY <1>4 DEF S
<1>6. w \in Nat /\ d \in Nat \ {0} /\ i \in Nat /\ i + 1 <= w
  BY WidthIs DEF Index
<1> HIDE DEF w, d
<1>7. (i + 1) * d <= w * d
  BY <1>6
<1> QED
  BY <1>5, <1>7 DEF FilledBy, d

LEMMA NodesDiffer ==
    ASSUME NEW ls \in Seq(TokenLeaf), Len(ls) = maxLeaf,
           \A i, j \in DOMAIN ls : ls[i] = ls[j] => i = j,
           NEW v, Values(v, ls)
    PROVE  \A h \in Heights : \A i, j \in Index(h) :
               /\ Len(v[h][i]) = Len(v[h][j]) /\ v[h][i] \in Term
               /\ v[h][i] = v[h][j] => i = j
<1> DEFINE Differ(h) == \A i, j \in Index(h) : /\ Len(v[h][i]) = Len(v[h][j])
                                               /\ v[h][i] = v[h][j] => i = j
           S == {h \in Heights : Differ(h)}
<1>1. levels \in Nat /\ Heights = 0..levels /\ 0 \in Heights
  BY LevelsAssumption DEF Heights
<1>2. \A h \in Heights : \A i \in Index(h) : v[h][i] \in Term
  BY DEF Values
<1>3. 0 \in S
  <2>1. ASSUME NEW i \in Index(0)
        PROVE  i + 1 \in DOMAIN ls /\ v[0][i] = ls[i + 1] /\ Len(v[0][i]) = 1 /\ i \in Int
    <3>1. i < Len(ls) /\ i \in Nat /\ Len(ls) \in Nat
      BY <1>1, WidthIs DEF Index
    <3>2. i + 1 \in DOMAIN ls /\ i + 1 \in 1..Len(ls)
      BY <3>1
    <3>3. v[0][i] = ls[i + 1]
      BY <3>1 DEF Values, NthLeaf
    <3>4. ls[i + 1] \in TokenLeaf
      BY <3>2
    <3>5. Len(ls[i + 1]) = 1
      BY <3>4 DEF TokenLeaf, Leaf
    <3> QED
      BY <3>1, <3>2, <3>3, <3>5
  <2>2. Differ(0)
    BY <2>1
  <2> QED
    BY <1>1, <2>2
<1>4. ASSUME NEW k \in 0..levels - 1, k \in S PROVE k + 1 \in S
  <2> DEFINE h == k + 1
  <2>1. h \in Heights /\ h # 0 /\ h - 1 = k /\ k \in Heights
    BY <1>1
  <2>2. Differ(k)
    BY <1>4
  <2> HIDE DEF h
  <2>3. ASSUME NEW i \in Index(h)
        PROVE  /\ 2 * i \in Index(k) /\ 2 * i + 1 \in Index(k) /\ i \in Int
               /\ v[h][i] = Hash(v[k][2 * i], v[k][2 * i + 1])
               /\ v[k][2 * i] \in Term /\ v[k][2 * i + 1] \in Term
    <3>1. 2 * i \in Index(k) /\ 2 * i + 1 \in Index(k)
      BY <2>1, Children
    <3>2. v[h][i] = Hash(v[k][2 * i], v[k][2 * i + 1])
      BY <2>1 DEF Values
    <3> QED
      BY <1>2, <2>1, <3>1, <3>2 DEF Index
  <2>4. ASSUME NEW i \in Index(h), NEW j \in Index(h)
        PROVE  Len(v[h][i]) = Len(v[h][j]) /\ (v[h][i] = v[h][j] => i = j)
    <3> DEFINE a == v[k][2 * i]
               b == v[k][2 * i + 1]
               c == v[k][2 * j]
               e == v[k][2 * j + 1]
    <3>1. /\ a \in Term /\ b \in Term /\ c \in Term /\ e \in Term
          /\ v[h][i] = Hash(a, b) /\ v[h][j] = Hash(c, e)
      BY <2>3
    <3>2. Len(a) = Len(c) /\ Len(b) = Len(e) /\ (a = c => 2 * i = 2 * j)
      BY <2>2, <2>3
    <3> HIDE DEF a, b, c, e
    <3>3. Len(Hash(a, b)) = Len(Hash(c, e))
      <4>1. Len(Hash(a, b)) = Len(a) + Len(b) + 2
        BY <3>1, HashIs
      <4>2. Len(Hash(c, e)) = Len(c) + Len(e) + 2
        BY <3>1, HashIs
      <4> QED
        BY <3>2, <4>1, <4>2
    <3>4. Hash(a, b) = Hash(c, e) => a = c
      BY <3>1, <3>2, SameHash
    <3>5. i \in Int /\ j \in Int
      BY <2>3
    <3> QED
      BY <3>1, <3>2, <3>3, <3>4, <3>5
  <2>5. Differ(h)
    BY <2>4
  <2> QED
    BY <2>1, <2>5 DEF h
<1> HIDE DEF S, Differ
<1>5. Heights \subseteq S
  <2>1. 0 \in Int /\ levels \in Int
    BY <1>1
  <2> QED
    BY <1>1, <1>3, <1>4, <2>1, IntervalInduction
<1> QED
  BY <1>2, <1>5 DEF S, Differ

\* The loop of checkLeafExists.
Chain(f, proof, x, j) ==
    f = [i \in 0..Len(proof) |-> IF i = 0 THEN x ELSE ProofStep(f[i - 1], proof[i], j \div 2^(i - 1))]

LEMMA ProofStepIs ==
    ASSUME NEW x \in Term, NEW y \in Term, NEW k
    PROVE  /\ ProofStep(x, y, k) \in Term /\ Len(ProofStep(x, y, k)) = Len(x) + Len(y) + 2
           /\ ProofStep(x, y, k) = IF k % 2 = 0 THEN Hash(x, y) ELSE Hash(y, x)
<1>1. ProofStep(x, y, k) = IF k % 2 = 0 THEN Hash(x, y) ELSE Hash(y, x)
  BY DEF ProofStep
<1>2. Len(x) \in Nat /\ Len(y) \in Nat
  BY DEF Term
<1>3. /\ Hash(x, y) \in Term /\ Len(Hash(x, y)) = Len(x) + Len(y) + 2
      /\ Hash(y, x) \in Term /\ Len(Hash(y, x)) = Len(y) + Len(x) + 2
  BY HashIs
<1> QED
  BY <1>1, <1>2, <1>3

LEMMA ChainExists ==
    ASSUME NEW proof \in [1..levels -> Term], NEW x \in Term, NEW j \in Index(0)
    PROVE  \E f : /\ CheckLeafExists(proof, x, j) <=> f[levels] = root
                  /\ f[0] = x /\ \A h \in 0..levels : f[h] \in Term
                  /\ \A h \in 1..levels : f[h] = ProofStep(f[h - 1], proof[h], Above(j, h - 1))
<1> DEFINE n == Len(proof)
           next == [y \in Term \X Int |->
                        IF y[2] \in 1..levels THEN ProofStep(y[1], proof[y[2]], j \div 2^(y[2] - 1)) ELSE x]
<1>1. levels \in Nat /\ n = levels
  BY LevelsAssumption
<1> HIDE DEF n
<1>2. next \in [Term \X Int -> Term]
  BY ProofStepIs
<1>3. ASSUME NEW y \in Term, NEW h \in 1..levels
      PROVE  next[<<y, h>>] = ProofStep(y, proof[h], j \div 2^(h - 1))
  <2>1. h \in Int /\ <<y, h>> \in Term \X Int
    BY <1>1
  <2> QED
    BY <2>1
<1> HIDE DEF next
<1>4. 0 \in Int /\ levels \in Int
  BY <1>1
<1>5. PICK f \in [0..levels -> Term] : LoopsFrom(f, 0, levels, x, next)
  BY <1>2, <1>4, IntervalRecursion
<1>6. \A h \in 0..levels : f[h] = IF h = 0 THEN x ELSE next[<<f[h - 1], h>>]
  BY <1>5 DEF LoopsFrom
<1>7. \A h \in 0..levels : f[h] = IF h = 0 THEN x ELSE ProofStep(f[h - 1], proof[h], j \div 2^(h - 1))
  <2> SUFFICES ASSUME NEW h \in 0..levels, h # 0
               PROVE  f[h] = ProofStep(f[h - 1], proof[h], j \div 2^(h - 1))
    BY <1>6
  <2>1. h - 1 \in 0..levels /\ h \in 1..levels
    BY <1>1
  <2> QED
    BY <1>3, <1>5, <1>6, <2>1
<1>8. f = [h \in 0..levels |-> IF h = 0 THEN x ELSE ProofStep(f[h - 1], proof[h], j \div 2^(h - 1))]
  BY <1>5, <1>7
<1>9. Chain(f, proof, x, j)
  BY <1>1, <1>8 DEF Chain, n
<1> DEFINE c == CHOOSE g : Chain(g, proof, x, j)
<1>10. CheckLeafExists(proof, x, j) <=> c[n] = root
  BY DEF CheckLeafExists, Chain, n
<1>11. Chain(c, proof, x, j)
  BY <1>9
<1> HIDE DEF c
<1>12. c = [h \in 0..levels |-> IF h = 0 THEN x ELSE ProofStep(c[h - 1], proof[h], j \div 2^(h - 1))]
  BY <1>1, <1>11 DEF Chain, n
<1>13. c[0] = x /\ \A h \in 1..levels : c[h] = ProofStep(c[h - 1], proof[h], Above(j, h - 1))
  <2>1. c[0] = x
    BY <1>1, <1>12
  <2>2. ASSUME NEW h \in 1..levels PROVE c[h] = ProofStep(c[h - 1], proof[h], Above(j, h - 1))
    <3>1. h \in 0..levels /\ h # 0
      BY <1>1
    <3> QED
      BY <1>12, <3>1 DEF Above
  <2> QED
    BY <2>1, <2>2
<1>14. \A h \in 0..levels : c[h] \in Term
  <2> DEFINE S == {h \in 0..levels : c[h] \in Term}
  <2>1. 0 \in S
    BY <1>1, <1>13
  <2>2. ASSUME NEW k \in 0..levels - 1, k \in S PROVE k + 1 \in S
    <3>1. k + 1 \in 1..levels /\ k + 1 \in 0..levels /\ (k + 1) - 1 = k
      BY <1>1
    <3>2. c[k + 1] = ProofStep(c[k], proof[k + 1], Above(j, k))
      BY <1>13, <3>1
    <3>3. c[k] \in Term /\ proof[k + 1] \in Term
      BY <2>2, <3>1
    <3>4. ProofStep(c[k], proof[k + 1], Above(j, k)) \in Term
      BY <3>3, ProofStepIs
    <3> QED
      BY <3>1, <3>2, <3>4
  <2> HIDE DEF S
  <2>3. 0..levels \subseteq S
    BY <1>4, <2>1, <2>2, IntervalInduction
  <2> QED
    BY <2>3 DEF S
<1> QED
  BY <1>1, <1>10, <1>13, <1>14

\* The proof of a leaf: the children of a node are next to each other.
LEMMA SiblingIs ==
    ASSUME NEW leaf \in Index(0), NEW k \in Heights, k < levels, NEW q, q = Above(leaf, k + 1)
    PROVE  /\ q \in Index(k + 1) /\ k + 1 \in Heights /\ q \in Int
           /\ 2 * q \in Index(k) /\ 2 * q + 1 \in Index(k)
           /\ Sibling(Above(leaf, k)) \in Index(k)
           /\ \/ /\ Above(leaf, k) = 2 * q /\ Above(leaf, k) % 2 = 0
                 /\ Sibling(Above(leaf, k)) = 2 * q + 1
              \/ /\ Above(leaf, k) = 2 * q + 1 /\ Above(leaf, k) % 2 # 0
                 /\ Sibling(Above(leaf, k)) = 2 * q
<1> DEFINE h == k + 1
           a == Above(leaf, k)
<1>1. h \in Heights /\ (a = 2 * q \/ a = 2 * q + 1) /\ k \in Nat
  BY AboveIs, WidthIs
<1>2. q \in Index(h) /\ q \in Int
  BY <1>1, AboveIs
<1>3. h # 0 /\ h - 1 = k
  BY <1>1
<1> HIDE DEF h, a
<1>4. 2 * q \in Index(k) /\ 2 * q + 1 \in Index(k)
  BY <1>1, <1>2, <1>3, Children
<1>5. CASE a = 2 * q
  <2>1. a % 2 = 0 /\ Sibling(a) = 2 * q + 1
    BY <1>2, <1>5 DEF Sibling
  <2> QED
    BY <1>1, <1>2, <1>4, <1>5, <2>1 DEF h, a
<1>6. CASE a = 2 * q + 1
  <2>1. a % 2 = 1
    BY <1>2, <1>6
  <2>2. Sibling(a) = 2 * q
    BY <1>2, <1>6, <2>1 DEF Sibling
  <2> QED
    BY <1>1, <1>2, <1>4, <1>6, <2>1, <2>2 DEF h, a
<1> QED
  BY <1>1, <1>5, <1>6

\* The nodes v[h] of a tree, no two of a height the same, prove a leaf and no other.
Distinct(v) ==
    \A h \in Heights : \A m, n \in Index(h) :
        /\ Len(v[h][m]) = Len(v[h][n]) /\ v[h][m] \in Term
        /\ v[h][m] = v[h][n] => m = n
Hashed(v) ==
    \A h \in Heights \ {0} : \A m \in Index(h) : v[h][m] = Hash(v[h - 1][2 * m], v[h - 1][2 * m + 1])
Checked(f, v, index, j) ==
    /\ \A h \in 0..levels : f[h] \in Term
    /\ \A h \in 1..levels :
          f[h] = ProofStep(f[h - 1], v[h - 1][Sibling(Above(index, h - 1))], Above(j, h - 1))

LEMMA ProvesOne ==
    ASSUME NEW v, NEW f, NEW index \in Index(0), NEW i \in Index(0), NEW j \in Index(0),
           Distinct(v), Hashed(v), Checked(f, v, index, j), f[0] = v[0][i]
    PROVE  f[levels] = v[levels][0] <=> i = index /\ j = index
<1>1. levels \in Nat /\ Heights = 0..levels /\ 0 \in Heights /\ levels \in Heights
  BY LevelsAssumption DEF Heights
<1>2. 0 \in Int /\ levels \in Int
  BY <1>1
<1>3. ASSUME NEW k \in 0..levels - 1
      PROVE  /\ k \in Heights /\ k < levels /\ k + 1 \in Heights /\ k + 1 # 0
             /\ f[k + 1] = ProofStep(f[k], v[k][Sibling(Above(index, k))], Above(j, k))
             /\ \A m \in Index(k + 1) : v[k + 1][m] = Hash(v[k][2 * m], v[k][2 * m + 1])
             /\ f[k] \in Term /\ \A m \in Index(k) : v[k][m] \in Term
             /\ \A m, n \in Index(k) : Len(v[k][m]) = Len(v[k][n])
  <2> DEFINE h == k + 1
  <2>1. h \in Heights /\ h # 0 /\ h - 1 = k /\ h \in 1..levels /\ k \in Heights /\ k < levels
    BY <1>1
  <2> HIDE DEF h
  <2>2. f[h] = ProofStep(f[k], v[k][Sibling(Above(index, k))], Above(j, k))
    BY <2>1 DEF Checked
  <2>3. \A m \in Index(h) : v[h][m] = Hash(v[k][2 * m], v[k][2 * m + 1])
    BY <2>1 DEF Hashed
  <2>4. f[k] \in Term
    BY <1>1, <2>1 DEF Checked
  <2>5. /\ \A m \in Index(k) : v[k][m] \in Term
        /\ \A m, n \in Index(k) : Len(v[k][m]) = Len(v[k][n])
    BY <2>1 DEF Distinct
  <2> QED
    BY <2>1, <2>2, <2>3, <2>4, <2>5 DEF h
\* All values at a height have one length.
<1>4. \A h \in Heights : \A m \in Index(h) : Len(f[h]) = Len(v[h][m])
  <2> DEFINE S == {h \in Heights : \A m \in Index(h) : Len(f[h]) = Len(v[h][m])}
  <2>1. 0 \in S
    BY <1>1 DEF Distinct
  <2>2. ASSUME NEW k \in 0..levels - 1, k \in S PROVE k + 1 \in S
    <3> DEFINE s == Sibling(Above(index, k))
    <3>1. s \in Index(k)
      BY <1>3, SiblingIs
    <3> HIDE DEF s
    <3>2. Len(f[k + 1]) = Len(f[k]) + Len(v[k][s]) + 2
      <4>1. f[k + 1] = ProofStep(f[k], v[k][s], Above(j, k))
        BY <1>3 DEF s
      <4>2. f[k] \in Term /\ v[k][s] \in Term
        BY <1>3, <3>1
      <4>3. Len(ProofStep(f[k], v[k][s], Above(j, k))) = Len(f[k]) + Len(v[k][s]) + 2
        BY <4>2, ProofStepIs
      <4> QED
        BY <4>1, <4>3
    <3>3. ASSUME NEW m \in Index(k + 1) PROVE Len(f[k + 1]) = Len(v[k + 1][m])
      <4> DEFINE h == k + 1
      <4>1. h \in Heights /\ h # 0 /\ h - 1 = k /\ m \in Index(h)
        BY <1>1
      <4> HIDE DEF h
      <4>2. 2 * m \in Index(k) /\ 2 * m + 1 \in Index(k)
        BY <4>1, Children
      <4>3. /\ v[k + 1][m] = Hash(v[k][2 * m], v[k][2 * m + 1])
            /\ v[k][2 * m] \in Term /\ v[k][2 * m + 1] \in Term
        BY <1>3, <4>2
      <4>4. Len(v[k + 1][m]) = Len(v[k][2 * m]) + Len(v[k][2 * m + 1]) + 2
        <5> DEFINE l == v[k][2 * m]
                   r == v[k][2 * m + 1]
        <5>1. l \in Term /\ r \in Term /\ v[k + 1][m] = Hash(l, r)
          BY <4>3
        <5> HIDE DEF l, r
        <5>2. Len(Hash(l, r)) = Len(l) + Len(r) + 2
          BY <5>1, HashIs
        <5> QED
          BY <5>1, <5>2 DEF l, r
      <4>5. Len(v[k][2 * m]) = Len(f[k]) /\ Len(v[k][2 * m + 1]) = Len(v[k][s])
        BY <1>3, <2>2, <3>1, <4>2
      <4> QED
        BY <3>2, <4>4, <4>5
    <3> QED
      BY <1>3, <3>3
  <2> HIDE DEF S
  <2>3. 0..levels \subseteq S
    BY <1>2, <2>1, <2>2, IntervalInduction
  <2> QED
    BY <1>1, <2>3 DEF S
\* Up: the leaf at its index hashes to the nodes above it.
<1>5. ASSUME i = index, j = index PROVE f[levels] = v[levels][0]
  <2> DEFINE S == {h \in Heights : f[h] = v[h][Above(index, h)]}
  <2>1. 0 \in S
    BY <1>1, <1>5, AboveIs
  <2>2. ASSUME NEW k \in 0..levels - 1, k \in S PROVE k + 1 \in S
    <3> DEFINE a == Above(index, k)
               q == Above(index, k + 1)
    <3>1. f[k + 1] = ProofStep(v[k][a], v[k][Sibling(a)], a)
      BY <1>3, <1>5, <2>2
    <3>2. q \in Index(k + 1) /\ v[k + 1][q] = Hash(v[k][2 * q], v[k][2 * q + 1])
      BY <1>3, SiblingIs
    <3>3. \/ a = 2 * q /\ a % 2 = 0 /\ Sibling(a) = 2 * q + 1
          \/ a = 2 * q + 1 /\ a % 2 # 0 /\ Sibling(a) = 2 * q
      BY <1>3, SiblingIs
    <3> HIDE DEF a, q
    <3>4. f[k + 1] = v[k + 1][q]
      BY <3>1, <3>2, <3>3 DEF ProofStep
    <3> QED
      BY <1>3, <3>4 DEF q
  <2> HIDE DEF S
  <2>3. 0..levels \subseteq S
    BY <1>2, <2>1, <2>2, IntervalInduction
  <2> QED
    BY <1>1, <2>3, AboveIs DEF S
\* Down: what hashes to a node above the index was its child above the index.
<1>6. ASSUME f[levels] = v[levels][0] PROVE i = index /\ j = index
  <2> DEFINE Same(h) == f[h] = v[h][Above(index, h)] /\ Above(j, h) = Above(index, h)
             S == {d \in 0..levels : Same(levels - d)}
  <2>1. 0 \in S
    <3>1. levels - 0 = levels
      BY <1>1
    <3>2. Same(levels)
      BY <1>1, <1>6, AboveIs
    <3> HIDE DEF Same
    <3> QED
      BY <1>1, <3>1, <3>2
  <2>2. ASSUME NEW d \in 0..levels - 1, d \in S PROVE d + 1 \in S
    <3> DEFINE k == levels - (d + 1)
    <3>1. k \in 0..levels - 1 /\ k + 1 = levels - d /\ d + 1 \in 0..levels
      BY <1>1
    <3>2. Same(k + 1)
      BY <2>2, <3>1
    <3> HIDE DEF k
    <3> DEFINE a == Above(index, k)
               b == Above(j, k)
               q == Above(index, k + 1)
               s == Sibling(a)
               l == v[k][2 * q]
               r == v[k][2 * q + 1]
    <3>3. k \in Heights /\ k < levels
      BY <1>3, <3>1
    <3>4. /\ q \in Int /\ q \in Index(k + 1) /\ 2 * q \in Index(k) /\ 2 * q + 1 \in Index(k)
          /\ s \in Index(k)
          /\ \/ a = 2 * q /\ s = 2 * q + 1
             \/ a = 2 * q + 1 /\ s = 2 * q
      BY <3>3, SiblingIs
    <3>5. \/ b = 2 * q /\ b % 2 = 0
          \/ b = 2 * q + 1 /\ b % 2 # 0
      <4>1. q = Above(j, k + 1)
        BY <3>2
      <4> QED
        BY <3>3, <4>1, SiblingIs
    <3>6. ProofStep(f[k], v[k][s], b) = Hash(l, r)
      <4>1. f[k + 1] = v[k + 1][q]
        BY <3>2
      <4> QED
        BY <1>3, <3>1, <3>4, <4>1
    <3> HIDE DEF a, b, q, s
    <3>7. f[k] \in Term /\ v[k][s] \in Term /\ l \in Term /\ r \in Term
      BY <1>3, <3>1, <3>4
    <3>8. /\ Len(f[k]) = Len(l) /\ Len(f[k]) = Len(r)
          /\ Len(v[k][s]) = Len(l) /\ Len(v[k][s]) = Len(r)
      BY <1>3, <1>4, <3>1, <3>4
    <3>9. (v[k][s] = l => s = 2 * q) /\ (v[k][s] = r => s = 2 * q + 1)
      BY <3>3, <3>4 DEF Distinct
    <3> HIDE DEF l, r
    <3>10. f[k] = v[k][a] /\ b = a
      <4>1. CASE b = 2 * q /\ b % 2 = 0
        <5>1. Hash(f[k], v[k][s]) = Hash(l, r)
          BY <3>6, <4>1 DEF ProofStep
        <5>2. f[k] = l /\ v[k][s] = r
          BY <3>7, <3>8, <5>1, SameHash
        <5>3. a = 2 * q
          BY <3>4, <3>9, <5>2
        <5> QED
          BY <4>1, <5>2, <5>3 DEF l
      <4>2. CASE b = 2 * q + 1 /\ b % 2 # 0
        <5>1. Hash(v[k][s], f[k]) = Hash(l, r)
          BY <3>6, <4>2 DEF ProofStep
        <5>2. v[k][s] = l /\ f[k] = r
          BY <3>7, <3>8, <5>1, SameHash
        <5>3. a = 2 * q + 1
          BY <3>4, <3>9, <5>2
        <5> QED
          BY <4>2, <5>2, <5>3 DEF r
      <4> QED
        BY <3>5, <4>1, <4>2
    <3>11. Same(k)
      BY <3>10 DEF a, b
    <3> HIDE DEF Same
    <3> QED
      BY <3>1, <3>11 DEF k
  <2> HIDE DEF S, Same
  <2>3. 0..levels \subseteq S
    BY <1>2, <2>1, <2>2, IntervalInduction
  <2>4. Same(0)
    <3>1. levels \in 0..levels /\ levels - levels = 0
      BY <1>1
    <3> QED
      BY <2>3, <3>1 DEF S
  <2>5. v[0][i] = v[0][index] /\ j = index
    BY <1>1, <2>4, AboveIs DEF Same
  <2> QED
    BY <1>1, <2>5 DEF Distinct
<1> QED
  BY <1>5, <1>6

LEMMA FullTree ==
    ASSUME IInv, TreeInv, ~HasRoom,
           NEW index \in Index(0), NEW i \in Index(0), NEW j \in Index(0)
    PROVE  /\ root = Reference[levels][0]
           /\ CheckLeafExists(ProofOf(index), LeafAt(i), j) <=> i = index /\ j = index
<1> DEFINE v == Reference
<1>1. levels \in Nat /\ Heights = 0..levels /\ 0 \in Heights /\ levels \in Heights
  BY LevelsAssumption DEF Heights
<1>2. /\ leaves \in Seq(TokenLeaf) /\ Len(leaves) = maxLeaf /\ nextLeaf = maxLeaf
      /\ \A m, n \in DOMAIN leaves : leaves[m] = leaves[n] => m = n
  BY DEF IInv, Good, TreeInv, GoodTree, HasRoom
<1>3. Values(v, leaves)
  BY ReferenceIs DEF TreeInv, GoodTree
<1> HIDE DEF v
<1>4. \A h \in Heights : \A m \in Index(h) : node[Start(h) + m] = v[h][m]
  BY <1>2, <1>3, AllFilled DEF TreeInv, GoodTree, TreeRight
<1>5. Distinct(v)
  BY <1>2, <1>3, NodesDiffer DEF Distinct
<1>6. root = v[levels][0]
  <2>1. 0 \in Index(levels) /\ Start(levels) + 0 = Start(levels) /\ maxLeaf \in Nat \ {0}
    BY <1>1, WidthIs DEF Index
  <2>2. node[Start(levels) + 0] = v[levels][0]
    BY <1>1, <1>4, <2>1
  <2>3. leaves # <<>>
    BY <1>2, <2>1
  <2>4. root = node[Start(levels)]
    BY <2>3 DEF TreeInv, GoodTree
  <2> QED
    BY <2>1, <2>2, <2>4
<1> DEFINE proof == ProofOf(index)
<1>7. ASSUME NEW h \in 1..levels
      PROVE  /\ proof[h] = v[h - 1][Sibling(Above(index, h - 1))] /\ proof[h] \in Term
  <2> DEFINE k == h - 1
             s == Sibling(Above(index, k))
  <2>1. k \in Heights /\ k < levels
    BY <1>1
  <2>2. proof[h] = node[Start(k) + s]
    BY DEF ProofOf, Above
  <2> HIDE DEF k
  <2>3. s \in Index(k)
    BY <2>1, SiblingIs
  <2> HIDE DEF s
  <2>4. node[Start(k) + s] = v[k][s] /\ v[k][s] \in Term
    BY <1>4, <1>5, <2>1, <2>3 DEF Distinct
  <2> QED
    BY <2>2, <2>4 DEF k, s
<1>8. proof \in [1..levels -> Term]
  <2>1. proof = [h \in 1..levels |-> proof[h]]
    BY DEF ProofOf
  <2> HIDE DEF proof
  <2> QED
    BY <1>7, <2>1
<1>9. LeafAt(i) = v[0][i] /\ LeafAt(i) \in Term
  <2>1. v[0][i] = LeafAt(i)
    BY <1>3 DEF Values, NthLeaf, LeafAt
  <2> QED
    BY <1>1, <1>5, <2>1 DEF Distinct
<1> HIDE DEF proof
<1>10. PICK f : /\ CheckLeafExists(proof, LeafAt(i), j) <=> f[levels] = root
                /\ f[0] = LeafAt(i) /\ \A h \in 0..levels : f[h] \in Term
                /\ \A h \in 1..levels : f[h] = ProofStep(f[h - 1], proof[h], Above(j, h - 1))
  BY <1>8, <1>9, ChainExists
<1>11. Checked(f, v, index, j)
  BY <1>7, <1>10 DEF Checked
<1>12. Hashed(v)
  BY <1>3 DEF Values, Hashed
<1>13. f[levels] = v[levels][0] <=> i = index /\ j = index
  BY <1>5, <1>9, <1>10, <1>11, <1>12, ProvesOne
<1> QED
  BY <1>6, <1>10, <1>13 DEF proof, v

\* In a full tree of any size the siblings of a leaf prove it at its index, and prove no
\* other leaf and no other index.
THEOREM FullTreesProve == Spec => []FullTreeProves
<1>1. IInv /\ TreeInv => FullTreeProves
  <2> SUFFICES ASSUME IInv, TreeInv, ~HasRoom PROVE
        /\ root = Reference[levels][0]
        /\ \A index, i, j \in Index(0) :
              CheckLeafExists(ProofOf(index), LeafAt(i), j) <=> (i = index /\ j = index)
    <3>1. Width(0) = maxLeaf
      BY LevelsAssumption, WidthIs DEF Heights
    <3> QED
      BY <3>1 DEF FullTreeProves, Index
  <2>1. 0 \in Index(0)
    BY LevelsAssumption, WidthIs DEF Heights, Index
  <2> QED
    BY <2>1, FullTree
<1> QED
  BY InitInv, NextInv, InitTree, NextTree, <1>1, PTL DEF Spec
=============================================================================
