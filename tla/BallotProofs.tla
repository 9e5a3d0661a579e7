----------------------------- MODULE BallotProofs -----------------------------
(***************************************************************************)
(* Proofs about the ballot, for any accounts and proposals: delegations    *)
(* never close a loop, every right is counted once, where its chain of     *)
(* delegates leads, and stays there, and the winner has most votes.        *)
(***************************************************************************)
EXTENDS Ballot, Induction

-----------------------------------------------------------------------------
(* The chains of delegates as a forest: from each account the chain leads, *)
(* in `depth` steps, to the `end`, which has no delegate.                  *)
delegateOf == [a \in Everybody |-> voters[a].delegate]
Delegators(to) == {a \in Everybody : to[a] # Zero}

LeadsTo(to, end, depth, a) ==
    IF to[a] = Zero THEN depth[a] = 0 /\ end[a] = a
                    ELSE depth[a] = depth[to[a]] + 1 /\ end[a] = end[to[a]]

Forest(to, end, depth) ==
    /\ to \in [Everybody -> Everybody]
    /\ end \in [Everybody -> Everybody] /\ depth \in [Everybody -> Nat]
    /\ \A a \in Everybody :
        LeadsTo(to, end, depth, a) /\ depth[a] <= Cardinality(Delegators(to))

LEMMA FiniteEverybody ==
    /\ IsFiniteSet(Everybody)
    /\ Cardinality(Everybody) \in Nat /\ Cardinality(Address) \in Nat
    /\ \A to \in [Everybody -> Everybody] :
        /\ IsFiniteSet(Delegators(to))
        /\ Cardinality(Delegators(to)) \in 0..Cardinality(Everybody)
<1>1. IsFiniteSet(Address)
  BY BallotAssumption
<1>2. IsFiniteSet(Everybody)
  BY <1>1, FS_AddElement DEF Everybody
<1>3. \A T \in SUBSET Everybody :
        IsFiniteSet(T) /\ Cardinality(T) \in Nat /\ Cardinality(T) <= Cardinality(Everybody)
  BY <1>2, FS_Subset, FS_CardinalityType
<1>4. Cardinality(Everybody) \in Nat /\ Cardinality(Address) \in Nat
  BY <1>1, <1>2, FS_CardinalityType
<1>5. \A to : Delegators(to) \in SUBSET Everybody
  BY DEF Delegators
<1> QED
  BY <1>2, <1>3, <1>4, <1>5

(* The loop of delegate(), from any account, ends at the end of its chain, *)
(* and nobody else on the way is without a delegate.                       *)
ChainsEnd ==
    \A end, depth : Forest(delegateOf, end, depth) =>
        \A a \in Everybody : Ends(a) = {end[a]}

LEMMA ChainsDoEnd == ChainsEnd
<1> SUFFICES ASSUME NEW end, NEW depth, Forest(delegateOf, end, depth), NEW a \in Everybody
             PROVE  Ends(a) = {end[a]}
  BY DEF ChainsEnd
<1> DEFINE N == Cardinality(Everybody)
           step == [x \in Everybody \X Int |-> IF voters[x[1]].delegate = Zero THEN x[1]
                                               ELSE voters[x[1]].delegate]
           IsChain(f) == f = [n \in 0..N |-> IF n = 0 THEN a
                                ELSE IF voters[f[n - 1]].delegate = Zero THEN f[n - 1]
                                     ELSE voters[f[n - 1]].delegate]
           at == CHOOSE f : IsChain(f)
<1>1. /\ \A b \in Everybody : delegateOf[b] = voters[b].delegate /\ voters[b].delegate \in Everybody
      /\ N \in Nat
  BY FiniteEverybody DEF Forest, delegateOf
<1>2. step \in [Everybody \X Int -> Everybody]
  BY <1>1
<1>3. PICK f \in [0..N -> Everybody] :
        LoopsFrom(f, 0, N, a, step)
  <2>1. 0 \in Int /\ N \in Int
    BY <1>1
  <2> HIDE DEF step, N
  <2> QED
    BY <1>2, <2>1, IntervalRecursion
<1>4. IsChain(f)
  <2>1. ASSUME NEW i \in 0..N, i # 0 PROVE f[i - 1] \in Everybody /\ i \in Int
    <3>1. i \in Int /\ i - 1 \in 0..N
      BY <1>1, <2>1
    <3> QED
      BY <3>1
  <2>2. \A b \in Everybody, i \in Int :
           step[<<b, i>>] = IF voters[b].delegate = Zero THEN b ELSE voters[b].delegate
    OBVIOUS
  <2> HIDE DEF step, N
  <2> QED
    BY <1>3, <2>1, <2>2 DEF LoopsFrom
<1>5. IsChain(at)
  BY <1>4
<1>6. Chain(a) = {at[n] : n \in 0..N}
  <2>1. DOMAIN at = 0..N
    BY <1>5
  <2>2. Chain(a) = {at[n] : n \in DOMAIN at}
    BY DEF Chain
  <2> QED
    BY <2>1, <2>2
<1> HIDE DEF at, step
<1> DEFINE Left(n) == IF n <= depth[a] THEN depth[a] - n ELSE 0
           S == {n \in 0..N : at[n] \in Everybody /\ end[at[n]] = end[a] /\ depth[at[n]] = Left(n)}
<1>7. \A b \in Everybody : depth[b] \in Nat /\ end[b] \in Everybody
  BY DEF Forest
<1>8. 0 \in S
  BY <1>1, <1>5, <1>7
<1>9. ASSUME NEW n \in 0..N - 1, n \in S PROVE n + 1 \in S
  <2> DEFINE b == at[n]
  <2>1. /\ n + 1 \in 0..N /\ n + 1 # 0 /\ (n + 1) - 1 = n
        /\ b \in Everybody /\ end[b] = end[a] /\ depth[b] = Left(n)
    BY <1>1, <1>9
  <2>2. at[n + 1] = IF voters[b].delegate = Zero THEN b ELSE voters[b].delegate
    BY <1>5, <2>1
  <2>3. LeadsTo(delegateOf, end, depth, b) /\ delegateOf[b] = voters[b].delegate
    BY <1>1, <2>1 DEF Forest
  <2> HIDE DEF b
  <2>4. CASE voters[b].delegate = Zero
    <3>1. depth[b] = 0 /\ at[n + 1] = b
      BY <2>2, <2>3, <2>4 DEF LeadsTo
    <3>2. Left(n + 1) = 0
      BY <1>7, <2>1, <3>1
    <3> QED
      BY <2>1, <3>1, <3>2
  <2>5. CASE voters[b].delegate # Zero
    <3> DEFINE c == voters[b].delegate
    <3>1. at[n + 1] = c /\ c \in Everybody /\ depth[b] = depth[c] + 1 /\ end[b] = end[c]
      BY <1>1, <2>1, <2>2, <2>3, <2>5 DEF LeadsTo
    <3> HIDE DEF c
    <3>2. depth[c] \in Nat /\ depth[a] \in Nat
      BY <1>7, <3>1
    <3>3. depth[c] = Left(n + 1)
      BY <2>1, <3>1, <3>2
    <3> QED
      BY <2>1, <3>1, <3>3
  <2> QED
    BY <2>4, <2>5
<1>10. 0..N \subseteq S
  <2>1. 0 \in Int /\ N \in Int
    BY <1>1
  <2> HIDE DEF S, N
  <2> QED
    BY <1>8, <1>9, <2>1, IntervalInduction
<1>11. depth[a] \in 0..N
  <2> DEFINE D == Cardinality(Delegators(delegateOf))
  <2>1. delegateOf \in [Everybody -> Everybody] /\ depth[a] <= D
    BY DEF Forest
  <2>2. D \in 0..N
    BY <2>1, FiniteEverybody
  <2> HIDE DEF D, N
  <2> QED
    BY <1>1, <1>7, <2>1, <2>2
<1>12. ASSUME NEW n \in 0..N, voters[at[n]].delegate = Zero PROVE at[n] = end[a]
  <2>1. at[n] \in Everybody /\ end[at[n]] = end[a]
    BY <1>10
  <2> QED
    BY <1>1, <1>12, <2>1 DEF Forest, LeadsTo
<1>13. at[depth[a]] = end[a] /\ voters[end[a]].delegate = Zero
  <2> DEFINE d == depth[a]
             b == at[d]
  <2>1. b \in Everybody /\ depth[b] = 0 /\ end[b] = end[a]
    <3>1. d \in S
      BY <1>10, <1>11
    <3>2. d \in Nat
      BY <1>7
    <3>3. Left(d) = 0
      BY <3>2
    <3> QED
      BY <3>1, <3>3
  <2>2. LeadsTo(delegateOf, end, depth, b) /\ delegateOf[b] = voters[b].delegate
    BY <1>1, <2>1 DEF Forest
  <2>3. delegateOf[b] # Zero => depth[delegateOf[b]] \in Nat /\ depth[b] = depth[delegateOf[b]] + 1
    BY <1>1, <1>7, <2>1, <2>2 DEF LeadsTo
  <2>4. delegateOf[b] = Zero
    BY <2>1, <2>3
  <2> QED
    BY <2>1, <2>2, <2>4 DEF LeadsTo
<1>14. ASSUME NEW e PROVE e \in Ends(a) <=> e = end[a]
  <2>1. ASSUME e \in Ends(a) PROVE e = end[a]
    <3>1. e \in Chain(a) /\ voters[e].delegate = Zero
      BY <2>1 DEF Ends
    <3>2. PICK n \in 0..N : e = at[n]
      BY <1>6, <3>1
    <3> QED
      BY <1>12, <3>1, <3>2
  <2>2. end[a] \in Chain(a)
    BY <1>6, <1>11, <1>13
  <2>3. end[a] \in Ends(a)
    BY <1>13, <2>2 DEF Ends
  <2> QED
    BY <2>1, <2>3
<1> QED
  BY <1>14

-----------------------------------------------------------------------------
(* The forest grows only at its roots: the sender, who has no delegate,    *)
(* gets another root, and everybody whose chain ended with him moves on.   *)
EndNow(end, sender, e) == [a \in Everybody |-> IF end[a] = sender THEN e ELSE end[a]]
DepthNow(end, depth, sender) ==
    [a \in Everybody |-> IF end[a] = sender THEN depth[a] + 1 ELSE depth[a]]

LEMMA ForestGrows ==
    ASSUME NEW to, NEW end, NEW depth, Forest(to, end, depth),
           NEW sender \in Everybody, NEW e \in Everybody,
           to[sender] = Zero, to[e] = Zero, e # sender, e # Zero
    PROVE  Forest([to EXCEPT ![sender] = e], EndNow(end, sender, e),
                  DepthNow(end, depth, sender))
<1> DEFINE to2 == [to EXCEPT ![sender] = e]
           end2 == EndNow(end, sender, e)
           depth2 == DepthNow(end, depth, sender)
           D == Delegators(to)
           D2 == Delegators(to2)
<1>1. /\ to \in [Everybody -> Everybody] /\ end \in [Everybody -> Everybody]
      /\ depth \in [Everybody -> Nat]
      /\ \A a \in Everybody : LeadsTo(to, end, depth, a) /\ depth[a] <= Cardinality(D)
  BY DEF Forest
<1>2. /\ to2 \in [Everybody -> Everybody] /\ end2 \in [Everybody -> Everybody]
      /\ depth2 \in [Everybody -> Nat]
  BY <1>1 DEF EndNow, DepthNow
<1>3. /\ to2[sender] = e /\ \A a \in Everybody : a # sender => to2[a] = to[a]
      /\ \A a \in Everybody : end2[a] = IF end[a] = sender THEN e ELSE end[a]
      /\ \A a \in Everybody : depth2[a] = IF end[a] = sender THEN depth[a] + 1 ELSE depth[a]
  BY <1>1 DEF EndNow, DepthNow
<1>4. /\ end[sender] = sender /\ depth[sender] = 0 /\ end[e] = e /\ depth[e] = 0
  BY <1>1 DEF LeadsTo
<1>5. D2 = D \cup {sender} /\ sender \notin D
  BY <1>3 DEF Delegators
<1>6. /\ Cardinality(D) \in Nat /\ Cardinality(D2) = Cardinality(D) + 1
  <2>1. IsFiniteSet(D) /\ Cardinality(D) \in 0..Cardinality(Everybody)
    BY <1>1, FiniteEverybody
  <2>2. Cardinality(D) \in Nat
    BY <2>1, FiniteEverybody
  <2> HIDE DEF D, D2
  <2> QED
    BY <1>5, <2>1, <2>2, FS_AddElement
<1> HIDE DEF to2, end2, depth2, D, D2
<1>7. ASSUME NEW a \in Everybody PROVE depth2[a] <= Cardinality(D2)
  <2>1. depth[a] \in Nat /\ depth[a] <= Cardinality(D)
    BY <1>1
  <2> QED
    BY <1>3, <1>6, <2>1
<1>8. ASSUME NEW a \in Everybody PROVE LeadsTo(to2, end2, depth2, a)
  <2>1. LeadsTo(to, end, depth, a)
    BY <1>1
  <2>3. CASE a = sender
    BY <1>3, <1>4, <2>3 DEF LeadsTo
  <2>4. CASE a # sender /\ to[a] = Zero
    BY <1>3, <2>1, <2>4 DEF LeadsTo
  <2>5. CASE a # sender /\ to[a] # Zero
    <3> DEFINE b == to[a]
    <3>1. b \in Everybody /\ depth[b] \in Nat /\ depth[a] = depth[b] + 1 /\ end[a] = end[b]
      BY <1>1, <2>1, <2>5 DEF LeadsTo
    <3>2. to2[a] = b /\ b # Zero
      BY <1>3, <2>5
    <3> HIDE DEF b
    <3>3. depth2[a] = depth2[b] + 1 /\ end2[a] = end2[b]
      BY <1>3, <3>1
    <3> QED
      BY <3>2, <3>3 DEF LeadsTo
  <2> QED
    BY <2>3, <2>4, <2>5
<1> QED
  BY <1>2, <1>7, <1>8 DEF Forest, D2, to2, end2, depth2

-----------------------------------------------------------------------------
(* The invariant of the delegations, for any arguments of delegate(): only *)
(* who has voted has a delegate, and the chains of delegates are a forest. *)
AnyVoter == [weight : Nat, voted : BOOLEAN, delegate : Everybody, vote : 0..Proposals]

VoterInv ==
    /\ voters \in [Everybody -> AnyVoter]
    /\ voteCount \in [Proposal -> Nat]
    /\ \A a \in Everybody : voters[a].delegate # Zero => voters[a].voted
    /\ ~voters[Zero].voted

HasForest == \E end, depth : Forest(delegateOf, end, depth)

ForestInv == VoterInv /\ HasForest

LEMMA InitForest == Init => ForestInv
<1> SUFFICES ASSUME Init PROVE ForestInv
  OBVIOUS
<1>1. chairperson \in Address /\ Zero \notin Address /\ Proposals \in Nat
  BY BallotAssumption
<1>2. \A a \in Everybody : voters[a] = [weight |-> IF a = chairperson THEN 1 ELSE 0,
                                        voted |-> FALSE, delegate |-> Zero, vote |-> 0]
  BY DEF Init, NewVoter
<1>3. voters \in [Everybody -> AnyVoter]
  <2>1. DOMAIN voters = Everybody /\ voters = [a \in Everybody |-> voters[a]]
    BY DEF Init
  <2>2. Zero \in Everybody /\ 0 \in 0..Proposals
    BY <1>1 DEF Everybody
  <2>3. ASSUME NEW a \in Everybody PROVE voters[a] \in AnyVoter
    <3>1. PICK w \in Nat : voters[a] = [weight |-> w, voted |-> FALSE, delegate |-> Zero, vote |-> 0]
      BY <1>2
    <3> QED
      BY <2>2, <3>1 DEF AnyVoter
  <2> QED
    BY <2>1, <2>3
<1>4. VoterInv
  <2>1. Zero \in Everybody
    BY DEF Everybody
  <2>2. voteCount \in [Proposal -> Nat]
    BY DEF Init
  <2> QED
    BY <1>2, <1>3, <2>1, <2>2 DEF VoterInv
<1>5. Forest(delegateOf, [a \in Everybody |-> a], [a \in Everybody |-> 0])
  <2>1. delegateOf = [a \in Everybody |-> Zero] /\ delegateOf \in [Everybody -> Everybody]
    <3>1. ASSUME NEW a \in Everybody PROVE voters[a].delegate = Zero
      <4>1. PICK w : voters[a] = [weight |-> w, voted |-> FALSE, delegate |-> Zero, vote |-> 0]
        BY <1>2
      <4> QED
        BY <4>1
    <3>2. Zero \in Everybody
      BY DEF Everybody
    <3> QED
      BY <3>1, <3>2 DEF delegateOf
  <2>2. Cardinality(Delegators(delegateOf)) \in Nat
    BY <2>1, FiniteEverybody
  <2> QED
    BY <2>1, <2>2 DEF Forest, LeadsTo
<1> QED
  BY <1>4, <1>5 DEF ForestInv, HasForest

(* The accounts after the sender is marked, and after a weight has grown.  *)
SameButWeight(v, u) == v.voted = u.voted /\ v.delegate = u.delegate /\ v.vote = u.vote

Marked(f, sender, e) == [f EXCEPT ![sender].voted = TRUE, ![sender].delegate = e]

MarkOf(v, u, e) == v.voted = TRUE /\ v.delegate = e /\ v.weight = u.weight

LEMMA SenderMarked ==
    ASSUME NEW f \in [Everybody -> AnyVoter], NEW sender \in Everybody, NEW e \in Everybody
    PROVE  /\ Marked(f, sender, e) \in [Everybody -> AnyVoter]
           /\ MarkOf(Marked(f, sender, e)[sender], f[sender], e)
           /\ \A a \in Everybody : a # sender => Marked(f, sender, e)[a] = f[a]
<1> DEFINE r == [[f[sender] EXCEPT !.voted = TRUE] EXCEPT !.delegate = e]
<1>1. f[sender] \in AnyVoter
  OBVIOUS
<1>2. r \in AnyVoter /\ MarkOf(r, f[sender], e)
  BY <1>1 DEF AnyVoter, MarkOf
<1>3. Marked(f, sender, e) = [f EXCEPT ![sender] = r]
  BY DEF Marked
<1> HIDE DEF r
<1>4. /\ Marked(f, sender, e)[sender] = r
      /\ \A a \in Everybody : a # sender => Marked(f, sender, e)[a] = f[a]
  BY <1>3
<1>5. Marked(f, sender, e) \in [Everybody -> AnyVoter]
  BY <1>2, <1>3
<1> QED
  BY <1>2, <1>4, <1>5

LEMMA WeightGrown ==
    ASSUME NEW f \in [Everybody -> AnyVoter], NEW e \in Everybody, NEW w \in Nat,
           NEW more, more = [f EXCEPT ![e].weight = @ + w]
    PROVE  /\ more \in [Everybody -> AnyVoter]
           /\ more[e].weight = f[e].weight + w
           /\ \A a \in Everybody : a # e => more[a] = f[a]
           /\ \A a \in Everybody : SameButWeight(more[a], f[a])
<1> DEFINE r == [f[e] EXCEPT !.weight = @ + w]
<1>1. f[e] \in AnyVoter
  OBVIOUS
<1>2. r \in AnyVoter /\ r.weight = f[e].weight + w /\ SameButWeight(r, f[e])
  BY <1>1 DEF AnyVoter, SameButWeight
<1>3. more = [f EXCEPT ![e] = r]
  OBVIOUS
<1>4. \A a \in Everybody : SameButWeight(f[a], f[a])
  BY DEF SameButWeight
<1> HIDE DEF r
<1> QED
  BY <1>2, <1>3, <1>4

(* What delegate() does: the sender's chain goes on to the end of the      *)
(* chain of the one that was named, and all who followed him go with it.   *)
Joins(sender, e, end, depth) ==
    IF e = Zero THEN delegateOf' = delegateOf
    ELSE /\ delegateOf' = [delegateOf EXCEPT ![sender] = e]
         /\ Forest(delegateOf', EndNow(end, sender, e), DepthNow(end, depth, sender))

DelegateEffect(sender, e, end, depth) ==
    /\ sender \in Everybody /\ e \in Everybody /\ e # sender /\ sender # Zero
    /\ ~voters[sender].voted /\ voters[e].delegate = Zero
    /\ end[sender] = sender /\ end[e] = e
    /\ Joins(sender, e, end, depth)
    /\ voters' \in [Everybody -> AnyVoter]
    /\ \A a \in Everybody : a \notin {e, sender} => voters'[a] = voters[a]
    /\ SameButWeight(voters'[e], voters[e])
    /\ voters'[sender].voted /\ voters'[sender].delegate = e
    /\ voters'[sender].weight = voters[sender].weight
    /\ IF voters[e].voted
       THEN /\ voters'[e] = voters[e] /\ voters[e].vote \in Proposal
            /\ voteCount' = [voteCount EXCEPT ![voters[e].vote] = @ + voters[sender].weight]
       ELSE /\ voters'[e].weight = voters[e].weight + voters[sender].weight
            /\ UNCHANGED voteCount

LEMMA DelegateDoes ==
    ASSUME VoterInv, NEW end, NEW depth, Forest(delegateOf, end, depth),
           NEW sender \in Address, NEW to \in DelegateTo, Delegate(sender, to)
    PROVE  DelegateEffect(sender, end[to], end, depth)
<1> DEFINE e == end[to]
<1>1. to \in Everybody /\ sender \in Everybody /\ Zero \in Everybody /\ sender # Zero
  BY BallotAssumption DEF Everybody
<1>2. Ends(to) = {e} /\ e \in Everybody
  <2>1. ChainsEnd
    BY ChainsDoEnd
  <2> QED
    BY <1>1, <2>1 DEF ChainsEnd, Forest
<1>3. e \in Chain(to) /\ voters[e].delegate = Zero
  BY <1>2 DEF Ends
<1>4. ~voters[sender].voted /\ e # sender
  BY <1>3 DEF Delegate, NoLoop
<1>5. Delegates(to) = {e}
  BY <1>2 DEF Delegates
<1> HIDE DEF e
<1> DEFINE weight == voters[sender].weight
           left == Marked(voters, sender, e)
<1>6. IF left[e].voted
      THEN /\ voters[e].vote \in Proposal /\ voters' = left
           /\ voteCount' = [voteCount EXCEPT ![voters[e].vote] = @ + weight]
      ELSE voters' = [left EXCEPT ![e].weight = @ + weight] /\ UNCHANGED voteCount
  BY <1>5 DEF Delegate, Marked
<1>7. voters \in [Everybody -> AnyVoter] /\ weight \in Nat
  BY <1>1 DEF VoterInv, AnyVoter
<1>8. /\ voters[sender].delegate = Zero /\ delegateOf[sender] = Zero
      /\ delegateOf[e] = Zero
  BY <1>1, <1>2, <1>3, <1>4 DEF VoterInv, delegateOf
<1>9. end[sender] = sender /\ end[e] = e
  BY <1>1, <1>2, <1>8 DEF Forest, LeadsTo
<1>10. /\ left \in [Everybody -> AnyVoter]
       /\ left[sender].voted = TRUE /\ left[sender].delegate = e
       /\ left[sender].weight = weight
       /\ \A a \in Everybody : a # sender => left[a] = voters[a]
  <2>1. voters \in [Everybody -> AnyVoter]
    BY <1>7
  <2>2. sender \in Everybody /\ e \in Everybody
    BY <1>1, <1>2
  <2>3. /\ left \in [Everybody -> AnyVoter] /\ MarkOf(left[sender], voters[sender], e)
        /\ \A a \in Everybody : a # sender => left[a] = voters[a]
    BY <2>1, <2>2, SenderMarked
  <2> HIDE DEF left
  <2> QED
    BY <2>3 DEF MarkOf
<1> HIDE DEF left
<1>11. left[e] = voters[e] /\ SameButWeight(voters[e], voters[e])
  BY <1>2, <1>4, <1>10 DEF SameButWeight
<1>12. /\ voters' \in [Everybody -> AnyVoter]
       /\ \A a \in Everybody : a # e => voters'[a] = left[a]
       /\ SameButWeight(voters'[e], left[e])
       /\ IF voters[e].voted THEN voters'[e] = voters[e]
                             ELSE voters'[e].weight = voters[e].weight + weight
  <2>1. CASE voters[e].voted
    BY <1>2, <1>6, <1>10, <1>11, <2>1
  <2>2. CASE ~voters[e].voted
    <3>1. voters' = [left EXCEPT ![e].weight = @ + weight]
      BY <1>6, <1>11, <2>2
    <3> HIDE DEF weight
    <3>2. /\ voters' \in [Everybody -> AnyVoter] /\ voters'[e].weight = left[e].weight + weight
          /\ \A a \in Everybody : a # e => voters'[a] = left[a]
          /\ \A a \in Everybody : SameButWeight(voters'[a], left[a])
      BY <1>2, <1>7, <1>10, <3>1, WeightGrown
    <3> QED
      BY <1>2, <1>11, <2>2, <3>2
  <2> QED
    BY <2>1, <2>2
<1>13. ASSUME NEW a \in Everybody
       PROVE  voters'[a].delegate = IF a = sender THEN e ELSE voters[a].delegate
  BY <1>1, <1>2, <1>4, <1>10, <1>11, <1>12 DEF SameButWeight
<1>14. delegateOf' = [a \in Everybody |-> IF a = sender THEN e ELSE delegateOf[a]]
  <2>1. delegateOf' = [a \in Everybody |-> voters'[a].delegate]
    BY DEF delegateOf
  <2>2. \A a \in Everybody : delegateOf[a] = voters[a].delegate
    BY DEF delegateOf
  <2> QED
    BY <1>13, <2>1, <2>2
<1>15. Joins(sender, e, end, depth)
  <2>1. CASE e = Zero
    <3>1. delegateOf' = delegateOf
      BY <1>8, <1>14, <2>1 DEF delegateOf
    <3> QED
      BY <2>1, <3>1 DEF Joins
  <2>2. CASE e # Zero
    <3>1. delegateOf' = [delegateOf EXCEPT ![sender] = e]
      BY <1>14 DEF delegateOf
    <3>2. Forest([delegateOf EXCEPT ![sender] = e], EndNow(end, sender, e),
                 DepthNow(end, depth, sender))
      BY <1>1, <1>2, <1>4, <1>8, <2>2, ForestGrows
    <3> QED
      BY <2>2, <3>1, <3>2 DEF Joins
  <2> QED
    BY <2>1, <2>2
<1>16. IF voters[e].voted
       THEN /\ voters[e].vote \in Proposal
            /\ voteCount' = [voteCount EXCEPT ![voters[e].vote] = @ + weight]
       ELSE UNCHANGED voteCount
  BY <1>6, <1>11
<1>17. /\ voters'[sender] = left[sender] /\ SameButWeight(voters'[e], voters[e])
       /\ \A a \in Everybody : a \notin {e, sender} => voters'[a] = voters[a]
  BY <1>1, <1>4, <1>10, <1>11, <1>12
<1> QED
  BY <1>1, <1>2, <1>3, <1>4, <1>9, <1>10, <1>12, <1>15, <1>16, <1>17 DEF DelegateEffect, e

LEMMA DelegateKeepsForest ==
    ASSUME ForestInv, NEW sender \in Address, NEW to \in DelegateTo, Delegate(sender, to)
    PROVE  ForestInv'
<1>1. VoterInv
  BY DEF ForestInv
<1>2. PICK end, depth : Forest(delegateOf, end, depth)
  BY DEF ForestInv, HasForest
<1> DEFINE e == end[to]
<1>3. DelegateEffect(sender, e, end, depth)
  BY <1>1, <1>2, DelegateDoes
<1> HIDE DEF e
<1>4. HasForest'
  <2>1. \/ Forest(delegateOf', end, depth)
        \/ Forest(delegateOf', EndNow(end, sender, e), DepthNow(end, depth, sender))
    BY <1>2, <1>3 DEF DelegateEffect, Joins
  <2> QED
    BY <2>1 DEF HasForest
<1>5. /\ voters[sender] \in AnyVoter /\ voters[sender].weight \in Nat
      /\ voteCount \in [Proposal -> Nat] /\ Zero \in Everybody
  BY <1>1, <1>3 DEF VoterInv, AnyVoter, DelegateEffect, Everybody
<1>6. voteCount' \in [Proposal -> Nat]
  BY <1>3, <1>5 DEF DelegateEffect
<1>7. ASSUME NEW a \in Everybody, voters'[a].delegate # Zero PROVE voters'[a].voted
  BY <1>1, <1>3, <1>7 DEF DelegateEffect, SameButWeight, VoterInv
<1>8. ~voters'[Zero].voted
  BY <1>1, <1>3, <1>5 DEF DelegateEffect, SameButWeight, VoterInv
<1>9. VoterInv'
  BY <1>3, <1>6, <1>7, <1>8 DEF VoterInv, DelegateEffect
<1> QED
  BY <1>4, <1>9 DEF ForestInv

(* Neither giving a right nor a vote has to do with delegates.             *)
GiveEffect(batch) ==
    /\ voters' \in [Everybody -> AnyVoter]
    /\ \A a \in Everybody : SameButWeight(voters'[a], voters[a])
    /\ \A a \in Everybody : IF a \in batch THEN voters'[a].weight = 1
                                           ELSE voters'[a] = voters[a]

LEMMA GiveDoes ==
    ASSUME VoterInv, NEW batch \in SUBSET Address, GiveRightToVote(batch)
    PROVE  GiveEffect(batch)
<1>1. voters \in [Everybody -> AnyVoter]
  BY DEF VoterInv
<1>2. voters' = [a \in Everybody |->
                    IF a \in batch THEN [voters[a] EXCEPT !.weight = 1] ELSE voters[a]]
  BY DEF GiveRightToVote
<1>3. ASSUME NEW v \in AnyVoter
      PROVE  /\ [v EXCEPT !.weight = 1] \in AnyVoter
             /\ SameButWeight([v EXCEPT !.weight = 1], v) /\ SameButWeight(v, v)
             /\ [v EXCEPT !.weight = 1].weight = 1
  BY DEF AnyVoter, SameButWeight
<1> QED
  BY <1>1, <1>2, <1>3 DEF GiveEffect

VoteEffect(sender, p) ==
    /\ sender \in Everybody /\ sender # Zero
    /\ ~voters[sender].voted /\ voters[sender].delegate = Zero
    /\ voters' \in [Everybody -> AnyVoter]
    /\ \A a \in Everybody : a # sender => voters'[a] = voters[a]
    /\ voters'[sender].voted /\ voters'[sender].vote = p
    /\ voters'[sender].delegate = Zero /\ voters'[sender].weight = voters[sender].weight

LEMMA VoteDoes ==
    ASSUME VoterInv, NEW sender \in Address, NEW p \in Proposal, Vote(sender, p)
    PROVE  VoteEffect(sender, p)
<1>1. voters \in [Everybody -> AnyVoter] /\ sender \in Everybody /\ sender # Zero
  BY BallotAssumption DEF VoterInv, Everybody
<1>2. ~voters[sender].voted /\ voters[sender].delegate = Zero
  BY <1>1 DEF Vote, MayVote, VoterInv
<1> DEFINE r == [[voters[sender] EXCEPT !.voted = TRUE] EXCEPT !.vote = p]
<1>3. voters' = [voters EXCEPT ![sender] = r]
  BY DEF Vote
<1>4. p \in 0..Proposals
  BY BallotAssumption DEF Proposal
<1>5. /\ r \in AnyVoter /\ r.voted /\ r.vote = p /\ r.delegate = Zero
      /\ r.weight = voters[sender].weight
  <2>1. voters[sender] \in AnyVoter
    BY <1>1
  <2> QED
    BY <1>2, <1>4, <2>1 DEF AnyVoter
<1> HIDE DEF r
<1> QED
  BY <1>1, <1>2, <1>3, <1>5 DEF VoteEffect

LEMMA StepForest == ForestInv /\ [Next]_vars => ForestInv'
<1> SUFFICES ASSUME ForestInv, [Next]_vars PROVE ForestInv'
  OBVIOUS
<1>1. VoterInv /\ HasForest
  BY DEF ForestInv
<1>2. ASSUME delegateOf' = delegateOf PROVE HasForest'
  BY <1>1, <1>2 DEF HasForest
<1>3. ASSUME NEW batch \in SUBSET Address, GiveRightToVote(batch) PROVE ForestInv'
  <2>1. GiveEffect(batch)
    BY <1>1, <1>3, GiveDoes
  <2>2. delegateOf' = delegateOf
    BY <2>1 DEF GiveEffect, SameButWeight, delegateOf
  <2>3. voteCount' = voteCount /\ Zero \in Everybody
    BY <1>3 DEF GiveRightToVote, Everybody
  <2>4. VoterInv'
    BY <1>1, <2>1, <2>3 DEF GiveEffect, SameButWeight, VoterInv
  <2> QED
    BY <1>2, <2>2, <2>4 DEF ForestInv
<1>4. ASSUME NEW sender \in Address, NEW p \in Proposal, Vote(sender, p) PROVE ForestInv'
  <2>1. VoteEffect(sender, p)
    BY <1>1, <1>4, VoteDoes
  <2>2. delegateOf' = delegateOf
    BY <2>1 DEF VoteEffect, delegateOf
  <2>3. voteCount' \in [Proposal -> Nat]
    <3>1. voters[sender].weight \in Nat
      BY <1>1, <2>1 DEF VoteEffect, VoterInv, AnyVoter
    <3> QED
      BY <1>1, <1>4, <3>1 DEF Vote, VoterInv
  <2>4. VoterInv'
    <3>1. \A a \in Everybody : voters'[a].delegate # Zero => voters'[a].voted
      BY <1>1, <2>1 DEF VoteEffect, VoterInv
    <3>2. ~voters'[Zero].voted
      BY <1>1, <2>1 DEF VoteEffect, VoterInv, Everybody
    <3> QED
      BY <2>1, <2>3, <3>1, <3>2 DEF VoteEffect, VoterInv
  <2> QED
    BY <1>2, <2>2, <2>4 DEF ForestInv
<1>5. CASE UNCHANGED vars
  <2>1. voters' = voters /\ voteCount' = voteCount
    BY <1>5 DEF vars
  <2> QED
    BY <1>1, <2>1 DEF ForestInv, VoterInv, HasForest, delegateOf
<1> QED
  BY <1>3, <1>4, <1>5, DelegateKeepsForest DEF Next

(* Whoever delegated finds somebody at the end of the chain who did not,   *)
(* however delegations follow each other (3_Ballot.sol: the loop of        *)
(* delegate() always ends).                                                *)
THEOREM LoopsNeverClose == Spec => []NoDelegationLoop
<1>1. ForestInv => NoDelegationLoop
  <2> SUFFICES ASSUME ForestInv, NEW a \in Address PROVE Ends(a) # {}
    BY DEF NoDelegationLoop
  <2>1. PICK end, depth : Forest(delegateOf, end, depth)
    BY DEF ForestInv, HasForest
  <2>2. Ends(a) = {end[a]}
    <3>1. ChainsEnd /\ a \in Everybody
      BY ChainsDoEnd DEF Everybody
    <3> QED
      BY <2>1, <3>1 DEF ChainsEnd
  <2> QED
    BY <2>2
<1> QED
  BY <1>1, InitForest, StepForest, PTL DEF Spec

-----------------------------------------------------------------------------
(* The search for the winner.                                              *)
IsBest(best, n) ==
    /\ best.count \in Nat
    /\ \A q \in 0..n - 1 : voteCount[q] <= best.count
    /\ IF n = 0 THEN best.winner = 0 /\ best.count = 0
       ELSE /\ best.winner \in 0..n - 1
            /\ best.count = voteCount[best.winner]
            /\ \A q \in 0..best.winner - 1 : voteCount[q] < best.count

Round(b, n) == IF Ahead(n - 1, b.count) THEN [winner |-> n - 1, count |-> voteCount[n - 1]]
                                        ELSE b

LEMMA RoundKeepsBest ==
    ASSUME voteCount \in [Proposal -> Nat], NEW n \in 0..Proposals - 1,
           NEW b, IsBest(b, n)
    PROVE  IsBest(Round(b, n + 1), n + 1)
<1>1. Proposals \in Nat /\ n \in Nat /\ n \in Proposal /\ (n + 1) - 1 = n
  BY BallotAssumption DEF Proposal
<1>2. voteCount[n] \in Nat /\ b.count \in Nat
  BY <1>1 DEF IsBest
<1>3. CASE voteCount[n] > b.count
  <2> DEFINE c == [winner |-> n, count |-> voteCount[n]]
  <2>1. Round(b, n + 1) = c /\ c.winner = n /\ c.count = voteCount[n]
    BY <1>1, <1>3 DEF Round, Ahead
  <2>2. \A q \in 0..n - 1 : voteCount[q] < voteCount[n] /\ q \in Proposal
    <3>1. ASSUME NEW q \in 0..n - 1 PROVE q \in Proposal
      BY <1>1 DEF Proposal
    <3>2. \A q \in 0..n - 1 : voteCount[q] \in Nat /\ voteCount[q] <= b.count
      BY <3>1 DEF IsBest
    <3> QED
      BY <1>2, <1>3, <3>1, <3>2
  <2> HIDE DEF c
  <2>3. \A q \in 0..n : q = n \/ q \in 0..n - 1
    BY <1>1
  <2>4. \A q \in 0..n : voteCount[q] <= voteCount[n]
    BY <1>2, <2>2, <2>3
  <2> QED
    BY <1>1, <1>2, <2>1, <2>2, <2>4 DEF IsBest
<1>4. CASE ~(voteCount[n] > b.count)
  <2>1. Round(b, n + 1) = b
    BY <1>1, <1>4 DEF Round, Ahead
  <2>2. \A q \in 0..n : q = n \/ q \in 0..n - 1
    BY <1>1
  <2>3. \A q \in 0..n : voteCount[q] <= b.count
    BY <1>2, <1>4, <2>2 DEF IsBest
  <2>4. CASE n = 0
    <3>1. b.winner = 0 /\ b.count = 0 /\ voteCount[0] = 0
      BY <1>2, <1>4, <2>4 DEF IsBest
    <3> QED
      BY <1>2, <2>1, <2>3, <2>4, <3>1 DEF IsBest
  <2>5. CASE n # 0
    <3>1. /\ b.winner \in 0..n - 1 /\ b.count = voteCount[b.winner]
          /\ \A q \in 0..b.winner - 1 : voteCount[q] < b.count
      BY <2>5 DEF IsBest
    <3>2. b.winner \in 0..(n + 1) - 1 /\ n + 1 # 0 /\ (n + 1) - 1 = n
      BY <1>1, <3>1
    <3> QED
      BY <1>2, <2>1, <2>3, <3>1, <3>2 DEF IsBest
  <2> QED
    BY <2>4, <2>5
<1> QED
  BY <1>3, <1>4

LEMMA BestIsFound == VoterInv => WinnerHasMost
<1> SUFFICES ASSUME VoterInv, Proposals > 0
             PROVE  /\ WinningProposal \in Proposal
                    /\ \A p \in Proposal : voteCount[p] <= voteCount[WinningProposal]
                    /\ \A p \in 0..WinningProposal - 1 : voteCount[p] < voteCount[WinningProposal]
  BY DEF WinnerHasMost
<1> DEFINE IsSearch(f) == f = [n \in 0..Proposals |->
                                IF n = 0 THEN [winner |-> 0, count |-> 0]
                                ELSE IF Ahead(n - 1, f[n - 1].count)
                                     THEN [winner |-> n - 1, count |-> voteCount[n - 1]]
                                     ELSE f[n - 1]]
           best == CHOOSE f : IsSearch(f)
           V == [winner : Int, count : Nat \cup {voteCount[n] : n \in Int}]
           start == [winner |-> 0, count |-> 0]
           step == [x \in V \X Int |-> Round(x[1], x[2])]
<1>1. Proposals \in Nat /\ voteCount \in [Proposal -> Nat]
  BY BallotAssumption DEF VoterInv
<1>2. start \in V /\ start.winner = 0 /\ start.count = 0
  OBVIOUS
<1>3. \A b \in V, n \in Int : Round(b, n) \in V
  BY DEF Round
<1> HIDE DEF V
<1>4. step \in [V \X Int -> V] /\ \A b \in V, n \in Int : step[<<b, n>>] = Round(b, n)
  BY <1>3
<1> HIDE DEF step, start
<1>5. PICK f \in [0..Proposals -> V] : LoopsFrom(f, 0, Proposals, start, step)
  <2>1. 0 \in Int /\ Proposals \in Int
    BY <1>1
  <2> QED
    BY <1>2, <1>4, <2>1, IntervalRecursion
<1>6. IsSearch(f)
  <2>1. ASSUME NEW n \in 0..Proposals, n # 0 PROVE step[<<f[n - 1], n>>] = Round(f[n - 1], n)
    <3>1. n \in Int /\ n - 1 \in 0..Proposals
      BY <1>1, <2>1
    <3> QED
      BY <1>4, <3>1
  <2>2. f = [n \in 0..Proposals |-> IF n = 0 THEN start ELSE step[<<f[n - 1], n>>]]
    BY <1>5 DEF LoopsFrom
  <2> QED
    BY <2>1, <2>2 DEF Round, start
<1>7. IsSearch(best)
  BY <1>6
<1>8. WinningProposal = best[Proposals].winner
  BY DEF WinningProposal
<1> HIDE DEF best
<1>9. /\ best[0] = start
      /\ \A n \in 0..Proposals - 1 : best[n + 1] = Round(best[n], n + 1)
  <2>1. \A n \in 0..Proposals - 1 : n + 1 \in 0..Proposals /\ n + 1 # 0 /\ (n + 1) - 1 = n
    BY <1>1
  <2>2. 0 \in 0..Proposals
    BY <1>1
  <2> QED
    BY <1>7, <2>1, <2>2 DEF start, Round
<1> DEFINE S == {n \in 0..Proposals : IsBest(best[n], n)}
<1>10. 0 \in S
  BY <1>1, <1>2, <1>9 DEF IsBest
<1>11. ASSUME NEW n \in 0..Proposals - 1, n \in S PROVE n + 1 \in S
  <2>1. n + 1 \in 0..Proposals /\ IsBest(best[n], n)
    BY <1>1, <1>11
  <2>2. IsBest(Round(best[n], n + 1), n + 1)
    BY <1>1, <2>1, RoundKeepsBest
  <2> QED
    BY <1>9, <2>1, <2>2
<1>12. Proposals \in S
  <2>1. 0 \in Int /\ Proposals \in Int /\ Proposals \in 0..Proposals
    BY <1>1
  <2> HIDE DEF S
  <2> QED
    BY <1>10, <1>11, <2>1, IntervalInduction
<1>13. IsBest(best[Proposals], Proposals)
  BY <1>12
<1> QED
  BY <1>1, <1>8, <1>13 DEF IsBest, Proposal

(* The winner has as many votes as anybody, and the proposals before it    *)
(* have less, in every reachable state (3_Ballot.sol: winningProposal).    *)
THEOREM WinnerIsRight == Spec => []WinnerHasMost
<1>1. ForestInv => WinnerHasMost
  BY BestIsFound DEF ForestInv
<1> QED
  BY <1>1, InitForest, StepForest, PTL DEF Spec

-----------------------------------------------------------------------------
(* The invariant of the counting, for delegations to accounts.  The weight *)
(* of one who has not voted is the number of rights whose chain ends with  *)
(* him; one who has voted voted for what he has cast, unless he delegated. *)
FollowersOf(end, rights, e) == {a \in rights : end[a] = e}
VotesOf(end, rights, votes, p) == {a \in rights : votes[end[a]] = p}

Waiting(end, e) ==
    ~voters[e].voted =>
        voters[e].weight = Cardinality(FollowersOf(end, entitled, e)) /\ cast[e] = NotCast
Done(e) ==
    voters[e].voted /\ voters[e].delegate = Zero => voters[e].vote = cast[e]

Counted(end) ==
    /\ entitled \subseteq Address /\ cast \in [Address -> Proposal \cup {NotCast}]
    /\ end \in [Everybody -> Everybody] /\ \A a \in Address : end[a] \in Address
    /\ \A e \in Address : Waiting(end, e) /\ Done(e)
    /\ \A p \in Proposal : voteCount[p] = Cardinality(VotesOf(end, entitled, cast, p))

CountInv ==
    VoterInv /\ \E end, depth : Forest(delegateOf, end, depth) /\ Counted(end)

\* No vote is withdrawn in a step that changes the ends of the chains.
Keeps(end, end2) ==
    \A p \in Proposal :
        VotesOf(end, entitled, cast, p) \subseteq VotesOf(end2, entitled', cast', p)

Advances(end) ==
    \E end2, depth2 : /\ Forest(delegateOf', end2, depth2)
                      /\ Counted(end2)' /\ Keeps(end, end2)

LEMMA DisjointSum ==
    ASSUME NEW S \in SUBSET Address, NEW T \in SUBSET Address, S \cap T = {}
    PROVE  Cardinality(S \cup T) = Cardinality(S) + Cardinality(T)
<1>1. IsFiniteSet(S) /\ IsFiniteSet(T)
  BY BallotAssumption, FS_Subset
<1>2. Cardinality(S \cup T) = Cardinality(S) + Cardinality(T) - Cardinality(S \cap T)
  BY <1>1, FS_Union
<1>3. Cardinality(S \cap T) = 0
  BY FS_EmptySet
<1>4. Cardinality(S) \in Nat /\ Cardinality(T) \in Nat
  BY <1>1, FS_CardinalityType
<1> QED
  BY <1>2, <1>3, <1>4

LEMMA NobodyCast == NotCast \notin Proposal
  BY DEF NotCast, Proposal

LEMMA InitCount == Init => CountInv
<1> SUFFICES ASSUME Init PROVE CountInv
  OBVIOUS
<1>1. chairperson \in Address /\ Zero \notin Address /\ Proposals \in Nat
  BY BallotAssumption
<1> DEFINE end == [a \in Everybody |-> a]
           depth == [a \in Everybody |-> 0]
<1>2. \A a \in Everybody : /\ voters[a].weight = IF a = chairperson THEN 1 ELSE 0
                           /\ ~voters[a].voted /\ voters[a].delegate = Zero
  BY DEF Init, NewVoter
<1>3. VoterInv
  BY InitForest DEF ForestInv
<1>4. Forest(delegateOf, end, depth)
  <2>1. delegateOf = [a \in Everybody |-> Zero] /\ delegateOf \in [Everybody -> Everybody]
    BY <1>2 DEF delegateOf, Everybody
  <2>2. Cardinality(Delegators(delegateOf)) \in Nat
    BY <2>1, FiniteEverybody
  <2> QED
    BY <2>1, <2>2 DEF Forest, LeadsTo
<1>5. /\ entitled = {chairperson} /\ cast = [a \in Address |-> NotCast]
      /\ voteCount = [p \in Proposal |-> 0]
  BY DEF Init
<1>6. /\ end \in [Everybody -> Everybody] /\ \A a \in Address : a \in Everybody /\ end[a] = a
  BY DEF Everybody
<1> HIDE DEF end
<1>7. ASSUME NEW e \in Address PROVE Waiting(end, e) /\ Done(e)
  <2>1. FollowersOf(end, entitled, e) = IF e = chairperson THEN {chairperson} ELSE {}
    BY <1>1, <1>5, <1>6 DEF FollowersOf
  <2>2. Cardinality(FollowersOf(end, entitled, e)) = IF e = chairperson THEN 1 ELSE 0
    BY <2>1, FS_EmptySet, FS_Singleton
  <2> QED
    BY <1>2, <1>5, <1>6, <2>2 DEF Waiting, Done
<1>8. ASSUME NEW p \in Proposal
      PROVE  voteCount[p] = Cardinality(VotesOf(end, entitled, cast, p))
  <2>1. VotesOf(end, entitled, cast, p) = {}
    BY <1>1, <1>5, <1>6, NobodyCast DEF VotesOf
  <2> QED
    BY <1>5, <2>1, FS_EmptySet
<1>9. Counted(end)
  BY <1>1, <1>5, <1>6, <1>7, <1>8 DEF Counted
<1> QED
  BY <1>3, <1>4, <1>9 DEF CountInv

\* Nothing but the weights of those who had none changes.
LEMMA GiveCounts ==
    ASSUME VoterInv, NEW end, NEW depth, Forest(delegateOf, end, depth), Counted(end),
           NEW batch \in SUBSET Address, GiveRightToVote(batch)
    PROVE  Advances(end)
<1>1. GiveEffect(batch) /\ voteCount' = voteCount /\ cast' = cast
      /\ entitled' = entitled \cup batch
  BY GiveDoes DEF GiveRightToVote
<1>2. Forest(delegateOf', end, depth)
  <2>1. delegateOf' = delegateOf
    BY <1>1 DEF GiveEffect, SameButWeight, delegateOf
  <2> QED
    BY <2>1
<1>3. \A a \in Address : a \in Everybody /\ end[a] \in Address
  BY DEF Counted, Everybody
<1>4. ASSUME NEW a \in batch
      PROVE  /\ ~voters[a].voted /\ end[a] = a /\ cast[a] = NotCast
             /\ FollowersOf(end, entitled, a) = {}
  <2>1. ~voters[a].voted /\ voters[a].weight = 0
    BY DEF GiveRightToVote, MayGetRight
  <2>2. delegateOf[a] = Zero
    BY <1>3, <2>1 DEF VoterInv, delegateOf
  <2>3. end[a] = a
    BY <1>3, <2>2 DEF Forest, LeadsTo
  <2>4. Cardinality(FollowersOf(end, entitled, a)) = 0 /\ cast[a] = NotCast
    BY <2>1 DEF Counted, Waiting
  <2>5. IsFiniteSet(FollowersOf(end, entitled, a))
    BY BallotAssumption, FS_Subset DEF Counted, FollowersOf
  <2> QED
    BY <2>1, <2>3, <2>4, <2>5, FS_EmptySet
<1>5. ASSUME NEW e \in Address PROVE (Waiting(end, e) /\ Done(e))'
  <2>1. Waiting(end, e) /\ Done(e)
    BY DEF Counted
  <2>2. SameButWeight(voters'[e], voters[e])
    BY <1>1, <1>3 DEF GiveEffect
  <2>3. CASE e \in batch
    <3>1. FollowersOf(end, entitled', e) = {e}
      BY <1>1, <1>4, <2>3 DEF FollowersOf
    <3>2. Cardinality(FollowersOf(end, entitled', e)) = 1
      BY <3>1, FS_Singleton
    <3>3. voters'[e].weight = 1
      BY <1>1, <1>3, <2>3 DEF GiveEffect
    <3> QED
      BY <1>1, <2>1, <2>2, <1>4, <2>3, <3>2, <3>3 DEF Waiting, Done, SameButWeight
  <2>4. CASE e \notin batch
    <3>1. FollowersOf(end, entitled', e) = FollowersOf(end, entitled, e)
      BY <1>1, <1>4, <2>4 DEF FollowersOf
    <3>2. voters'[e] = voters[e]
      BY <1>1, <1>3, <2>4 DEF GiveEffect
    <3> QED
      BY <1>1, <2>1, <3>1, <3>2 DEF Waiting, Done
  <2> QED
    BY <2>3, <2>4
<1>6. ASSUME NEW p \in Proposal
      PROVE  VotesOf(end, entitled', cast', p) = VotesOf(end, entitled, cast, p)
  BY <1>1, <1>4, NobodyCast DEF VotesOf
<1>7. Counted(end)'
  BY <1>1, <1>5, <1>6 DEF Counted
<1>8. Keeps(end, end)
  BY <1>6 DEF Keeps
<1> QED
  BY <1>2, <1>7, <1>8 DEF Advances

\* The voter's followers vote with him.
LEMMA VoteCounts ==
    ASSUME VoterInv, NEW end, NEW depth, Forest(delegateOf, end, depth), Counted(end),
           NEW sender \in Address, NEW p \in Proposal, Vote(sender, p)
    PROVE  Advances(end)
<1>1. /\ VoteEffect(sender, p) /\ entitled' = entitled
      /\ cast' = [cast EXCEPT ![sender] = p]
      /\ voteCount' = [voteCount EXCEPT ![p] = @ + voters[sender].weight]
  BY VoteDoes DEF Vote
<1>2. Forest(delegateOf', end, depth)
  <2>1. delegateOf' = delegateOf
    BY <1>1 DEF VoteEffect, delegateOf
  <2> QED
    BY <2>1
<1>3. \A a \in Address : a \in Everybody /\ end[a] \in Address
  BY DEF Counted, Everybody
<1>4. /\ voters[sender].weight = Cardinality(FollowersOf(end, entitled, sender))
      /\ cast[sender] = NotCast
  BY <1>1 DEF Counted, Waiting, VoteEffect
<1>5. /\ cast' \in [Address -> Proposal \cup {NotCast}] /\ cast'[sender] = p
      /\ \A a \in Address : a # sender => cast'[a] = cast[a]
  BY <1>1 DEF Counted
<1>6. ASSUME NEW e \in Address PROVE (Waiting(end, e) /\ Done(e))'
  <2>1. CASE e = sender
    BY <1>1, <1>5, <2>1 DEF VoteEffect, Waiting, Done
  <2>2. CASE e # sender
    <3>1. voters'[e] = voters[e] /\ cast'[e] = cast[e] /\ Waiting(end, e) /\ Done(e)
      BY <1>1, <1>3, <1>5, <2>2 DEF VoteEffect, Counted
    <3> QED
      BY <1>1, <3>1 DEF Waiting, Done
  <2> QED
    BY <2>1, <2>2
<1>7. /\ VotesOf(end, entitled', cast', p) =
             VotesOf(end, entitled, cast, p) \cup FollowersOf(end, entitled, sender)
      /\ VotesOf(end, entitled, cast, p) \cap FollowersOf(end, entitled, sender) = {}
      /\ VotesOf(end, entitled, cast, p) \in SUBSET Address
      /\ FollowersOf(end, entitled, sender) \in SUBSET Address
  <2>1. \A a \in entitled : a \in Address /\ end[a] \in Address
    BY <1>3 DEF Counted
  <2> QED
    BY <1>1, <1>4, <1>5, <2>1, NobodyCast DEF VotesOf, FollowersOf
<1>8. ASSUME NEW q \in Proposal, q # p
      PROVE  VotesOf(end, entitled', cast', q) = VotesOf(end, entitled, cast, q)
  <2>1. \A a \in entitled : end[a] \in Address
    BY <1>3 DEF Counted
  <2> QED
    BY <1>1, <1>4, <1>5, <1>8, <2>1, NobodyCast DEF VotesOf
<1>9. ASSUME NEW q \in Proposal
      PROVE  voteCount'[q] = Cardinality(VotesOf(end, entitled', cast', q))
  <2>1. voteCount[q] = Cardinality(VotesOf(end, entitled, cast, q)) /\ voteCount \in [Proposal -> Nat]
    BY DEF Counted, VoterInv
  <2>2. CASE q = p
    <3>1. Cardinality(VotesOf(end, entitled', cast', p)) =
             Cardinality(VotesOf(end, entitled, cast, p))
             + Cardinality(FollowersOf(end, entitled, sender))
      BY <1>7, DisjointSum
    <3> QED
      BY <1>1, <1>4, <2>1, <2>2, <3>1
  <2>3. CASE q # p
    BY <1>1, <1>8, <2>1, <2>3
  <2> QED
    BY <2>2, <2>3
<1>10. Counted(end)'
  BY <1>1, <1>5, <1>6, <1>9 DEF Counted
<1>11. Keeps(end, end)
  BY <1>7, <1>8 DEF Keeps
<1> QED
  BY <1>2, <1>10, <1>11 DEF Advances

\* The sender's followers go over to the end of the chain: to its weight, if
\* it has not voted, else to the proposal it voted for.
LEMMA DelegateCounts ==
    ASSUME VoterInv, NEW end, NEW depth, Forest(delegateOf, end, depth), Counted(end),
           NEW sender \in Address, NEW to \in DelegateTo \cap Address, Delegate(sender, to)
    PROVE  Advances(end)
<1> DEFINE e == end[to]
           end2 == EndNow(end, sender, e)
           moving == FollowersOf(end, entitled, sender)
<1>1. DelegateEffect(sender, e, end, depth) /\ entitled' = entitled /\ cast' = cast
  BY DelegateDoes DEF Delegate
<1>2. e \in Address /\ e # Zero /\ \A a \in Address : a \in Everybody /\ end[a] \in Address
  BY BallotAssumption DEF Counted, Everybody
<1> HIDE DEF e
<1>3. e # sender /\ end[e] = e /\ end[sender] = sender /\ voters[e].delegate = Zero
  BY <1>1 DEF DelegateEffect
<1>4. Forest(delegateOf', end2, DepthNow(end, depth, sender))
  BY <1>1, <1>2 DEF DelegateEffect, Joins
<1>5. /\ voters[sender].weight = Cardinality(moving) /\ cast[sender] = NotCast
      /\ moving \in SUBSET Address
  BY <1>1 DEF Counted, Waiting, DelegateEffect, FollowersOf
<1>6. /\ end2 \in [Everybody -> Everybody]
      /\ \A a \in Address : end2[a] \in Address
      /\ \A a \in entitled : /\ a \in Address /\ end[a] \in Address
                             /\ end2[a] = IF end[a] = sender THEN e ELSE end[a]
  BY <1>2 DEF Counted, EndNow, Everybody
<1> HIDE DEF end2
<1>7. ASSUME NEW x \in Address, x # sender
      PROVE  FollowersOf(end2, entitled, x) =
                 IF x = e THEN FollowersOf(end, entitled, e) \cup moving
                          ELSE FollowersOf(end, entitled, x)
  BY <1>3, <1>6, <1>7 DEF FollowersOf
<1>8. ASSUME NEW x \in Address PROVE (Waiting(end2, x) /\ Done(x))'
  <2>1. Waiting(end, x) /\ Done(x)
    BY DEF Counted
  <2>2. CASE x = sender
    BY <1>1, <1>2, <2>2 DEF DelegateEffect, Waiting, Done
  <2>3. CASE x = e
    <3>1. SameButWeight(voters'[e], voters[e])
      BY <1>1 DEF DelegateEffect
    <3>2. ASSUME ~voters[e].voted
          PROVE  voters'[e].weight = Cardinality(FollowersOf(end2, entitled, e))
      <4>1. voters'[e].weight = Cardinality(FollowersOf(end, entitled, e)) + Cardinality(moving)
        BY <1>1, <1>5, <2>1, <2>3, <3>2 DEF DelegateEffect, Waiting
      <4>2. /\ FollowersOf(end, entitled, e) \in SUBSET Address
            /\ FollowersOf(end, entitled, e) \cap moving = {}
        BY <1>3, <1>6 DEF FollowersOf
      <4> HIDE DEF moving
      <4> QED
        BY <1>2, <1>3, <1>5, <1>7, <4>1, <4>2, DisjointSum
    <3> QED
      BY <1>1, <2>1, <2>3, <3>1, <3>2 DEF Waiting, Done, SameButWeight
  <2>4. CASE x \notin {e, sender}
    <3>1. voters'[x] = voters[x] /\ FollowersOf(end2, entitled, x) = FollowersOf(end, entitled, x)
      BY <1>1, <1>2, <1>7, <2>4 DEF DelegateEffect
    <3> QED
      BY <1>1, <2>1, <3>1 DEF Waiting, Done
  <2> QED
    BY <2>2, <2>3, <2>4
<1>9. ASSUME NEW p \in Proposal
      PROVE  VotesOf(end2, entitled, cast, p) =
                 IF cast[e] = p THEN VotesOf(end, entitled, cast, p) \cup moving
                                ELSE VotesOf(end, entitled, cast, p)
  BY <1>5, <1>6, NobodyCast DEF VotesOf, FollowersOf
<1>10. ASSUME NEW p \in Proposal
       PROVE  /\ VotesOf(end, entitled, cast, p) \in SUBSET Address
              /\ VotesOf(end, entitled, cast, p) \cap moving = {}
  BY <1>5, <1>6, NobodyCast DEF VotesOf, FollowersOf
<1>11. IF voters[e].voted
       THEN /\ cast[e] \in Proposal
            /\ voteCount' = [voteCount EXCEPT ![cast[e]] = @ + voters[sender].weight]
       ELSE cast[e] = NotCast /\ voteCount' = voteCount
  <2>1. Waiting(end, e) /\ Done(e)
    BY <1>2 DEF Counted
  <2> QED
    BY <1>1, <1>3, <2>1 DEF DelegateEffect, Waiting, Done
<1>12. ASSUME NEW p \in Proposal
       PROVE  voteCount'[p] = Cardinality(VotesOf(end2, entitled, cast, p))
  <2>1. voteCount[p] = Cardinality(VotesOf(end, entitled, cast, p)) /\ voteCount \in [Proposal -> Nat]
    BY DEF Counted, VoterInv
  <2>2. CASE cast[e] = p
    <3>1. voteCount'[p] = voteCount[p] + Cardinality(moving)
      BY <1>5, <1>11, <2>1, <2>2, NobodyCast
    <3> HIDE DEF moving
    <3> QED
      BY <1>5, <1>9, <1>10, <2>1, <2>2, <3>1, DisjointSum
  <2>3. CASE cast[e] # p
    BY <1>9, <1>11, <2>1, <2>3
  <2> QED
    BY <2>2, <2>3
<1>13. Counted(end2)'
  BY <1>1, <1>6, <1>8, <1>12 DEF Counted
<1>14. Keeps(end, end2)
  BY <1>1, <1>9 DEF Keeps
<1> QED
  BY <1>4, <1>13, <1>14 DEF Advances

-----------------------------------------------------------------------------
(* The sets of the properties, by the ends of the chains.                  *)
SupportersAre ==
    \A end, depth :
        Forest(delegateOf, end, depth) /\ entitled \subseteq Address
        /\ (\A a \in Address : end[a] \in Address)
        => \A p \in Proposal : Supporters(p) = VotesOf(end, entitled, cast, p)

LEMMA SupportersByEnd == SupportersAre
<1> SUFFICES ASSUME NEW end, NEW depth, Forest(delegateOf, end, depth), NEW p \in Proposal,
                    entitled \subseteq Address, \A a \in Address : end[a] \in Address
             PROVE  Supporters(p) = VotesOf(end, entitled, cast, p)
  BY DEF SupportersAre
<1>1. \A a \in entitled : a \in Address /\ Ends(a) \cap Address = {end[a]}
  <2>1. \A a \in Address : a \in Everybody /\ end[a] \in Address
    BY DEF Everybody
  <2>2. \A a \in Everybody : Ends(a) = {end[a]}
    BY ChainsDoEnd DEF ChainsEnd
  <2> QED
    BY <2>1, <2>2
<1> QED
  BY <1>1 DEF Supporters, VotesOf

\* Every step keeps the invariant, and every vote.
OnlyAccounts == Zero \notin DelegateTo

LEMMA StepCounts ==
    ASSUME OnlyAccounts, VoterInv, NEW end, NEW depth, Forest(delegateOf, end, depth),
           Counted(end), [Next]_vars
    PROVE  Advances(end)
<1>1. CASE \E batch \in SUBSET Address \ {{}} : GiveRightToVote(batch)
  BY <1>1, GiveCounts
<1>2. CASE \E sender \in Address, to \in DelegateTo : Delegate(sender, to)
  <2>1. \A to \in DelegateTo : to \in DelegateTo \cap Address
    BY BallotAssumption DEF OnlyAccounts
  <2> QED
    BY <1>2, <2>1, DelegateCounts
<1>3. CASE \E sender \in Address, p \in Proposal : Vote(sender, p)
  BY <1>3, VoteCounts
<1>4. CASE UNCHANGED vars
  <2>1. voters' = voters /\ voteCount' = voteCount /\ entitled' = entitled /\ cast' = cast
    BY <1>4 DEF vars
  <2>2. Forest(delegateOf', end, depth) /\ Counted(end)' /\ Keeps(end, end)
    BY <2>1 DEF delegateOf, Counted, Waiting, Done, Keeps
  <2> QED
    BY <2>2 DEF Advances
<1> QED
  BY <1>1, <1>2, <1>3, <1>4 DEF Next

LEMMA StepCount == OnlyAccounts /\ CountInv /\ [Next]_vars => CountInv'
<1> SUFFICES ASSUME OnlyAccounts, CountInv, [Next]_vars PROVE CountInv'
  OBVIOUS
<1>1. PICK end, depth : Forest(delegateOf, end, depth) /\ Counted(end)
  BY DEF CountInv
<1>2. Advances(end)
  BY <1>1, StepCounts DEF CountInv
<1>3. ForestInv'
  BY <1>1, StepForest DEF CountInv, ForestInv, HasForest
<1> QED
  BY <1>2, <1>3 DEF CountInv, Advances, ForestInv

(* The votes of a proposal are the rights that chains of delegates lead to *)
(* a vote for it, for any order of rights, votes and delegations to        *)
(* accounts (3_Ballot.sol: delegate, vote); address(0) as a delegate takes *)
(* its votes out of the count.                                             *)
THEOREM EveryRightCounts ==
    ASSUME OnlyAccounts
    PROVE  Spec => []RightsAreCounted
<1>1. CountInv => RightsAreCounted
  <2> SUFFICES ASSUME CountInv, NEW p \in Proposal
               PROVE  voteCount[p] = Cardinality(Supporters(p))
    BY DEF RightsAreCounted
  <2>1. PICK end, depth : Forest(delegateOf, end, depth) /\ Counted(end)
    BY DEF CountInv
  <2>2. Supporters(p) = VotesOf(end, entitled, cast, p)
    BY <2>1, SupportersByEnd DEF SupportersAre, Counted
  <2> QED
    BY <2>1, <2>2 DEF Counted
<1>2. CountInv /\ [Next]_vars => CountInv'
  BY StepCount
<1> QED
  BY <1>1, <1>2, InitCount, PTL DEF Spec

(* A right that was used for a proposal stays there: no later vote,        *)
(* delegation or right of anybody moves or withdraws it (3_Ballot.sol:     *)
(* delegate, where the delegate has voted).                                *)
THEOREM SupportIsKept ==
    ASSUME OnlyAccounts
    PROVE  Spec => SupportStays
<1>1. CountInv /\ [Next]_vars /\ SupportersAre /\ SupportersAre'
        => [\A p \in Proposal : Supporters(p) \subseteq Supporters(p)']_vars
  <2> SUFFICES ASSUME CountInv, [Next]_vars, SupportersAre, SupportersAre', NEW p \in Proposal
               PROVE  Supporters(p) \subseteq Supporters(p)'
    OBVIOUS
  <2>1. PICK end, depth : Forest(delegateOf, end, depth) /\ Counted(end)
    BY DEF CountInv
  <2>2. PICK end2, depth2 : /\ Forest(delegateOf', end2, depth2)
                            /\ Counted(end2)' /\ Keeps(end, end2)
    BY <2>1, StepCounts DEF CountInv, Advances
  <2>3. Supporters(p) = VotesOf(end, entitled, cast, p)
    BY <2>1 DEF SupportersAre, Counted
  <2>4. Supporters(p)' = VotesOf(end2, entitled', cast', p)
    BY <2>2 DEF SupportersAre, Counted
  <2> QED
    BY <2>2, <2>3, <2>4 DEF Keeps
<1>2. CountInv /\ [Next]_vars => CountInv'
  BY StepCount
<1> QED
  BY <1>1, <1>2, InitCount, SupportersByEnd, PTL DEF Spec, SupportStays
=============================================================================
