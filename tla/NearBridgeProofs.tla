-------------------------- MODULE NearBridgeProofs --------------------------
(* What TLAPS proves of NearBridge, for every set of blocks, accounts and  *)
(* producers that satisfies the assumptions of that module.                *)
EXTENDS NearBridge, Induction

-----------------------------------------------------------------------------
(* The stakes of some producers add up to a number.                        *)

LEMMA SumIsNat ==
    ASSUME NEW D, IsFiniteSet(D), NEW w \in [D -> Nat]
    PROVE  SumOf(w) \in Nat
<1> DEFINE IsSum(g) == g = [s \in SUBSET D |->
                              IF s = {} THEN 0
                              ELSE w[CHOOSE x \in s : TRUE] + g[s \ {CHOOSE x \in s : TRUE}]]
           sum == CHOOSE g : IsSum(g)
<1>1. SumOf(w) = sum[D]
  <2>1. DOMAIN w = D
    OBVIOUS
  <2> QED
    BY <2>1 DEF SumOf, FoldFunction, FoldFunctionOnSet, MapThenFoldSet
<1>2. ASSUME NEW g PROVE IsSum(g) <=> Sums(g, w, D)
  BY DEF Sums, SumStep, Some
<1> HIDE DEF IsSum
<1>3. IsSum(sum)
  <2>1. PICK g : Sums(g, w, D)
    BY SumsExist
  <2>2. IsSum(g)
    BY <1>2, <2>1
  <2> QED
    BY <2>2
<1> HIDE DEF sum
<1>4. Sums(sum, w, D)
  BY <1>2, <1>3
<1> QED
  BY <1>1, <1>4, SumsAreNat

LEMMA StakesAddUp ==
    ASSUME NEW bps \in Seq(Producer), NEW S \in SUBSET DOMAIN Stakes(bps)
    PROVE  SumOf([i \in S |-> bps[i + 1].stake]) \in Nat
<1> DEFINE w == [i \in S |-> bps[i + 1].stake]
<1>1. Len(bps) \in Nat /\ S \subseteq 0 .. Len(bps) - 1
  BY DEF Stakes
<1>2. IsFiniteSet(S)
  <2>1. 0 \in Int /\ Len(bps) - 1 \in Int
    BY <1>1
  <2>2. IsFiniteSet(0 .. Len(bps) - 1)
    BY <2>1, FS_Interval
  <2> QED
    BY <1>1, <2>2, FS_Subset
<1>3. w \in [S -> Nat]
  <2>1. \A i \in S : i + 1 \in 1 .. Len(bps)
    BY <1>1
  <2>2. \A i \in S : bps[i + 1] \in Producer
    BY <2>1, ElementOfSeq
  <2> QED
    BY <2>2 DEF Producer
<1> HIDE DEF w
<1>4. SumOf(w) \in Nat
  BY <1>2, <1>3, SumIsNat
<1> QED
  BY <1>4 DEF w

LEMMA TotalAddsUp ==
    ASSUME NEW bps \in Seq(Producer)
    PROVE  SumOf(Stakes(bps)) \in Nat
<1>1. Stakes(bps) = [i \in DOMAIN Stakes(bps) |-> bps[i + 1].stake]
  BY DEF Stakes
<1>2. SumOf([i \in DOMAIN Stakes(bps) |-> bps[i + 1].stake]) \in Nat
  BY StakesAddUp
<1> QED
  BY <1>1, <1>2

-----------------------------------------------------------------------------
(* Operators.                                                              *)

LEMMA SlotType ==
    ASSUME NEW c \in 0..2, NEW k \in 0..2
    PROVE  Slot(c, k) \in 0..2
BY DEF Slot

\* The three epochs of the ring are different.
LEMMA SlotsDiffer ==
    ASSUME NEW c \in 0..2
    PROVE  /\ Slot(c, 0) = c /\ Slot(c, 1) # c /\ Slot(c, 2) # c
           /\ Slot(c, 1) # Slot(c, 2)
           /\ Slot(Slot(c, 1), 1) = Slot(c, 2) /\ Slot(Slot(c, 1), 2) = c
BY DEF Slot

LEMMA ThresholdType ==
    ASSUME NEW total \in Nat
    PROVE  Threshold(total) \in Nat
BY DEF Threshold

LEMMA EmptyEpochType == EmptyEpoch \in Epoch
BY DurationAssumption DEF EmptyEpoch, Epoch, Index, Pair

\* setBlockProducers fills an epoch with a list it has room for.
LEMMA SetBlockProducersType ==
    ASSUME NEW epoch \in Epoch, NEW bps \in Seq(Producer),
           Len(bps) <= MaxBlockProducers, SumOf(Stakes(bps)) \in Nat
    PROVE  /\ SetBlockProducers(epoch, bps) \in Epoch
           /\ SetBlockProducers(epoch, bps).numBPs = Len(bps)
<1> DEFINE cnt == Len(bps)
<1> DEFINE keys == [i \in Index |-> IF i < cnt THEN bps[i + 1].key ELSE epoch.keys[i]]
<1> DEFINE stakes ==
        [w \in Index |->
            IF 2 * w >= cnt THEN epoch.packedStakes[w]
            ELSE [high |-> bps[2 * w + 1].stake,
                  low |-> IF 2 * w + 1 = cnt THEN 0 ELSE bps[2 * w + 2].stake]]
<1>1. cnt \in 0..MaxBlockProducers
  BY DurationAssumption
<1>0. \A j \in 1..cnt : bps[j].key \in Key /\ bps[j].stake \in Nat
  <2> TAKE j \in 1..cnt
  <2>1. bps[j] \in Producer
    OBVIOUS
  <2> QED BY <2>1 DEF Producer
<1>2. keys \in [Index -> Key \cup {NoKey}]
  <2> SUFFICES ASSUME NEW i \in Index PROVE keys[i] \in Key \cup {NoKey}
    OBVIOUS
  <2>1. CASE i < cnt
    <3>1. i \in Nat /\ i + 1 \in 1..cnt
      BY <2>1, <1>1, DurationAssumption DEF Index
    <3> QED BY <1>0, <2>1, <3>1
  <2>2. CASE ~(i < cnt)
    BY <2>2 DEF Epoch
  <2> QED BY <2>1, <2>2
<1>3. stakes \in [Index -> Pair]
  <2> SUFFICES ASSUME NEW w \in Index PROVE stakes[w] \in Pair
    OBVIOUS
  <2>1. CASE 2 * w >= cnt
    BY <2>1 DEF Epoch
  <2>2. CASE 2 * w < cnt
    <3>1. w \in Nat /\ 2 * w + 1 \in 1..cnt
      BY <2>2, <1>1, DurationAssumption DEF Index
    <3>2. bps[2 * w + 1].stake \in Nat
      BY <1>0, <3>1
    <3>3. 2 * w + 1 # cnt => bps[2 * w + 2].stake \in Nat
      <4> HAVE 2 * w + 1 # cnt
      <4>1. 2 * w + 2 \in 1..cnt
        BY <3>1, <1>1, DurationAssumption
      <4>2. bps[(2 * w + 2)].stake \in Nat
        BY <1>0, <4>1
      <4> QED BY <4>2
    <3> QED BY <2>2, <3>1, <3>2, <3>3, <1>1 DEF Pair
  <2> QED BY <2>1, <2>2, <1>1, DurationAssumption DEF Index
<1>4. Threshold(SumOf(Stakes(bps))) \in Nat
  BY ThresholdType
<1>5. SetBlockProducers(epoch, bps) =
        [epoch EXCEPT !.numBPs = cnt, !.keys = keys, !.packedStakes = stakes,
                      !.stakeThreshold = Threshold(SumOf(Stakes(bps)))]
  BY DEF SetBlockProducers, Epoch
<1> HIDE DEF cnt, keys, stakes
<1>6. SetBlockProducers(epoch, bps).numBPs = cnt
  BY <1>5 DEF Epoch
<1> QED
  BY <1>1, <1>2, <1>3, <1>4, <1>5, <1>6 DEF Epoch, cnt

-----------------------------------------------------------------------------
(* Type correctness.                                                       *)

LEMMA BlockFacts ==
    ASSUME NEW b \in NearBlock
    PROVE  /\ b.height \in Height /\ b.height \in Nat /\ b.timestamp \in Nat
           /\ b.epochId \in EpochId /\ b.nextEpochId \in EpochId
           /\ b.nextBps \in Seq(Producer)
           /\ b.approvals \in Seq(Key \cup {NoKey})
           /\ SumOf(Stakes(b.nextBps)) \in Nat
BY NearAssumption, TotalAddsUp DEF BlockType, Height

LEMMA TotalStakeType ==
    ASSUME NEW e \in EpochId
    PROVE  /\ ProducersOf[e] \in Seq(Producer)
           /\ Len(ProducersOf[e]) \in 1..MaxBlockProducers
           /\ SumOf(Stakes(ProducersOf[e])) \in Nat
BY NearAssumption, TotalAddsUp

LEMMA GenesisFacts ==
    /\ Genesis \in NearBlock /\ Genesis.nextBps = ProducersOf[Genesis.nextEpochId]
    /\ Len(Genesis.nextBps) <= MaxBlockProducers
<1>1. Genesis \in NearBlock /\ Genesis.nextBps = ProducersOf[Genesis.nextEpochId]
  BY NearAssumption
<1>2. Len(ProducersOf[Genesis.nextEpochId]) \in 1..MaxBlockProducers
  BY <1>1, BlockFacts, TotalStakeType
<1> QED BY <1>1, <1>2, DurationAssumption

\* A commit takes over the head's epoch and height.
LEMMA CommitTypes ==
    ASSUME TypeOK
    PROVE  CommittedEpoch \in 0..2 /\ CommittedHeight \in Nat
<1>1. untrusted.height \in Nat
  BY BlockFacts DEF TypeOK
<1> QED BY <1>1, SlotType DEF TypeOK, CommittedEpoch, CommittedHeight

LEMMA TypeInit == Init => TypeOK
<1> HAVE Init
<1>1. epochs \in [0..2 -> Epoch]
  BY EmptyEpochType DEF Init
<1>2. /\ balanceOf \in [Account -> {0, LockEthAmount}] /\ held \in Nat
      /\ lastValidAt \in Nat /\ lastSubmitter \in Account \cup {NoAccount}
  BY DEF Init
<1>3. /\ untrusted \in NearBlock /\ untrustedNextEpoch \in BOOLEAN
      /\ untrustedSignatureSet \in SUBSET Index
  BY GenesisFacts DEF Init
<1>4. curEpoch \in 0..2 /\ curHeight \in Nat
  BY DEF Init
<1>7. initialized \in BOOLEAN
  BY Zenon DEF Init
<1>5. blocks_ \in [Height -> NearBlock \cup {NoBlock}]
  BY DEF Init
<1>6. paused \in SUBSET Flags /\ now \in Nat
  BY DEF Init
<1> QED BY <1>1, <1>2, <1>3, <1>4, <1>5, <1>6, <1>7 DEF TypeOK

LEMMA TypeAddLightClientBlock ==
    ASSUME TypeOK, NEW a \in Account, NEW b \in NearBlock, NEW n \in BOOLEAN,
           AddLightClientBlock(a, b, n)
    PROVE  TypeOK'
<1> DEFINE this == epochs[IF n THEN Slot(CommittedEpoch, 1) ELSE CommittedEpoch]
<1>1. CommittedEpoch \in 0..2 /\ CommittedHeight \in Nat
  BY CommitTypes
<1>2. this \in Epoch
  BY <1>1, SlotType DEF TypeOK
<1>3. untrustedSignatureSet' \in SUBSET Index
  <2>1. this.numBPs \in 0..MaxBlockProducers
    BY <1>2 DEF Epoch
  <2>2. untrustedSignatureSet' \subseteq 0..this.numBPs - 1
    BY DEF AddLightClientBlock, SignatureSet
  <2> HIDE DEF this
  <2> QED BY <2>1, <2>2, DurationAssumption DEF Index
<1>4. epochs' \in [0..2 -> Epoch]
  <2>1. CASE ~n
    BY <2>1 DEF AddLightClientBlock, TypeOK
  <2>2. CASE n
    <3> DEFINE filled == SetBlockProducers(epochs[SpareSlot], b.nextBps)
    <3>1. SpareSlot \in 0..2
      BY <1>1, SlotType DEF SpareSlot
    <3>2. epochs[SpareSlot] \in Epoch
      BY <3>1 DEF TypeOK
    <3>3. Len(b.nextBps) <= MaxBlockProducers
      BY <2>2 DEF AddLightClientBlock
    <3>4. filled \in Epoch
      BY <3>2, <3>3, BlockFacts, SetBlockProducersType
    <3>5. epochs' = [epochs EXCEPT ![SpareSlot] =
                        [filled EXCEPT !.epochId = b.nextEpochId]]
      BY <2>2, <3>1 DEF AddLightClientBlock, TypeOK
    <3> HIDE DEF filled
    <3>6. [filled EXCEPT !.epochId = b.nextEpochId] \in Epoch
      BY <3>4, BlockFacts DEF Epoch
    <3> QED BY <3>1, <3>5, <3>6 DEF TypeOK
  <2> QED BY <2>1, <2>2
<1>5. blocks_' \in [Height -> NearBlock \cup {NoBlock}]
  BY BlockFacts DEF AddLightClientBlock, TypeOK
<1>6. curHeight' \in Nat /\ curEpoch' \in 0..2
  BY <1>1 DEF AddLightClientBlock
<1>7. lastValidAt' \in Nat /\ lastSubmitter' \in Account \cup {NoAccount}
      /\ untrusted' \in NearBlock /\ untrustedNextEpoch' \in BOOLEAN
  BY DurationAssumption DEF AddLightClientBlock, TypeOK
<1> QED BY <1>3, <1>4, <1>5, <1>6, <1>7
        DEF TypeOK, AddLightClientBlock, moneyVars

LEMMA TypeStep ==
    ASSUME TypeOK, [Next]_vars
    PROVE  TypeOK'
<1>1. ASSUME NEW a \in Account, Deposit(a) PROVE TypeOK'
  BY <1>1, DurationAssumption DEF Deposit, TypeOK, headVars, chainVars
<1>2. ASSUME NEW a \in Account, Withdraw(a) PROVE TypeOK'
  <2>1. held' \in Nat
    BY <1>2, DurationAssumption DEF Withdraw, TypeOK
  <2> QED BY <1>2, <2>1, DurationAssumption DEF Withdraw, TypeOK, headVars, chainVars
<1>3. ASSUME NEW i \in Index, Challenge(i) PROVE TypeOK'
  <2>1. held' \in Nat
    BY <1>3, DurationAssumption DEF Challenge, TypeOK
  <2>2. balanceOf' \in [Account -> {0, LockEthAmount}]
    <3>1. balanceOf' = [balanceOf EXCEPT ![lastSubmitter] = @ - LockEthAmount]
      BY <1>3 DEF Challenge, Seize
    <3>2. lastSubmitter \in Account => balanceOf[lastSubmitter] - LockEthAmount = 0
      BY <1>3, DurationAssumption DEF Challenge, TypeOK
    <3> QED BY <3>1, <3>2 DEF TypeOK
  <2> QED BY <1>3, <2>1, <2>2 DEF Challenge, TypeOK, chainVars
<1>4. CASE InitWithValidators
  <2> DEFINE filled == SetBlockProducers(epochs[0], ProducersOf[Genesis.epochId])
  <2>1. Genesis.epochId \in EpochId
    BY GenesisFacts, BlockFacts
  <2>2. Len(ProducersOf[Genesis.epochId]) <= MaxBlockProducers
    BY <2>1, TotalStakeType, DurationAssumption
  <2>3. filled \in Epoch
    BY <2>1, <2>2, TotalStakeType, SetBlockProducersType DEF TypeOK
  <2>4. epochs' = [epochs EXCEPT ![0] = filled]
    BY <1>4 DEF InitWithValidators, TypeOK
  <2> HIDE DEF filled
  <2> QED BY <1>4, <2>3, <2>4 DEF InitWithValidators, TypeOK, moneyVars, headVars
<1>5. CASE InitWithBlock
  <2> DEFINE filled == SetBlockProducers(epochs[1], Genesis.nextBps)
  <2>1. filled \in Epoch
    BY GenesisFacts, BlockFacts, SetBlockProducersType DEF TypeOK
  <2>2. epochs' = [epochs EXCEPT ![0].epochId = Genesis.epochId,
                        ![1] = [filled EXCEPT !.epochId = Genesis.nextEpochId]]
    BY <1>5 DEF InitWithBlock, TypeOK
  <2> HIDE DEF filled
  <2>3. [filled EXCEPT !.epochId = Genesis.nextEpochId] \in Epoch
    BY <2>1, GenesisFacts, BlockFacts DEF Epoch
  <2>6. [epochs[0] EXCEPT !.epochId = Genesis.epochId] \in Epoch
    <3>1. epochs[0] \in Epoch
      BY DEF TypeOK
    <3> QED BY <3>1, GenesisFacts, BlockFacts DEF Epoch
  <2>4. epochs' \in [0..2 -> Epoch]
    BY <2>2, <2>3, <2>6 DEF TypeOK
  <2>5. blocks_' \in [Height -> NearBlock \cup {NoBlock}] /\ curHeight' \in Nat
    BY <1>5, GenesisFacts, BlockFacts DEF InitWithBlock, TypeOK
  <2> QED BY <1>5, <2>4, <2>5 DEF InitWithBlock, TypeOK, moneyVars, headVars
<1>6. ASSUME NEW a \in Account, NEW b \in NearBlock, NEW n \in BOOLEAN,
             AddLightClientBlock(a, b, n)
      PROVE  TypeOK'
  BY <1>6, TypeAddLightClientBlock
<1>7. CASE Tick
  BY <1>7 DEF Tick, TypeOK, moneyVars, headVars, chainVars
<1>8. CASE AdminPause
  BY <1>8 DEF AdminPause, TypeOK, moneyVars, headVars, chainVars
<1>9. CASE UNCHANGED vars
  BY <1>9 DEF TypeOK, vars, moneyVars, headVars, chainVars
<1> QED BY <1>1, <1>2, <1>3, <1>4, <1>5, <1>6, <1>7, <1>8, <1>9 DEF Next

(* The state keeps its types: in particular the signature set and the      *)
(* producers of every epoch stay within MAX_BLOCK_PRODUCERS.               *)
THEOREM TypeCorrect == Spec => []TypeOK
<1>1. Init => TypeOK
  BY TypeInit
<1>2. TypeOK /\ [Next]_vars => TypeOK'
  BY TypeStep
<1> QED BY <1>1, <1>2, PTL DEF Spec

-----------------------------------------------------------------------------
(* Deposits.                                                               *)

LEMMA ChallengeIsPaidStep ==
    ASSUME TypeOK, ChallengeIsPaid, [Next]_vars
    PROVE  ChallengeIsPaid'
<1> USE DurationAssumption DEF TypeOK, ChallengeIsPaid
<1>1. ASSUME NEW a \in Account, Deposit(a) PROVE ChallengeIsPaid'
  BY <1>1 DEF Deposit, headVars
<1>2. ASSUME NEW a \in Account, Withdraw(a) PROVE ChallengeIsPaid'
  BY <1>2 DEF Withdraw, MayWithdraw, headVars
<1>3. ASSUME NEW i \in Index, Challenge(i) PROVE ChallengeIsPaid'
  BY <1>3 DEF Challenge
<1>4. CASE InitWithValidators
  BY <1>4 DEF InitWithValidators, moneyVars, headVars
<1>5. CASE InitWithBlock
  BY <1>5 DEF InitWithBlock, moneyVars, headVars
<1>6. ASSUME NEW a \in Account, NEW b \in NearBlock, NEW n \in BOOLEAN,
             AddLightClientBlock(a, b, n)
      PROVE  ChallengeIsPaid'
  BY <1>6 DEF AddLightClientBlock, moneyVars
<1>7. CASE Tick
  BY <1>7 DEF Tick, moneyVars, headVars
<1>8. CASE AdminPause
  BY <1>8 DEF AdminPause, moneyVars, headVars
<1>9. CASE UNCHANGED vars
  BY <1>9 DEF vars, moneyVars, headVars
<1> QED BY <1>1, <1>2, <1>3, <1>4, <1>5, <1>6, <1>7, <1>8, <1>9 DEF Next

(* A head that can be challenged can be challenged with success: its       *)
(* submitter's deposit is there to be taken.                               *)
THEOREM ChallengesArePaid == Spec => []ChallengeIsPaid
<1>1. Init => ChallengeIsPaid
  BY DEF Init, ChallengeIsPaid
<1>2. TypeOK /\ ChallengeIsPaid /\ [Next]_vars => ChallengeIsPaid'
  BY ChallengeIsPaidStep
<1> QED BY <1>1, <1>2, TypeCorrect, PTL DEF Spec

LEMMA DepositorsFinite ==
    ASSUME TypeOK
    PROVE  IsFiniteSet(Depositors) /\ Cardinality(Depositors) \in Nat
<1>1. Depositors \in SUBSET Account
  BY DEF Depositors
<1> QED BY <1>1, FS_Subset, FS_CardinalityType, NearAssumption

\* One deposit more or less.
LEMMA OneDeposit ==
    ASSUME NEW n \in Nat
    PROVE  /\ LockEthAmount * n \in Nat
           /\ LockEthAmount * (n + 1) = LockEthAmount * n + LockEthAmount
           /\ n > 0 => LockEthAmount * (n - 1) = LockEthAmount * n - LockEthAmount
BY DurationAssumption

LEMMA SolventStep ==
    ASSUME TypeOK, ChallengeIsPaid, Solvent, [Next]_vars
    PROVE  Solvent'
<1> DEFINE n == Cardinality(Depositors)
<1>0. IsFiniteSet(Depositors) /\ n \in Nat
  BY DepositorsFinite
<1>1. held \in Nat /\ held >= LockEthAmount * n
  BY DEF TypeOK, Solvent
<1>a. ASSUME NEW a \in Depositors, balanceOf' = [balanceOf EXCEPT ![a] = 0]
      PROVE  Cardinality(Depositors') = n - 1 /\ n > 0
  <2>1. Depositors' = Depositors \ {a}
    BY <1>a DEF Depositors, TypeOK
  <2>2. n # 0
    BY <1>0, <1>a, FS_EmptySet
  <2> QED BY <1>0, <1>a, <2>1, <2>2, FS_RemoveElement
<1>2. ASSUME NEW a \in Account, Deposit(a) PROVE Solvent'
  <2>1. Depositors' = Depositors \cup {a} /\ a \notin Depositors
    BY <1>2, DurationAssumption DEF Deposit, Depositors, TypeOK
  <2>2. Cardinality(Depositors') = n + 1
    BY <2>1, <1>0, FS_AddElement
  <2>3. held' = held + LockEthAmount
    BY <1>2 DEF Deposit
  <2> HIDE DEF n
  <2> QED BY <1>0, <1>1, <2>2, <2>3, OneDeposit, DurationAssumption DEF Solvent
<1>3. ASSUME NEW a \in Account, Withdraw(a) PROVE Solvent'
  <2>1. a \in Depositors /\ balanceOf[a] = LockEthAmount
    BY <1>3 DEF Withdraw, Depositors, TypeOK
  <2>2. Cardinality(Depositors') = n - 1 /\ n > 0
    BY <1>3, <2>1, <1>a DEF Withdraw
  <2>3. held' = held - LockEthAmount
    BY <1>3, <2>1 DEF Withdraw
  <2> HIDE DEF n
  <2> QED BY <1>0, <1>1, <2>2, <2>3, OneDeposit, DurationAssumption DEF Solvent
<1>4. ASSUME NEW i \in Index, Challenge(i) PROVE Solvent'
  <2>1. lastSubmitter \in Account /\ balanceOf[lastSubmitter] = LockEthAmount
    BY <1>4 DEF Challenge, ChallengeIsPaid
  <2>2. lastSubmitter \in Depositors
        /\ balanceOf' = [balanceOf EXCEPT ![lastSubmitter] = 0]
    BY <1>4, <2>1, DurationAssumption DEF Challenge, Seize, Depositors, TypeOK
  <2>3. Cardinality(Depositors') = n - 1 /\ n > 0
    BY <2>2, <1>a
  <2>4. held' \in Nat /\ held' >= held - LockEthAmount
    BY <1>4, <1>1, DurationAssumption DEF Challenge
  <2> HIDE DEF n
  <2> QED BY <1>0, <1>1, <2>3, <2>4, OneDeposit, DurationAssumption DEF Solvent
<1>5. CASE UNCHANGED moneyVars
  BY <1>5 DEF moneyVars, Solvent, Depositors
<1> QED BY <1>2, <1>3, <1>4, <1>5
        DEF Next, InitWithValidators, InitWithBlock, AddLightClientBlock, Tick,
            AdminPause, vars

(* The contract can pay out every deposit, after any number of challenges. *)
THEOREM AlwaysSolvent == Spec => []Solvent
<1>1. Init => Solvent
  <2> HAVE Init
  <2>1. Depositors = {}
    BY DEF Init, Depositors
  <2>2. Cardinality(Depositors) = 0
    BY <2>1, FS_EmptySet
  <2> QED BY <2>2, DurationAssumption DEF Init, Solvent
<1>2. TypeOK /\ ChallengeIsPaid /\ Solvent /\ [Next]_vars => Solvent'
  BY SolventStep
<1> QED BY <1>1, <1>2, TypeCorrect, ChallengesArePaid, PTL DEF Spec

-----------------------------------------------------------------------------
(* The confirmed chain.                                                    *)

(* The head is above everything that is committed; nothing is committed    *)
(* before the contract is initialised.                                     *)
ChainInv ==
    /\ \A h \in Height : blocks_[h] # NoBlock => h <= curHeight
    /\ lastValidAt # 0 => untrusted.height > curHeight
    /\ ~initialized => /\ lastValidAt = 0 /\ curHeight = 0
                       /\ \A h \in Height : blocks_[h] = NoBlock

\* A new head is above the head that its call commits.
LEMMA AddedAbove ==
    ASSUME TypeOK, ChainInv, NEW a \in Account, NEW b \in NearBlock,
           NEW n \in BOOLEAN, AddLightClientBlock(a, b, n)
    PROVE  /\ curHeight' = CommittedHeight /\ curHeight' >= curHeight
           /\ untrusted' = b /\ b.height > curHeight'
           /\ lastValidAt' = now + LockDuration /\ lastValidAt' # 0
           /\ now' = now /\ initialized /\ initialized' = initialized
           /\ blocks_' = IF Commits
                         THEN [blocks_ EXCEPT ![untrusted.height] = untrusted]
                         ELSE blocks_
<1>1. untrusted.height \in Nat /\ b.height \in Nat
  BY BlockFacts DEF TypeOK
<1>2. curHeight' = CommittedHeight /\ b.height > CommittedHeight
  BY DEF AddLightClientBlock, NewHeight
<1>3. CommittedHeight >= curHeight
  BY <1>1 DEF CommittedHeight, Commits, ChainInv, TypeOK
<1> QED BY <1>2, <1>3, DurationAssumption DEF AddLightClientBlock, TypeOK

LEMMA ChainStep ==
    ASSUME TypeOK, ChainInv, [Next]_vars
    PROVE  ChainInv'
<1>1. CASE UNCHANGED <<lastValidAt, untrusted, initialized, curHeight, blocks_>>
  BY <1>1 DEF ChainInv
<1>2. ASSUME NEW i \in Index, Challenge(i) PROVE ChainInv'
  BY <1>2 DEF Challenge, ChainInv, chainVars, TypeOK
<1>3. CASE InitWithBlock
  <2>1. Genesis \in NearBlock /\ Genesis.height \in Nat /\ Genesis.height \in Height
    BY GenesisFacts, BlockFacts
  <2>2. /\ blocks_' = [blocks_ EXCEPT ![Genesis.height] = Genesis]
        /\ curHeight' = Genesis.height /\ lastValidAt' = 0 /\ initialized'
    BY <1>3, Zenon DEF InitWithBlock, ChainInv, headVars
  <2>3. \A h \in Height : blocks_[h] = NoBlock
    BY <1>3, Zenon DEF InitWithBlock, ChainInv
  <2> QED BY <2>1, <2>2, <2>3 DEF ChainInv, TypeOK
<1>4. ASSUME NEW a \in Account, NEW b \in NearBlock, NEW n \in BOOLEAN,
             AddLightClientBlock(a, b, n)
      PROVE  ChainInv'
  <2>1. untrusted.height \in Nat /\ untrusted.height \in Height /\ Height \subseteq Nat
    BY BlockFacts DEF TypeOK, Height
  <2>2. \A h \in Height : blocks_'[h] # NoBlock => h <= curHeight'
    BY <1>4, <2>1, AddedAbove DEF ChainInv, TypeOK, CommittedHeight
  <2>3. initialized'
    BY <1>4, Zenon DEF AddLightClientBlock
  <2> QED BY <1>4, <2>2, <2>3, AddedAbove DEF ChainInv
<1> QED BY <1>1, <1>2, <1>3, <1>4
        DEF Next, Deposit, Withdraw, InitWithValidators, Tick, AdminPause, vars,
            headVars, chainVars

LEMMA ChainCorrect == Spec => []ChainInv
<1>1. Init => ChainInv
  BY DEF Init, ChainInv
<1>2. TypeOK /\ ChainInv /\ [Next]_vars => ChainInv'
  BY ChainStep
<1> QED BY <1>1, <1>2, TypeCorrect, PTL DEF Spec

(* No block is confirmed above the height that bridgeState reports.        *)
THEOREM NeverAboveCurrent == Spec => []NothingAboveCurrent
<1>1. TypeOK /\ ChainInv => NothingAboveCurrent
  <2> SUFFICES ASSUME TypeOK, ChainInv, NEW h \in Height, BlockAt(h) # NoBlock
               PROVE  h <= CurrentHeight
    BY DEF NothingAboveCurrent
  <2>1. h \in Nat /\ untrusted.height \in Nat
    BY BlockFacts DEF Height, TypeOK
  <2> QED BY <2>1 DEF ChainInv, BlockAt, CurrentHeight, Commits, TypeOK
<1> QED BY <1>1, TypeCorrect, ChainCorrect, PTL

LEMMA ViewStep ==
    ASSUME TypeOK, ChainInv, [Next]_vars
    PROVE  /\ CurrentHeight' >= CurrentHeight
           /\ \A h \in Height : BlockAt(h) # NoBlock => BlockAt(h)' = BlockAt(h)
<1> DEFINE Kept == \A h \in Height : BlockAt(h) # NoBlock => BlockAt(h)' = BlockAt(h)
<1>0. /\ Height \subseteq Nat /\ untrusted.height \in Nat /\ untrusted.height \in Height
      /\ untrusted \in NearBlock /\ untrusted # NoBlock
  BY BlockFacts, NearAssumption DEF TypeOK, Height
<1>1. CASE /\ UNCHANGED <<lastValidAt, untrusted, curHeight, blocks_>>
           /\ now' \in Nat /\ now' >= now
  BY <1>0, <1>1 DEF CurrentHeight, BlockAt, Commits, ChainInv, TypeOK
<1>2. ASSUME NEW i \in Index, Challenge(i)
      PROVE  CurrentHeight' >= CurrentHeight /\ Kept
  <2>1. ~Commits /\ ~Commits'
    BY <1>2 DEF Challenge, Commits, TypeOK
  <2> QED BY <1>2, <2>1 DEF Challenge, chainVars, CurrentHeight, BlockAt, TypeOK
<1>3. CASE InitWithBlock
  <2>1. Genesis.height \in Nat
    BY GenesisFacts, BlockFacts
  <2>2. lastValidAt = 0 /\ curHeight = 0 /\ \A h \in Height : blocks_[h] = NoBlock
    BY <1>3, Zenon DEF InitWithBlock, ChainInv
  <2>3. ~Commits /\ ~Commits' /\ curHeight' = Genesis.height
    BY <1>3, <2>2 DEF InitWithBlock, Commits, headVars
  <2> QED BY <2>1, <2>2, <2>3 DEF CurrentHeight, BlockAt
<1>4. ASSUME NEW a \in Account, NEW b \in NearBlock, NEW n \in BOOLEAN,
             AddLightClientBlock(a, b, n)
      PROVE  CurrentHeight' >= CurrentHeight /\ Kept
  <2>1. ~Commits'
    BY <1>4, AddedAbove, DurationAssumption DEF Commits, TypeOK
  <2>2. CurrentHeight' >= CurrentHeight
    BY <1>4, <2>1, AddedAbove, <1>0 DEF CurrentHeight, CommittedHeight, TypeOK
  <2>3. Kept
    <3> SUFFICES ASSUME NEW h \in Height, BlockAt(h) # NoBlock
                 PROVE  BlockAt(h)' = BlockAt(h)
      OBVIOUS
    <3>1. BlockAt(h)' = blocks_'[h]
      BY <2>1 DEF BlockAt
    <3>2. CASE Commits
      <4>1. blocks_[untrusted.height] = NoBlock
        BY <3>2, <1>0 DEF ChainInv, Commits, TypeOK
      <4>2. blocks_' = [blocks_ EXCEPT ![untrusted.height] = untrusted]
        BY <1>4, <3>2, AddedAbove
      <4> QED BY <3>1, <3>2, <4>1, <4>2 DEF BlockAt, TypeOK
    <3>3. CASE ~Commits
      BY <1>4, <3>1, <3>3, AddedAbove DEF BlockAt
    <3> QED BY <3>2, <3>3
  <2> QED BY <2>2, <2>3
<1> QED BY <1>1, <1>2, <1>3, <1>4
        DEF Next, Deposit, Withdraw, InitWithValidators, Tick, AdminPause, vars,
            headVars, chainVars, TypeOK

(* What the bridge confirmed once for a height it confirms for good.       *)
THEOREM ConfirmedForGood == Spec => ConfirmedStays
<1>1. TypeOK /\ ChainInv /\ [Next]_vars
        => (\A h \in Height : BlockAt(h) # NoBlock => BlockAt(h)' = BlockAt(h))
  BY ViewStep
<1> QED BY <1>1, TypeCorrect, ChainCorrect, PTL DEF Spec, ConfirmedStays

(* The confirmed height never decreases.                                   *)
THEOREM HeightNeverDecreases == Spec => HeightGrows
<1>1. TypeOK /\ ChainInv /\ [Next]_vars => CurrentHeight' >= CurrentHeight
  BY ViewStep
<1> QED BY <1>1, TypeCorrect, ChainCorrect, PTL DEF Spec, HeightGrows

-----------------------------------------------------------------------------
(* Replacements.                                                           *)

\* A period of validity, and the time before it, in nanoseconds.
LEMMA LagArithmetic ==
    ASSUME NEW t \in Nat, NEW v \in Nat, t < v
    PROVE  /\ (t + LockDuration) * NanosPerSecond
                = t * NanosPerSecond + LockDuration * NanosPerSecond
           /\ t * NanosPerSecond < v * NanosPerSecond
           /\ t * NanosPerSecond \in Nat /\ v * NanosPerSecond \in Nat
           /\ LockDuration * NanosPerSecond \in Nat
BY DurationAssumption

(* Every replacement of an open head lowers the lag behind NEAR's clock:   *)
(* this is what the constructor's condition on the two durations buys.     *)
THEOREM ReplacementsCatchUp == Spec => ReplacementCatchesUp
<1> DEFINE Shrinks ==
        now < lastValidAt /\ lastValidAt' # 0 /\ untrusted' # untrusted
            => Lag(lastValidAt, untrusted)' < Lag(lastValidAt, untrusted)
<1>1. ASSUME TypeOK, [Next]_vars PROVE Shrinks
  <2> SUFFICES ASSUME now < lastValidAt, lastValidAt' # 0, untrusted' # untrusted
               PROVE  Lag(lastValidAt, untrusted)' < Lag(lastValidAt, untrusted)
    OBVIOUS
  <2>1. PICK a \in Account, b \in NearBlock, n \in BOOLEAN : AddLightClientBlock(a, b, n)
    BY <1>1 DEF Next, Deposit, Withdraw, Challenge, InitWithValidators,
                InitWithBlock, Tick, AdminPause, vars, headVars
  <2>2. /\ lastValidAt' = now + LockDuration /\ untrusted' = b
        /\ b.timestamp >= untrusted.timestamp + ReplaceDuration
    BY <2>1 DEF AddLightClientBlock, MayReplace
  <2>3. b.timestamp \in Nat /\ untrusted.timestamp \in Nat
    BY <1>1, BlockFacts DEF TypeOK
  <2>4. now \in Nat /\ lastValidAt \in Nat
    BY <1>1 DEF TypeOK
  <2>5. /\ (now + LockDuration) * NanosPerSecond
                = now * NanosPerSecond + LockDuration * NanosPerSecond
        /\ now * NanosPerSecond < lastValidAt * NanosPerSecond
        /\ now * NanosPerSecond \in Nat /\ lastValidAt * NanosPerSecond \in Nat
        /\ LockDuration * NanosPerSecond \in Nat
    BY <2>4, LagArithmetic
  <2>6. ReplaceDuration > LockDuration * NanosPerSecond /\ ReplaceDuration \in Nat
    BY DurationAssumption
  <2> QED BY <2>2, <2>3, <2>5, <2>6 DEF Lag
<1> QED BY <1>1, TypeCorrect, PTL DEF Spec, ReplacementCatchesUp

-----------------------------------------------------------------------------
(* Genuine blocks.                                                         *)

\* An epoch of the ring holds the producers bps.
HoldsProducers(epoch, bps) ==
    /\ epoch.numBPs = Len(bps)
    /\ \A i \in 0..Len(bps) - 1 :
            epoch.keys[i] = bps[i + 1].key /\ StakeAt(epoch, i) = bps[i + 1].stake
    /\ epoch.stakeThreshold = Threshold(SumOf(Stakes(bps)))

\* An epoch of the ring is one of NEAR's.
IsNears(epoch) ==
    epoch.epochId \in EpochId /\ HoldsProducers(epoch, ProducersOf[epoch.epochId])

LEMMA SetBlockProducersHolds ==
    ASSUME NEW epoch \in Epoch, NEW bps \in Seq(Producer),
           Len(bps) <= MaxBlockProducers
    PROVE  HoldsProducers(SetBlockProducers(epoch, bps), bps)
<1> DEFINE e == SetBlockProducers(epoch, bps)
<1>1. e.numBPs = Len(bps) /\ e.stakeThreshold = Threshold(SumOf(Stakes(bps)))
  BY DEF SetBlockProducers, Epoch
<1>2. ASSUME NEW i \in 0..Len(bps) - 1
      PROVE  e.keys[i] = bps[i + 1].key /\ StakeAt(e, i) = bps[i + 1].stake
  <2>1. /\ Len(bps) \in Nat /\ i \in Nat /\ i < Len(bps) /\ i \in Index
        /\ i \div 2 \in Index /\ 2 * (i \div 2) < Len(bps)
    BY DurationAssumption DEF Index
  <2>2. e.keys[i] = bps[i + 1].key
    BY <2>1 DEF SetBlockProducers, Epoch
  <2>3. e.packedStakes[i \div 2] =
            [high |-> bps[2 * (i \div 2) + 1].stake,
             low |-> IF 2 * (i \div 2) + 1 = Len(bps) THEN 0
                     ELSE bps[2 * (i \div 2) + 2].stake]
    BY <2>1 DEF SetBlockProducers, Epoch
  <2> HIDE DEF e
  <2>4. CASE i % 2 = 0
    <3>1. 2 * (i \div 2) + 1 = i + 1
      BY <2>1, <2>4
    <3> QED BY <2>2, <2>3, <2>4, <3>1 DEF StakeAt
  <2>5. CASE i % 2 # 0
    <3>1. 2 * (i \div 2) + 2 = i + 1 /\ 2 * (i \div 2) + 1 # Len(bps)
      BY <2>1, <2>5
    <3> QED BY <2>2, <2>3, <2>5, <3>1 DEF StakeAt
  <2> QED BY <2>4, <2>5
<1> HIDE DEF e
<1>3. HoldsProducers(e, bps)
  BY <1>1, <1>2 DEF HoldsProducers
<1> QED BY <1>3 DEF e

\* The id of an epoch is written after its producers.
LEMMA HoldsWithId ==
    ASSUME NEW epoch \in Epoch, NEW bps, NEW id, HoldsProducers(epoch, bps)
    PROVE  /\ HoldsProducers([epoch EXCEPT !.epochId = id], bps)
           /\ [epoch EXCEPT !.epochId = id].epochId = id
BY DEF HoldsProducers, StakeAt, Epoch

(* What addLightClientBlock checked of the head still holds of it, and if  *)
(* it is the first block of its epoch, the spare slot holds what it        *)
(* brought.                                                                *)
HeadInv ==
    /\ HeadEpoch.epochId = untrusted.epochId
    /\ Len(untrusted.approvals) >= HeadEpoch.numBPs
    /\ untrustedSignatureSet = SignatureSet(untrusted, HeadEpoch)
    /\ VotedFor(untrusted, HeadEpoch) > HeadEpoch.stakeThreshold
    /\ untrustedNextEpoch =>
        LET spare == epochs[Slot(curEpoch, 2)] IN
        /\ untrusted.hasBps /\ spare.epochId = untrusted.nextEpochId
        /\ HoldsProducers(spare, untrusted.nextBps)

GenuineInv ==
    /\ \A h \in Height : blocks_[h] # NoBlock => blocks_[h] \in Genuine
    /\ initialized => /\ IsNears(epochs[curEpoch])
                      /\ IsNears(epochs[Slot(curEpoch, 1)])
    /\ ~initialized =>
        /\ curEpoch = 0
        /\ epochs[0].numBPs # 0 =>
                HoldsProducers(epochs[0], ProducersOf[Genesis.epochId])
    /\ lastValidAt # 0 => HeadInv
    /\ Commits => HeadIsValid

LEMMA HeadEpochIsNears ==
    ASSUME TypeOK, ChainInv, GenuineInv, lastValidAt # 0
    PROVE  IsNears(HeadEpoch) /\ HeadEpoch.epochId = untrusted.epochId
BY Zenon DEF ChainInv, GenuineInv, HeadInv, HeadEpoch

\* The vote is counted with the stakes that NEAR gives the signers.
LEMMA HeadVote ==
    ASSUME TypeOK, ChainInv, GenuineInv, lastValidAt # 0
    PROVE  LET bps == ProducersOf[untrusted.epochId] IN
           /\ untrustedSignatureSet =
                {i \in 0..Len(bps) - 1 : Approves(untrusted, i)}
           /\ Len(untrusted.approvals) >= Len(bps)
           /\ \A i \in 0..Len(bps) - 1 : HeadEpoch.keys[i] = bps[i + 1].key
           /\ SumOf([i \in untrustedSignatureSet |-> bps[i + 1].stake])
                > Threshold(SumOf(Stakes(bps)))
<1> DEFINE bps == ProducersOf[untrusted.epochId]
<1>1. HoldsProducers(HeadEpoch, bps)
  BY HeadEpochIsNears DEF IsNears
<1>2. HeadInv
  BY DEF GenuineInv
<1>3. untrustedSignatureSet = {i \in 0..Len(bps) - 1 : Approves(untrusted, i)}
  BY <1>1, <1>2 DEF HeadInv, SignatureSet, HoldsProducers
<1>4. [i \in SignatureSet(untrusted, HeadEpoch) |-> StakeAt(HeadEpoch, i)]
        = [i \in untrustedSignatureSet |-> bps[i + 1].stake]
  <2>1. \A i \in untrustedSignatureSet : StakeAt(HeadEpoch, i) = bps[i + 1].stake
    BY <1>1, <1>3 DEF HoldsProducers
  <2> QED BY <2>1, <1>2 DEF HeadInv
<1> HIDE DEF bps
<1>5. VotedFor(untrusted, HeadEpoch)
        = SumOf([i \in untrustedSignatureSet |-> bps[i + 1].stake])
  BY <1>4, Zenon DEF VotedFor
<1>6. /\ Len(untrusted.approvals) >= Len(bps)
      /\ \A i \in 0..Len(bps) - 1 : HeadEpoch.keys[i] = bps[i + 1].key
      /\ SumOf([i \in untrustedSignatureSet |-> bps[i + 1].stake])
            > Threshold(SumOf(Stakes(bps)))
  BY <1>1, <1>2, <1>5 DEF HeadInv, HoldsProducers
<1> QED BY <1>3, <1>6 DEF bps

\* A head with valid signatures is a block of NEAR.
LEMMA HeadIsGenuine ==
    ASSUME TypeOK, ChainInv, GenuineInv, lastValidAt # 0, HeadIsValid
    PROVE  untrusted \in Genuine
<1> DEFINE bps == ProducersOf[untrusted.epochId]
<1>1. untrusted \in NearBlock /\ bps \in Seq(Producer)
      /\ untrusted.approvals \in Seq(Key \cup {NoKey})
  BY BlockFacts, TotalStakeType DEF TypeOK
<1>2. \A i \in 0..Len(bps) - 1 : bps[i + 1].key # NoKey
  <2> TAKE i \in 0..Len(bps) - 1
  <2>1. bps[i + 1] \in Producer
    BY <1>1
  <2> QED BY <2>1, NearAssumption DEF Producer
<1>3. SignersOf(untrusted) = untrustedSignatureSet
  <2>1. \A i \in 0..Len(bps) - 1 :
            /\ i < Len(untrusted.approvals)
            /\ Approves(untrusted, i) <=> untrusted.approvals[i + 1] = bps[i + 1].key
    <3> TAKE i \in 0..Len(bps) - 1
    <3>1. HeadEpoch.keys[i] = bps[i + 1].key /\ Len(untrusted.approvals) >= Len(bps)
      BY HeadVote
    <3>2. Approves(untrusted, i) => untrusted.approvals[i + 1] = bps[i + 1].key
      BY <3>1, HeadVote DEF HeadIsValid, SignatureInHead
    <3> QED BY <1>1, <1>2, <3>1, <3>2 DEF Approves
  <2> QED BY <2>1, HeadVote DEF SignersOf
<1>4. SumOf([i \in untrustedSignatureSet |-> bps[i + 1].stake])
        > Threshold(SumOf(Stakes(bps)))
  BY HeadVote
<1>5. SignedByTwoThirds(untrusted)
  BY <1>3, <1>4 DEF SignedByTwoThirds
<1> QED BY <1>1, <1>5, NearSafety

\* The epochs that a call works with are NEAR's, after a commit too.
LEMMA CommittedEpochsAreNears ==
    ASSUME TypeOK, ChainInv, GenuineInv, initialized
    PROVE  /\ IsNears(epochs[CommittedEpoch])
           /\ IsNears(epochs[Slot(CommittedEpoch, 1)])
           /\ Commits => untrusted \in Genuine
<1>1. IsNears(epochs[curEpoch]) /\ IsNears(epochs[Slot(curEpoch, 1)])
  BY Zenon DEF GenuineInv
<1>2. CASE Commits
  <2>1. untrusted \in Genuine /\ untrusted \in NearBlock
    BY <1>2, HeadIsGenuine, NearAssumption DEF Commits, GenuineInv
  <2>2. CASE untrustedNextEpoch
    <3>1. CommittedEpoch = Slot(curEpoch, 1)
          /\ Slot(CommittedEpoch, 1) = Slot(curEpoch, 2)
      BY <1>2, <2>2, SlotsDiffer DEF CommittedEpoch, TypeOK
    <3>2. HeadInv
      BY <1>2 DEF GenuineInv, Commits
    <3>3. /\ epochs[Slot(curEpoch, 2)].epochId = untrusted.nextEpochId
          /\ HoldsProducers(epochs[Slot(curEpoch, 2)], untrusted.nextBps)
          /\ untrusted.hasBps
      BY <2>2, <3>2 DEF HeadInv
    <3>4. untrusted.nextBps = ProducersOf[untrusted.nextEpochId]
      BY <2>1, <3>3, NearAssumption
    <3>5. IsNears(epochs[Slot(curEpoch, 2)])
      BY <2>1, <3>3, <3>4, BlockFacts DEF IsNears
    <3> QED BY <1>1, <2>1, <3>1, <3>5
  <2>3. CASE ~untrustedNextEpoch
    BY <1>1, <2>1, <2>3 DEF CommittedEpoch
  <2> QED BY <2>2, <2>3
<1>3. CASE ~Commits
  BY <1>1, <1>3 DEF CommittedEpoch
<1> QED BY <1>2, <1>3

LEMMA GenuineInit == Init => GenuineInv
<1> HAVE Init
<1>1. lastValidAt = 0 /\ curEpoch = 0 /\ epochs[0].numBPs = 0
      /\ \A h \in Height : blocks_[h] = NoBlock
  BY DEF Init, EmptyEpoch
<1>2. ~initialized
  BY Zenon DEF Init
<1> QED BY <1>1, <1>2 DEF GenuineInv, Commits

LEMMA GenuineInitWithValidators ==
    ASSUME TypeOK, ChainInv, GenuineInv, InitWithValidators
    PROVE  GenuineInv'
<1> DEFINE bps == ProducersOf[Genesis.epochId]
<1>1. /\ ~initialized /\ ~initialized' /\ lastValidAt' = lastValidAt
      /\ curEpoch' = curEpoch /\ blocks_' = blocks_
  BY Zenon DEF InitWithValidators, headVars
<1>2. lastValidAt = 0 /\ curEpoch = 0
  BY <1>1, Zenon DEF ChainInv, GenuineInv
<1>3. HoldsProducers(epochs'[0], bps)
  <2>1. bps \in Seq(Producer) /\ Len(bps) <= MaxBlockProducers
    BY GenesisFacts, BlockFacts, TotalStakeType, DurationAssumption
  <2>2. HoldsProducers(SetBlockProducers(epochs[0], bps), bps)
    BY <2>1, SetBlockProducersHolds DEF TypeOK
  <2>3. epochs'[0] = SetBlockProducers(epochs[0], bps)
    BY DEF InitWithValidators, TypeOK
  <2> QED BY <2>2, <2>3
<1> QED BY <1>1, <1>2, <1>3 DEF GenuineInv, Commits

LEMMA GenuineInitWithBlock ==
    ASSUME TypeOK, ChainInv, GenuineInv, InitWithBlock
    PROVE  GenuineInv'
<1>1. /\ ~initialized /\ initialized' /\ lastValidAt' = lastValidAt
      /\ curEpoch' = curEpoch /\ epochs[0].numBPs # 0
      /\ blocks_' = [blocks_ EXCEPT ![Genesis.height] = Genesis]
  BY Zenon DEF InitWithBlock, headVars
<1>2. lastValidAt' = 0 /\ curEpoch' = 0 /\ \A h \in Height : blocks_[h] = NoBlock
  BY <1>1, Zenon DEF ChainInv, GenuineInv
<1>3. /\ Genesis \in NearBlock /\ Genesis.height \in Height
      /\ Genesis.epochId \in EpochId /\ Genesis.nextEpochId \in EpochId
  BY GenesisFacts, BlockFacts
<1>4. IsNears(epochs'[0])
  <2>1. HoldsProducers(epochs[0], ProducersOf[Genesis.epochId])
    BY <1>1, Zenon DEF GenuineInv
  <2>2. epochs'[0] = [epochs[0] EXCEPT !.epochId = Genesis.epochId] /\ epochs[0] \in Epoch
    BY DEF InitWithBlock, TypeOK
  <2> QED BY <1>3, <2>1, <2>2, HoldsWithId DEF IsNears
<1>5. IsNears(epochs'[1])
  <2> DEFINE filled == SetBlockProducers(epochs[1], Genesis.nextBps)
  <2>1. filled \in Epoch /\ HoldsProducers(filled, Genesis.nextBps)
    BY GenesisFacts, BlockFacts, SetBlockProducersType, SetBlockProducersHolds DEF TypeOK
  <2>2. epochs'[1] = [filled EXCEPT !.epochId = Genesis.nextEpochId]
    BY DEF InitWithBlock, TypeOK
  <2> HIDE DEF filled
  <2>3. /\ epochs'[1].epochId = Genesis.nextEpochId
        /\ HoldsProducers(epochs'[1], Genesis.nextBps)
    BY <2>1, <2>2, HoldsWithId
  <2> QED BY <1>3, <2>3, GenesisFacts DEF IsNears
<1>6. \A h \in Height : blocks_'[h] # NoBlock => blocks_'[h] \in Genuine
  BY <1>1, <1>2, <1>3, NearAssumption DEF TypeOK
<1> QED BY <1>1, <1>2, <1>4, <1>5, <1>6 DEF GenuineInv, Commits, Slot

LEMMA GenuineAddLightClientBlock ==
    ASSUME TypeOK, ChainInv, GenuineInv, NEW a \in Account, NEW b \in NearBlock,
           NEW n \in BOOLEAN, AddLightClientBlock(a, b, n)
    PROVE  GenuineInv'
<1> DEFINE this == epochs[IF n THEN Slot(CommittedEpoch, 1) ELSE CommittedEpoch]
<1> DEFINE filled == SetBlockProducers(epochs[SpareSlot], b.nextBps)
<1>1. initialized /\ initialized'
  BY Zenon DEF AddLightClientBlock
<1>2. /\ IsNears(epochs[CommittedEpoch])
      /\ IsNears(epochs[Slot(CommittedEpoch, 1)])
      /\ Commits => untrusted \in Genuine
  BY <1>1, CommittedEpochsAreNears
<1>3. /\ CommittedEpoch \in 0..2 /\ SpareSlot \in 0..2
      /\ Slot(CommittedEpoch, 1) \in 0..2
      /\ SpareSlot # CommittedEpoch /\ SpareSlot # Slot(CommittedEpoch, 1)
  BY CommitTypes, SlotType, SlotsDiffer DEF SpareSlot
<1>4. /\ curEpoch' = CommittedEpoch
      /\ epochs'[CommittedEpoch] = epochs[CommittedEpoch]
      /\ epochs'[Slot(CommittedEpoch, 1)] = epochs[Slot(CommittedEpoch, 1)]
  BY <1>3 DEF AddLightClientBlock, TypeOK
<1>5. untrusted' = b /\ untrustedNextEpoch' = n
  BY DEF AddLightClientBlock
<1>6. HeadEpoch' = this
  BY <1>4, <1>5 DEF HeadEpoch
<1>7. /\ b.epochId = this.epochId /\ Len(b.approvals) >= this.numBPs
      /\ VotedFor(b, this) > this.stakeThreshold
      /\ untrustedSignatureSet' = SignatureSet(b, this)
  BY DEF AddLightClientBlock
<1>8. ASSUME n
      PROVE  /\ b.hasBps /\ epochs'[SpareSlot].epochId = b.nextEpochId
             /\ HoldsProducers(epochs'[SpareSlot], b.nextBps)
  <2>1. b.hasBps /\ Len(b.nextBps) <= MaxBlockProducers
    BY <1>8 DEF AddLightClientBlock
  <2>2. filled \in Epoch /\ HoldsProducers(filled, b.nextBps)
    BY <1>3, <2>1, BlockFacts, SetBlockProducersType, SetBlockProducersHolds DEF TypeOK
  <2>3. epochs'[SpareSlot] = [filled EXCEPT !.epochId = b.nextEpochId]
    BY <1>3, <1>8 DEF AddLightClientBlock, TypeOK
  <2> HIDE DEF filled
  <2> QED BY <2>1, <2>2, <2>3, HoldsWithId
<1> HIDE DEF this, filled
<1>9. HeadInv'
  BY <1>4, <1>5, <1>6, <1>7, <1>8
     DEF HeadInv, SpareSlot, SignatureSet, VotedFor, StakeAt, Approves
<1>10. \A h \in Height : blocks_'[h] # NoBlock => blocks_'[h] \in Genuine
  <2>1. untrusted \in NearBlock /\ untrusted.height \in Height
    BY BlockFacts DEF TypeOK
  <2> QED BY <1>2, <2>1, AddedAbove DEF GenuineInv, TypeOK
<1>11. ~Commits'
  BY AddedAbove, DurationAssumption DEF Commits, TypeOK
<1> QED BY <1>1, <1>2, <1>4, <1>9, <1>10, <1>11, Zenon DEF GenuineInv

LEMMA GenuineStep ==
    ASSUME Watched, TypeOK, ChainInv, GenuineInv, [Next]_vars
    PROVE  GenuineInv'
<1>1. CASE UNCHANGED <<headVars, chainVars, now>>
  <2>1. /\ HeadInv' = HeadInv /\ HeadIsValid' = HeadIsValid /\ Commits' = Commits
    BY <1>1 DEF headVars, chainVars, HeadInv, HeadIsValid, HeadEpoch, SignatureInHead,
                Commits
  <2> QED BY <1>1, <2>1 DEF GenuineInv, headVars, chainVars
<1>2. ASSUME NEW i \in Index, Challenge(i) PROVE GenuineInv'
  <2>1. lastValidAt' = 0 /\ UNCHANGED chainVars
    BY <1>2 DEF Challenge
  <2> QED BY <2>1 DEF GenuineInv, Commits, chainVars
<1>3. CASE Tick
  <2>1. UNCHANGED <<headVars, chainVars>>
    BY <1>3 DEF Tick
  <2>2. HeadInv' = HeadInv /\ HeadIsValid' = HeadIsValid
    BY <2>1 DEF headVars, chainVars, HeadInv, HeadIsValid, HeadEpoch, SignatureInHead
  <2>3. Commits' => HeadIsValid
    BY <1>3, <2>1 DEF Tick, Commits, GenuineInv, TypeOK, headVars
  <2> QED BY <2>1, <2>2, <2>3 DEF GenuineInv, headVars, chainVars
<1> QED BY <1>1, <1>2, <1>3, GenuineInitWithValidators, GenuineInitWithBlock,
           GenuineAddLightClientBlock
        DEF Next, Deposit, Withdraw, AdminPause, vars

LEMMA GenuineCorrect == Spec => [](Watched => GenuineInv)
<1>1. Init => (Watched => GenuineInv)
  BY GenuineInit
<1>2. TypeOK /\ ChainInv /\ (Watched => GenuineInv) /\ [Next]_vars
        => (Watched => GenuineInv)'
  BY GenuineStep
<1> QED BY <1>1, <1>2, TypeCorrect, ChainCorrect, PTL DEF Spec

(* With watchers, the optimistic bridge confirms nothing but blocks of     *)
(* NEAR, for every set of submitted blocks and producers.                  *)
THEOREM OnlyGenuineConfirmed == Spec => []ConfirmedAreGenuine
<1>1. ASSUME Watched, TypeOK, ChainInv, GenuineInv PROVE ConfirmedAreGenuine
  <2>1. Commits => untrusted \in Genuine
    BY <1>1, HeadIsGenuine DEF GenuineInv, Commits
  <2> QED BY <1>1, <2>1 DEF ConfirmedAreGenuine, BlockAt, GenuineInv
<1>2. TypeOK /\ ChainInv /\ (Watched => GenuineInv) => ConfirmedAreGenuine
  BY <1>1 DEF ConfirmedAreGenuine
<1> QED BY <1>2, TypeCorrect, ChainCorrect, GenuineCorrect, PTL

(* A head that is open or confirmed carries approvals of more than two     *)
(* thirds of the stake of its epoch.                                       *)
THEOREM HeadsHaveQuorum == Spec => []HeadHasQuorum
<1>1. ASSUME Watched, TypeOK, ChainInv, GenuineInv PROVE HeadHasQuorum
  <2> SUFFICES ASSUME lastValidAt # 0
               PROVE  LET bps == ProducersOf[untrusted.epochId] IN
                      3 * SumOf([i \in untrustedSignatureSet |-> bps[i + 1].stake])
                        > 2 * SumOf(Stakes(bps))
    BY DEF HeadHasQuorum
  <2> DEFINE bps == ProducersOf[untrusted.epochId]
  <2> DEFINE voted == SumOf([i \in untrustedSignatureSet |-> bps[i + 1].stake])
  <2> DEFINE total == SumOf(Stakes(bps))
  <2>1. untrusted.epochId \in EpochId /\ total \in Nat
    BY <1>1, BlockFacts, TotalStakeType DEF TypeOK
  <2>2. untrustedSignatureSet \in SUBSET DOMAIN Stakes(bps) /\ voted > Threshold(total)
    BY <1>1, HeadVote DEF Stakes
  <2>3. voted \in Nat
    <3>1. bps \in Seq(Producer)
      BY <2>1, NearAssumption
    <3> HIDE DEF bps
    <3> QED
      BY <2>2, <3>1, StakesAddUp
  <2> HIDE DEF voted, total
  <2>4. 3 * voted > 2 * total
    BY <2>1, <2>2, <2>3 DEF Threshold
  <2> QED BY <2>4 DEF voted, total
<1>2. TypeOK /\ ChainInv /\ (Watched => GenuineInv) => HeadHasQuorum
  BY <1>1 DEF HeadHasQuorum
<1> QED BY <1>2, TypeCorrect, ChainCorrect, GenuineCorrect, PTL
=============================================================================
