----------------------------- MODULE NearBridge -----------------------------
(***************************************************************************)
(* The optimistic light client of NEAR on Ethereum (Assignment 6/          *)
(* NearBridge.sol).  Anyone with a deposit submits a NEAR block; its       *)
(* signatures are not checked but can be challenged until lastValidAt, and *)
(* the block is committed by the first call after that.  The contract      *)
(* keeps three epochs in a ring: the current one, the next one, and room   *)
(* for the one after it.                                                   *)
(*                                                                         *)
(* A NEAR block is a record; its hash and its Merkle root are the record   *)
(* itself.  External: NEAR (which blocks are genuine), the Ed25519         *)
(* contract, the admin of AdminControlled, and the clock of Ethereum.      *)
(***************************************************************************)
EXTENDS Integers, Sequences, FiniteSets, Functions

CONSTANTS
    Account, NoAccount, \* Ethereum accounts; the zero address
    Key, NoKey,         \* public keys of block producers; none
    EpochId, NoEpoch,   \* ids of NEAR epochs; the zero of a new slot
    NearBlock,          \* the blocks that may be submitted
    NoBlock,            \* the zero of blockHashes_
    Genuine,            \* the blocks of NEAR
    Genesis,            \* the genuine block of initWithBlock
    ProducersOf,        \* [EpochId -> Seq(Producer)]: NEAR's producers
    MaxBlockProducers,  \* MAX_BLOCK_PRODUCERS
    LockEthAmount, LockDuration, ReplaceDuration,
    NanosPerSecond,     \* 1000000000
    Flags,              \* what the admin pauses and unpauses
    MaxTime,            \* bound on block.timestamp
    MaxHeld,            \* bound on the ether of the contract
    Watched             \* whether every invalid head is challenged in time

Producer == [key : Key, stake : Nat]
Index == 0..MaxBlockProducers - 1
Pair == [high : Nat, low : Nat]

(* Approvals are OptionalSignatures: a signature is the key that made it.  *)
(* bpsHashOk: next_bps.hash equals inner_lite.next_bp_hash.                *)
BlockType(b) ==
    /\ b.height \in Nat /\ b.timestamp \in Nat
    /\ b.epochId \in EpochId /\ b.nextEpochId \in EpochId
    /\ b.hasBps \in BOOLEAN /\ b.bpsHashOk \in BOOLEAN
    /\ b.nextBps \in Seq(Producer)
    /\ b.approvals \in Seq(Key \cup {NoKey})

Epoch == [epochId : EpochId \cup {NoEpoch}, numBPs : 0..MaxBlockProducers,
          keys : [Index -> Key \cup {NoKey}],
          packedStakes : [Index -> Pair], stakeThreshold : Nat]

ASSUME NearAssumption ==
    /\ NoKey \notin Key /\ NoEpoch \notin EpochId /\ NoBlock \notin NearBlock
    /\ NoAccount \notin Account
    /\ \A b \in NearBlock : BlockType(b)
    /\ Genuine \subseteq NearBlock /\ Genesis \in Genuine /\ Genesis.hasBps
    /\ ProducersOf \in [EpochId -> Seq(Producer)]
    /\ \A e \in EpochId : Len(ProducersOf[e]) \in 1..MaxBlockProducers
    /\ \A b \in Genuine : b.hasBps => b.nextBps = ProducersOf[b.nextEpochId]
    /\ IsFiniteSet(Account)
ASSUME DurationAssumption ==
    /\ MaxBlockProducers \in Nat \ {0} /\ NanosPerSecond \in Nat \ {0}
    /\ LockEthAmount \in Nat \ {0} /\ LockDuration \in Nat \ {0}
    /\ ReplaceDuration \in Nat /\ MaxTime \in Nat /\ MaxHeld \in Nat /\ Watched \in BOOLEAN
    /\ ReplaceDuration > LockDuration * NanosPerSecond      \* the constructor

VARIABLES
    balanceOf, held,    \* deposits; the ether of the contract
    lastValidAt, lastSubmitter, untrusted, untrustedNextEpoch,
    untrustedSignatureSet,
    initialized, epochs, curEpoch, curHeight,
    blocks_,            \* blockHashes_ and blockMerkleRoots_
    paused, now         \* the paused flags; block.timestamp

moneyVars == <<balanceOf, held>>
headVars == <<lastValidAt, lastSubmitter, untrusted, untrustedNextEpoch,
              untrustedSignatureSet>>
chainVars == <<initialized, epochs, curEpoch, curHeight, blocks_>>
vars == <<moneyVars, headVars, chainVars, paused, now>>

Height == {b.height : b \in NearBlock}

-----------------------------------------------------------------------------
(* Epochs and votes.                                                       *)

EmptyEpoch == [epochId |-> NoEpoch, numBPs |-> 0,
               keys |-> [i \in Index |-> NoKey],
               packedStakes |-> [i \in Index |-> [high |-> 0, low |-> 0]],
               stakeThreshold |-> 0]

SumOf(f) == FoldFunction(+, 0, f)
Stakes(bps) == [i \in 0..Len(bps) - 1 |-> bps[i + 1].stake]

Threshold(total) == (total * 2) \div 3

\* setBlockProducers: two stakes are packed into a word; an odd last stake
\* clears the low half, and the words and keys behind the last stay.
SetBlockProducers(epoch, bps) ==
    LET cnt == Len(bps) IN
    [epoch EXCEPT
        !.numBPs = cnt,
        !.keys = [i \in Index |-> IF i < cnt THEN bps[i + 1].key ELSE @[i]],
        !.packedStakes = [w \in Index |->
            IF 2 * w >= cnt THEN @[w]
            ELSE [high |-> bps[2 * w + 1].stake,
                  low |-> IF 2 * w + 1 = cnt THEN 0 ELSE bps[2 * w + 2].stake]],
        !.stakeThreshold = Threshold(SumOf(Stakes(bps)))]

StakeAt(epoch, i) == IF i % 2 = 0 THEN epoch.packedStakes[i \div 2].high
                     ELSE epoch.packedStakes[i \div 2].low

Approves(b, i) == b.approvals[i + 1] # NoKey
SignatureSet(b, epoch) == {i \in 0..epoch.numBPs - 1 : Approves(b, i)}
\* Mutant: missing approvals count.
VotedForAll(b, epoch) == SumOf([i \in 0..epoch.numBPs - 1 |-> StakeAt(epoch, i)])
VotedFor(b, epoch) == SumOf([i \in SignatureSet(b, epoch) |-> StakeAt(epoch, i)])

(* The safety of NEAR: a block that more than two thirds of the stake of   *)
(* its epoch have signed with valid signatures is genuine.                 *)
SignersOf(b) ==
    {i \in 0..Len(ProducersOf[b.epochId]) - 1 :
        i < Len(b.approvals) /\ b.approvals[i + 1] = ProducersOf[b.epochId][i + 1].key}
SignedByTwoThirds(b) ==
    SumOf([i \in SignersOf(b) |-> ProducersOf[b.epochId][i + 1].stake])
        > Threshold(SumOf(Stakes(ProducersOf[b.epochId])))
ASSUME NearSafety ==
    \A b \in NearBlock : SignedByTwoThirds(b) => b \in Genuine

\* The ring of epochs: k = 0 is the current epoch, 1 the next, 2 the spare one.
Slot(cur, k) == (cur + k) % 3

-----------------------------------------------------------------------------
Init ==
    /\ balanceOf = [a \in Account |-> 0] /\ held = 0
    /\ lastValidAt = 0 /\ lastSubmitter = NoAccount
    /\ untrusted = Genesis /\ untrustedNextEpoch = FALSE
    /\ untrustedSignatureSet = {}
    /\ initialized = FALSE /\ epochs = [i \in 0..2 |-> EmptyEpoch]
    /\ curEpoch = 0 /\ curHeight = 0
    /\ blocks_ = [h \in Height |-> NoBlock]
    /\ paused = {} /\ now = 1

Deposit(a) ==
    /\ "deposit" \notin paused
    /\ balanceOf[a] = 0 /\ held + LockEthAmount <= MaxHeld
    /\ balanceOf' = [balanceOf EXCEPT ![a] = LockEthAmount]
    /\ held' = held + LockEthAmount
    /\ UNCHANGED <<headVars, chainVars, paused, now>>

\* Mutant: the last submitter withdraws although the block can be challenged.
MayWithdrawAlways(a) == TRUE
MayWithdraw(a) == a # lastSubmitter \/ now >= lastValidAt

Withdraw(a) ==
    /\ "withdraw" \notin paused
    /\ MayWithdraw(a) /\ balanceOf[a] # 0
    /\ held >= balanceOf[a]
    /\ held' = held - balanceOf[a]
    /\ balanceOf' = [balanceOf EXCEPT ![a] = 0]
    /\ UNCHANGED <<headVars, chainVars, paused, now>>

\* checkBlockProducerSignatureInHead with the keys of the head's epoch.
HeadEpoch == epochs[IF untrustedNextEpoch THEN Slot(curEpoch, 1) ELSE curEpoch]
SignatureInHead(i) == untrusted.approvals[i + 1] = HeadEpoch.keys[i]

\* Mutant: the deposit of the submitter stays his.
SeizeNothing == balanceOf' = balanceOf
Seize == balanceOf' = [balanceOf EXCEPT ![lastSubmitter] = @ - LockEthAmount]

\* Half of the deposit goes to the receiver, if the call succeeds; the rest
\* stays in the contract.
Challenge(i) ==
    /\ "challenge" \notin paused
    /\ now < lastValidAt
    /\ i \in untrustedSignatureSet /\ ~SignatureInHead(i)
    /\ balanceOf[lastSubmitter] >= LockEthAmount
    /\ Seize
    /\ lastValidAt' = 0
    /\ \/ held >= LockEthAmount \div 2 /\ held' = held - LockEthAmount \div 2
       \/ UNCHANGED held
    /\ UNCHANGED <<lastSubmitter, untrusted, untrustedNextEpoch,
                   untrustedSignatureSet, chainVars, paused, now>>

\* The admin initialises the contract with what NEAR has.
InitWithValidators ==
    /\ ~initialized /\ epochs[0].numBPs = 0
    /\ epochs' = [epochs EXCEPT
                    ![0] = SetBlockProducers(@, ProducersOf[Genesis.epochId])]
    /\ UNCHANGED <<moneyVars, headVars, initialized, curEpoch, curHeight, blocks_,
                   paused, now>>

InitWithBlock ==
    /\ ~initialized /\ epochs[0].numBPs # 0
    /\ initialized' = TRUE
    /\ curHeight' = Genesis.height
    /\ blocks_' = [blocks_ EXCEPT ![Genesis.height] = Genesis]
    /\ epochs' = [epochs EXCEPT
                    ![0].epochId = Genesis.epochId,
                    ![1] = [SetBlockProducers(@, Genesis.nextBps) EXCEPT
                                !.epochId = Genesis.nextEpochId]]
    /\ UNCHANGED <<moneyVars, headVars, curEpoch, paused, now>>

-----------------------------------------------------------------------------
(* addLightClientBlock.                                                    *)

\* A head that can no longer be challenged is committed first.
Commits == lastValidAt # 0 /\ now >= lastValidAt
CommittedHeight == IF Commits THEN untrusted.height ELSE curHeight
CommittedEpoch == IF Commits /\ untrustedNextEpoch THEN Slot(curEpoch, 1)
                  ELSE curEpoch

\* Mutant: any later block replaces the head.
MayReplaceByLater(b) == now < lastValidAt => b.timestamp > untrusted.timestamp
MayReplace(b) ==
    now < lastValidAt => b.timestamp >= untrusted.timestamp + ReplaceDuration

\* Mutant: the height is not compared.
NewHeightAny(b) == TRUE
NewHeight(b) == b.height > CommittedHeight

\* Mutant: the spare epoch is taken for the next one.
WrongSpareSlot == Slot(CommittedEpoch, 1)
SpareSlot == Slot(CommittedEpoch, 2)

AddLightClientBlock(a, b, fromNextEpoch) ==
    LET this == epochs[IF fromNextEpoch THEN Slot(CommittedEpoch, 1)
                       ELSE CommittedEpoch]
    IN
    /\ "addBlock" \notin paused
    /\ initialized /\ balanceOf[a] >= LockEthAmount
    /\ MayReplace(b) /\ NewHeight(b)
    /\ fromNextEpoch <=> b.epochId # epochs[CommittedEpoch].epochId
    /\ b.epochId = this.epochId
    /\ Len(b.approvals) >= this.numBPs
    /\ VotedFor(b, this) > this.stakeThreshold
    /\ fromNextEpoch => b.hasBps /\ b.bpsHashOk
                        /\ Len(b.nextBps) <= MaxBlockProducers
    /\ curHeight' = CommittedHeight /\ curEpoch' = CommittedEpoch
    /\ blocks_' = IF Commits THEN [blocks_ EXCEPT ![untrusted.height] = untrusted]
                  ELSE blocks_
    /\ untrusted' = b /\ untrustedNextEpoch' = fromNextEpoch
    /\ untrustedSignatureSet' = SignatureSet(b, this)
    /\ epochs' = IF fromNextEpoch
                 THEN [epochs EXCEPT ![SpareSlot] =
                        [SetBlockProducers(@, b.nextBps) EXCEPT
                            !.epochId = b.nextEpochId]]
                 ELSE epochs
    /\ lastSubmitter' = a /\ lastValidAt' = now + LockDuration
    /\ UNCHANGED <<moneyVars, initialized, paused, now>>

-----------------------------------------------------------------------------
\* What the watchers look for.
HeadIsValid == \A i \in untrustedSignatureSet : SignatureInHead(i)

\* Time passes; with watchers, not past the end of the challenge period of a
\* head that can be challenged.
Tick ==
    /\ now < MaxTime
    /\ Watched /\ now < lastValidAt /\ now + 1 >= lastValidAt => HeadIsValid
    /\ now' = now + 1
    /\ UNCHANGED <<moneyVars, headVars, chainVars, paused>>

AdminPause ==
    /\ paused' \in SUBSET Flags
    /\ UNCHANGED <<moneyVars, headVars, chainVars, now>>

Next ==
    \/ \E a \in Account : Deposit(a) \/ Withdraw(a)
    \/ \E i \in Index : Challenge(i)
    \/ InitWithValidators \/ InitWithBlock
    \/ \E a \in Account, b \in NearBlock, n \in BOOLEAN : AddLightClientBlock(a, b, n)
    \/ Tick \/ AdminPause

Spec == Init /\ [][Next]_vars

-----------------------------------------------------------------------------
TypeOK ==
    /\ balanceOf \in [Account -> {0, LockEthAmount}] /\ held \in Nat
    /\ lastValidAt \in Nat /\ lastSubmitter \in Account \cup {NoAccount}
    /\ untrusted \in NearBlock /\ untrustedNextEpoch \in BOOLEAN
    /\ untrustedSignatureSet \in SUBSET Index
    /\ initialized \in BOOLEAN /\ epochs \in [0..2 -> Epoch]
    /\ curEpoch \in 0..2 /\ curHeight \in Nat
    /\ blocks_ \in [Height -> NearBlock \cup {NoBlock}]
    /\ paused \in SUBSET Flags /\ now \in Nat

(* The ether of the contract covers all deposits, whatever was challenged: *)
(* a withdrawal never fails for want of ether.                             *)
Depositors == {a \in Account : balanceOf[a] # 0}
Solvent == held >= LockEthAmount * Cardinality(Depositors)

(* As long as the head can be challenged, its submitter has the deposit a  *)
(* challenge takes: withdraw, replacement by another submitter and earlier *)
(* challenges never leave a head that cannot be challenged.                *)
ChallengeIsPaid ==
    now < lastValidAt =>
        lastSubmitter \in Account /\ balanceOf[lastSubmitter] = LockEthAmount

\* Mutant: the view does not wait for the end of the challenge period.
BlockAtEarly(h) ==
    IF blocks_[h] = NoBlock /\ lastValidAt # 0 /\ h = untrusted.height THEN untrusted
    ELSE blocks_[h]

(* blockHashes and blockMerkleRoots.                                       *)
BlockAt(h) ==
    IF blocks_[h] = NoBlock /\ Commits /\ h = untrusted.height THEN untrusted
    ELSE blocks_[h]

(* A block that the bridge has once confirmed for a height is confirmed    *)
(* for good: time, a late commit, a challenge and new blocks change it     *)
(* neither in the mapping nor in the view that anticipates the commit.     *)
ConfirmedStays ==
    [][\A h \in Height : BlockAt(h) # NoBlock => BlockAt(h)' = BlockAt(h)]_vars

(* bridgeState().currentHeight                                             *)
CurrentHeight == IF Commits THEN untrusted.height ELSE curHeight

(* The confirmed height never decreases, and every confirmed block is at   *)
(* most that high.                                                         *)
HeightGrows == [][CurrentHeight' >= CurrentHeight]_vars
NothingAboveCurrent ==
    \A h \in Height : BlockAt(h) # NoBlock => h <= CurrentHeight

(* Replacing a head that is still open to challenges brings the bridge     *)
(* closer to NEAR's clock than it delays the confirmation (the constructor *)
(* requires replaceDuration > lockDuration * 1000000000), so that          *)
(* replacements cannot put off the confirmation for ever.                  *)
Lag(validAt, block) == validAt * NanosPerSecond - block.timestamp
ReplacementCatchesUp ==
    [][now < lastValidAt /\ lastValidAt' # 0 /\ untrusted' # untrusted
        => Lag(lastValidAt, untrusted)' < Lag(lastValidAt, untrusted)]_vars

(* If every head with an invalid signature is challenged in time, only     *)
(* genuine blocks of NEAR are confirmed, although signatures are never     *)
(* checked on submission and a bad head brings its own next epoch.         *)
ConfirmedAreGenuine ==
    Watched => \A h \in Height : BlockAt(h) # NoBlock => BlockAt(h) \in Genuine

(* What the head's approvals weigh, read back from the packed stakes, is   *)
(* more than two thirds of the stake that NEAR gives the producers of its  *)
(* epoch.                                                                  *)
HeadHasQuorum ==
    Watched /\ lastValidAt # 0 =>
        LET bps == ProducersOf[untrusted.epochId] IN
        3 * SumOf([i \in untrustedSignatureSet |-> bps[i + 1].stake])
            > 2 * SumOf(Stakes(bps))
=============================================================================
