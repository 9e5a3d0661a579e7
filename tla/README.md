# Verification of the ZKU assignments

TLA+ models of the programs in this repository, the TLC runs that check them on
small instances, and TLAPS proofs about them.

## Inventory

The repository is a collection of separate programs. None of them calls
another, except inside one directory. `Assignment N` below is `src/Assignment N`.

| Part | State | Operations | Hard behaviour | What makes it correct |
|---|---|---|---|---|
| zkSync mempool, `Assignment 4/mod.rs`, `mempool_transactions_queue.rs` | account maps; reverted, ready, pending and priority queues; the database | `add_tx`, `add_batch`, `add_priority_ops`, `propose_new_block` with its three selections, `UpdateNonces`, `restore_from_db` | several handlers interleave at every await; crash and restart; a send that fails; reverted blocks; transactions and messages sent again | nothing accepted is lost or executed twice; operations in order; blocks fit; reverted transactions in their place |
| NEAR light client, `Assignment 6/NearBridge.sol` | deposits; one head that can be challenged; a ring of three epochs; confirmed blocks | `deposit`, `withdraw`, `challenge`, `initWith*`, `addLightClientBlock`, views | optimistic: signatures are checked only when challenged; time confirms a head before a transaction commits it | only genuine blocks are confirmed; what was confirmed stays; deposits are covered and challenges paid |
| RollupNC, `Assignment 4/RollupNC.sol` | pending deposit subtrees, `queueNumber`, the deposit height, roots | `deposit`, `processDeposits`, `updateState`, `withdraw`, tokens | a binary counter of subtrees; deposits between the coordinator's calls | every deposit is in exactly one processed subtree; one exit per transaction |
| Update circuit, `Assignment 4/update_state_verifier.circom` | none (constraints) | the chain of intermediate roots | range of field elements | conservation of balances |
| Ethereum light client, `Assignment 6/EthereumLightClient.sol` | a tree of block headers, the highest block | `initialize`, `addBlockHeader` | forks, total difficulty | the canonical chain is the heaviest |
| Harmony light client, `Assignment 6/HarmonyLightClient.sol` | roles, checkpoints by epoch | `submitCheckpoint`, `getLatestCheckPoint`, `isValidCheckPoint` | choice of the checkpoint for a block | the nearest later checkpoint is returned |
| Token lockers, `Assignment 6/TokenLockerOn*.sol` | spent receipts, locked tokens | `validateAndExecuteProof` | a receipt used twice | every burn unlocks once |
| Loans, `Assignment 5/*.sol` | loan state machine, interest and note balances | `createLoan`, `settleInitialBalance`, `settleLoan`, `withdrawInterest`, `adjustInterestBalance`, `repayLoan`, `markLoanAsDefault` | time against maturity | a loan can always be repaid or defaults |
| Ballot, `BackgroundAssignment/3_Ballot.sol` | voters, weights, delegates | `giveRightToVote`, `delegate`, `vote` | chains of delegation | votes are conserved, no cycle |
| Merkle tree and NFT, `Assignment 1/Question2-NFT` | leaves, inner hashes | `addLeaf`, `checkLeafExists`, `safeMint` | incremental update, callback in the middle of a mint | the root is the root of the leaves |
| Card commitments, triangle jump, `Assignment 3`, the contracts | committed cards; a counter of moves | `commit`, `performMove` | - | no card is committed twice |
| Witness calculators, `merkleProof_cpp`, `CardCommit_cpp`, `triangleJumpVerifier_cpp`: `main.cpp`, `calcwit.cpp` and one circuit each | tables of the `.dat` file; signals, components, inputs still missing | `loadCircuit`, `loadJson`, `setInputSignal`, `_create` and `_run` of each template, `getTrace`, `writeBinWitness` | components run when their last input is set; hand-computed offsets into one array; a hash table; incomplete and surplus input files | the witness is that of the circuit's function of exactly the values of the file, or there is none |
| Field library, `fr.cpp`, `fr.hpp`, `fr.asm` in the same directories | elements in four representations, and the raw class | arithmetic, conversions, division and powers through GMP | representations mix; each result is reduced at most once | whatever the representations, the result is that of the field |
| Generated verifiers (snarkjs), JavaScript calculators, `PDFs`, logs | - | - | - | see Not modelled |

## Modules

| Module | Models | Used by |
|---|---|---|
| `MempoolQueue` | transactions, batches, chunks, and the operations of the in-memory queues as pure operators | `Mempool` |
| `Mempool` | the handlers, the database, restart; external: state keeper, watcher, clients, revert tool | `MCMempool`, `MempoolProofs` |
| `Ledger` | abstract: what is stored, answered and confirmed, and a chain of blocks with the next operations and stored transactions | refined by `Mempool` |
| `MCMempool` | instances: two accounts, up to three variants, one or two operations, one or two handlers | the `Mempool*.cfg` |
| `MempoolProofs` | the theorems about what `Mempool` accepts and queues, its types, and the order of its operations; what executing a block does to the accounts | `MempoolBlockProofs` |
| `MempoolBlockProofs` | the theorems about the transactions of blocks and about the accounts, and that `Mempool` implements `Ledger` | - |
| `NearBridge` | the whole contract; external: NEAR, Ed25519, the admin, the clock | `MCNearBridge`, `NearBridgeProofs` |
| `MCNearBridge` | instances: two submitters, three producers, four genuine epochs, bad blocks | `NearBridge.cfg` |
| `NearBridgeProofs` | the theorems about `NearBridge` | - |
| `RollupNC` | deposits, their insertion and batches; external: the coordinator's prover, hashes, verifiers, tokens | `MCRollupNC`, `RollupNCProofs` |
| `MCRollupNC` | instances: nine deposits, two batches, a tree of 16 accounts | the `RollupNC*.cfg` |
| `RollupNCProofs` | the theorems about `RollupNC` | - |
| `Ballot` | the whole contract | `MCBallot`, `BallotProofs` |
| `MCBallot` | instance: four accounts, two proposals | `BallotDelegation.cfg` |
| `BallotProofs` | the theorems about `Ballot` | - |
| `MerkleTree` | the incremental tree and the check of a leaf | `ZKMint` |
| `ZKMint` | minting with its callback; external: ERC721, the receivers, reverted calls | `MCZKMint`, `ZKMintProofs` |
| `MCZKMint` | instances: a plain receiver and a contract, a tree of four leaves | the `ZKMint*.cfg` |
| `ZKMintProofs` | the theorems about `ZKMint` and its tree | - |
| `FrElement` | elements, their representations and the operations on them | `Fr` |
| `Fr` | a program that calls any operation on any variables | `MCFr`, `FrProofs` |
| `PrimeField` | abstract: variables hold elements of the field, a call computes one operation | refined by `Fr` |
| `FrProofs` | the theorems about `Fr`: what it keeps, and that it implements `PrimeField` | - |
| `MCFr` | instance: the field of 23 elements, R = 64, words of 8, shorts from -4 to 3, two variables | `Fr.cfg` |
| `CalcWit` | signals, components, calls; what all generated templates do with them | the circuits |
| `MerkleProofCircuit`, `CardCommitCircuit`, `TriangleCircuit` | the templates of the three circuits | `WitnessCalculator` |
| `WitnessCalculator` | `main.cpp` and `setInputSignal` around one of the circuits; external: the compiler's `.dat` file, the JSON parser | `MCWitness` |
| `WitnessFunction` | abstract: an input file is answered by the witness of the circuit's function, or by an error | refined by `WitnessCalculator` |
| `Induction` | lemmas for the proofs: induction and recursion over numbers, powers of two, folds, sums, flattened sequences, walks through states | the `*Proofs` |
| `MCWitness` | instance: the field of 17 elements, 5 and 6 rounds, 31 input files | `Witness.cfg` |

### Mempool

`accountNonces` and `accountIds` are the maps of `MempoolState` (`Absent` and
`NoAddress` for a missing key); `revertedTxs`, `readyTxs`, `pendingTxs`,
`priorityOps` and `lastProcessed` are `MempoolTransactionsQueue`; `db*` is the
database. A variant (a transaction or a batch) is a model value with a sequence
of transactions, and stands for one request: nothing in the code keeps a client from
sending a transaction again, which is then another variant with the same hash
(`SameTx`); both are checked, stored and queued. `handler[h].pc` is the await at which a transactions handler is;
`blocksPc` that of the blocks handler, or the panic that ended it.

One action is one critical section of the lock, one call to the database or one
message, so the handlers interleave exactly where the code awaits: `ReceiveTx`,
`CheckNonce` (one read lock for each transaction), `CheckBatchSize`, `InsertTx`,
`AddTx` are `add_tx`/`add_batch`; `ReadMaxSerial`, `InsertOps`, `AddOps` are
`add_priority_ops`; `SelectReverted`, `RevertedOpDoesNotFit`,
`RevertedOpIsMissing`, `SelectPriorityOps` and `PrepareTxForBlock` are the three
selections of `propose_new_block`, each under its own write lock. A loop that pops
a queue is the length of the prefix it consumes (`StopsAt`): the longest one
that fits, as in the code. `SendBlock` and `SendFails` are the two outcomes of the send
of a block (`mod.rs:494`): when the state keeper has dropped its end the blocks handler
panics, and what it popped is in no queue, while the transactions handlers go on until
the server notices and stops. `RestoreFromDb` is `restore_from_db` with its garbage
collection, which goes by hash and so gives up the copies of what was executed too.

`Ledger` is what the mempool promises, for a reader who does not care about queues:
`Store`, `Answer`, `Confirm`, `Commit`, `Revert` and `Collect` of four variables. In the mapping
(`Promised`) the stored transactions are those in any of the three tables (`Durable`), the
chain is the table of blocks without the accounts. `InsertTx` stores, `AddTx` answers,
`InsertOps` confirms, `CommitBlock` and `RevertBlock` are the steps of those names, a restart
collects: it gives up what is stored only if a copy of it is in the chain. Every other
step, a failing send and a crash among them, leaves the ledger alone.
A block may have a transaction that was stored and never answered: the server may have
stopped in between.

External and modelled from how `mod.rs` uses it: the state keeper asks for one
block at a time, executes what it gets before it asks again (`keeperNext`),
commits in order and sends `UpdateNonces` after the commit; the watcher sends
confirmed operations in ascending ranges and may repeat any of them, with
`WatchWindow` requests under way; the revert tool takes back the last committed
block while the server is down. The state keeper executes a batch whole or not at
all and drops what it refuses.

### NearBridge

A block is a record and is its own hash; `blocks_` stands for `blockHashes_` and
`blockMerkleRoots_`. `epochs` is the ring of three, `Slot(cur, k)` its slots, and
`SetBlockProducers` keeps the packing of two stakes in a word, what it leaves in
place and what it clears. `AddLightClientBlock` is the whole call: the commit of a
head whose time is over, the checks, the new head, its signature set and the next
epoch. `BlockAt` and `CurrentHeight` are the views, which anticipate the commit.

Assumptions on NEAR: a block that more than two thirds of the stake of its epoch
signed is genuine (`NearSafety`), and genuine blocks name the producers of the
next epoch. `Watched` is the assumption the contract is built on: a head with an
invalid signature is challenged before its time is over. It constrains only the
clock (`Tick`); without it (`Watched = FALSE`) bad heads are confirmed and the
remaining properties are checked nevertheless.

### RollupNC

A hash is the tree it is the root of (`Tree`): the deposits at its leaves, its
height, and whether it is perfect. The root of the balance tree is the list of
subtrees inserted with their positions, and the batches applied. `Deposit` is the
whole call with its hashing loop: `Rounds` is how often the loop runs, which
depends on `queueNumber` alone, and the guard `rounds < Len(pushed)` is the
out-of-bounds check that reverts the call when hashes are missing.
`ProcessDeposits` is the whole call, with the `uint256` subtraction (`Word`).
`ProveUpdate` is off chain; between it and `UpdateState` anything may happen.
`WholeBatches` is a coordinator who waits until the first subtree has the height
`depositSubtreeHeight`; the contract does not require it, and `rollup_count` shows what
becomes of `queueNumber` without it.

### Ballot

One action for each function. `Chain` and `Ends` are the loop of `delegate`: no
end is a loop that runs out of gas. `entitled` and `cast` are not in the contract:
they record who got a right and who called `vote`, so that counts can be compared
with what happened.

### MerkleTree and ZKMint

`node` is the array as the contract lays it out, `Climb` one round of the loop
of `updateTree`. A hash is a bracketed sequence of what was hashed, so hashes are
equal when their trees are. `SafeMint` is the call up to the receiver's callback,
`Minted` what follows it, `Reverted` a failed call; `calls` is the stack of nested
calls with the state a revert restores.

### Field library

The four 64-bit words of a long number are one number (`Fr_toInt` alone looks at them one
by one: `LowestWord`, `HigherWords`, in words of `Word`), and `R` is the code's
2^256: the reduction word by word of `Fr_rawMMul` gives what one reduction by `R`
gives. `Short`, `Long`, `ShortMontgomery`, `LongMontgomery` are the types of
`FrElement`; `Raw` elements of `RawFr` are long numbers in Montgomery form. Each
operator of `FrElement` follows the case distinction of the code on the types of
its operands. A product of two shorts is always long: the code stores the short that fits
and falls through to the long one (`fr.asm:2393`, `2314`). Powers and inverses are those of GMP (`PowM`, `Invert`), which says
nothing of the inverse of zero; `DivideByZero` ends the program. `RawFr_exp` takes one
step for each bit.

`Fr` calls the operations in any order. Two preconditions hold for every caller in
the repository and are built in: the result is not an operand (`Fr_add` and
`Fr_sub` write its type before they convert an operand, `fr.asm:1194`; the circuits
compute into `expaux`), and `Fr_toInt` is not called on a long number in Montgomery
form (it goes on with the words it did not convert, `fr.asm:285`; the circuits call
it on loop counters). `Value` is the refinement mapping to `PrimeField`: what number
an element stands for.

### Witness calculators

`signalValues` and `componentMemory` are the arrays of `Circom_CalcWit`;
uninitialised memory is `Unset`. `stack` holds the calls of `_run` functions under
way with the point each has reached: `SetInput` copies a value into an input of a
subcomponent, counts it down and calls the subcomponent when it was the last. One
action is one statement that can run a subcomponent, or one round of a loop that
cannot. Signals and constants lie where the code puts them, as functions of the
numbers of rounds; `MerkleLayout` and `CardLayout` state that with the code's 91
and 220 rounds these give the code's numbers.

`loadJson` takes one value of the file at a time; names come in the order of the
parser's map, arrays are flattened (`Scalars`), numbers go through a double
(`Double`). `Found` is the search of the input table, with its step to the slot
after its own that is not reduced modulo the size (`calcwit.cpp:58`): what lies
behind the table is any of `BehindHashmap`. `abort` is `assert(false)`, a failed
assert of the circuit or an exception nobody catches.

The field operations of the circuits are addition and multiplication modulo `q`:
that the library computes them is what the run `field` and `FrProofs` are about.
`setInputSignal` stores value i of a name in signal `signalid + i` and knows no length of
inputs, so surplus values go to the inputs behind (`calcwit.cpp:72`).

`WitnessFunction` defines the hashes from their definitions, without signals or
components, and says which files cover the inputs (`Covered`): every place gets one
value, from whichever name; `Outcome` reads the written file with the witness list and is the
refinement mapping.

## Runs

| Run | Question | Instance |
|---|---|---|
| `mempool_revert` | is anything accepted lost, accounted wrongly or executed more often than accepted, and what do a crash, a failing send, two reverted blocks and a restart leave? does the chain stay one that `Ledger` allows? | one transactions handler beside the blocks handler, three variants (one creates an account, one is that transaction sent again, one is a batch that closes its account and is valid later), one operation, database errors |
| `mempool_panic` | do operations stay in order even when requests overlap? | two handlers, two requests under way, operations that do not fit together; both panics happen |
| `mempool_lost_op` | violation: the operation a reverted block needs is found | see findings |
| `mempool_live` | is everything accepted committed, and no operation lost on the way? | a late transaction, two operations that need a block each, a crash or a failing send, database errors, fairness |
| `near` | are only genuine blocks confirmed, and for good? are deposits covered and challenges paid? | four epochs around the ring; blocks with invalid or too few approvals; pauses; withdrawals |
| `rollup_queue` | is a deposit or a batch ever lost, does the queue stay a binary counter? | nine deposits, two batches, four places in the balance tree |
| `rollup_count` | violation: `queueNumber` counts the waiting deposits | as above, with a coordinator who does not wait |
| `ballot_delegation` | does every right count once, where its chain leads? | four accounts, two proposals |
| `mint_nested` | does every token get one leaf; are filled subtrees right? | four leaves, calls nested three deep |
| `mint_root` | violation: the root is that of the leaves | as above |
| `field` | does the library compute in the field, in every mix of representations? | see `MCFr`; every operation on two variables from every reachable pair of elements |
| `witness` | is the witness that of the function of the values in the file, and does every component run once, with all inputs? | 31 files: complete, nested, negative, beyond the field, rounded, incomplete, surplus with and without the next input |

Bounds. `MaxTime`, `MaxCrashes`, `MaxReverts`, `WatchWindow`, `MaxSerial` and
`MaxHeld` are guards or sets of the modules and are named where they are declared.
Two operations are the least with one that is queued behind
another and does not fit with it; a crash and a failing send share `MaxCrashes`, so one of them
happens in a behaviour; two handlers, the least that overtake each other, are in
`mempool_panic`, one handler that races with the blocks handler over three variants in
`mempool_revert` (with two its states are too many); two reverts the least in which reverted transactions of two
blocks meet in the queue; four epochs the least that use every slot of the ring
again. `near` runs with watchers (`Watched`); without them bad heads are
confirmed and only the proofs cover the other properties. Time 14 in `near` lets five
heads be confirmed one after another. Nine deposits reach a subtree of height 3 and one deposit after it; four
accounts the least with a chain of two delegates and a bystander; a tree of two
levels the least in which a node above the leaves has a neighbour.

The field of `field` has 23 elements, the least prime with shorts of either sign, numbers
beyond the shorts, both outcomes of every conditional subtraction, and numbers of more
than one word whose lowest word alone is near that of `q` (`ShortLimit^2 < q`, `2 q <= R`
and `ShortLimit <= q % Word` as in the code). That of the witness calculators has 17. The generated loops are the same
for any number of rounds above the first, the second and the last one, which are
treated apart: 5 and 6 rounds have each of them and rounds between. A table of
eight slots with ten names makes names collide and puts one in the last slot; a name that is no
input is looked for with and without its slot taken.

`TypeOK` is checked by the run of the witness calculators. Those of
`Mempool`, `NearBridge` and `RollupNC` are proved, that of `Fr` is `Canonical`. Those of
`Ballot` and `ZKMint` are declarations no run checks.

Fairness (`FairSpec` of `Mempool`): the tasks of tokio are scheduled weakly
fairly, the state keeper asks again and again and commits, time passes, a
server whose blocks handler has panicked stops (`wait_for_tasks`), and a stopped server
restarts. `FairSpec` of `WitnessCalculator`: a program of one thread
runs until it ends. No client, watcher, database error, failing send, other
crash or revert is ever forced.

## Findings

* `mempool_lost_op`: `select_reverted_operations` pops an operation that does not
  fit the block and does not push it back (`mod.rs:327-334`); the next request
  panics with "Operation not found in the priority queue" (`mod.rs:321-325`).
* `mint_root`: `updateTree` uses the parity of the leaf on every level
  (`merkleTree.sol:45`); "Recalculate nodes and root hashes on path based on the new
  leaf added" (`merkleTree.sol:34`) fails after the second leaf of a tree with two
  levels. Filled subtrees and the full tree are right.
* `rollup_count`: `processDeposits` subtracts `2**depositSubtreeHeight`
  (`RollupNC.sol:216`) whatever it removed, and the height never falls, so `queueNumber`
  does not count the waiting deposits (`QueueNumberCounts`) once a lower subtree is
  processed after a higher one: it wraps below zero.
* `mempool_revert`: "all transactions will be lost on node shutdown" (`mod.rs:9`), but
  everything accepted is stored first and loaded again (`AckedIsDurable`).
* `mempool_live`: a transaction becomes ready "once valid_from is less than block
  timestamp" (`mod.rs:594-595`), but the code takes it as soon as they are equal
  (`mempool_transactions_queue.rs:155`); `AcceptedIsCommitted` holds of a transaction valid
  from the last timestamp on.
* `field`: `Fr_toInt` range-checks only the lowest word of a long number
  (`fr.asm:339-347`), so numbers far from zero can be returned as small negative ones
  instead of calling `Fr_fail`, and of a long Montgomery number it reads the words before
  the conversion (`fr.asm:285-295`). `ReadsAgree` says of `Fr_toInt` what is left: an index
  near zero is read right. The circuits call it on loop counters.
* `witness`: a file without an input is accepted when a value too many of an input before
  it takes the place (`calcwit.cpp:72`), although the program reports "Not all inputs have
  been set" (`main.cpp:212`) of incomplete files: `card` [12, 2] without `cardSuit` gives a
  witness.
* `witness`: the asserts of the generated triangle circuit test the constant 1
  (`triangleJumpVerifier.cpp:57-64`) and no statement reads an input, so a witness is
  written for any coordinates: "distance between any 2 points would not be 0"
  (`triangleJumpVerifier.circom:7`) and `assert(distance <= energy*energy)`
  (`triangleJumpVerifier.circom:57`) do not hold of it. The run writes one for two equal
  points, and `WitnessFunction` has no condition for that circuit.

Conditions the passing runs are given, without which they fail:

* `WholeBatches` in `rollup_queue`, for `PendingIsBinary` (see `rollup_count`).
* `DelegateTo` without the zero address in `ballot_delegation`: the contract marks who
  delegates to it as having voted without a delegate, and a later delegation to him
  is added to proposal 0.
* `SizesSettled` in `mempool_revert`: what is accepted fits an empty block whatever
  accounts are known. `mod.rs:699-707` checks the size of a batch with the accounts known
  on arrival; an account deleted later makes its transfer a more expensive one
  (`TransferToNewOp`). With five chunks for that and blocks of five, `RevertedInPlace`
  fails: a reverted batch that has outgrown the block is overtaken by an operation
  executed after it before.
* One request of confirmed operations at a time and no reverted block in `mempool_live`
  (`WatchWindow = 1`, `MaxReverts = 0`): requests that overlap make the assertion of
  `select_priority_ops` fail, a reverted block loses operations as `mempool_lost_op` shows.

What the passing runs do not say:

* A transaction that was accepted twice is queued twice, and nothing in the mempool keeps
  its copies from being proposed in two blocks: `TxAtMostOnce` and `Ledger` count
  acceptances, not hashes. That the state keeper refuses the second one, whose nonce is
  spent, is outside of these files (the model has it drop what it refuses).
* Reverted transactions keep their place behind priority operations
  (`RevertedInPlace`), but are not always used before all others, as
  `mempool_transactions_queue.rs:44` says: those that do not fit until a commit
  has updated the account map are overtaken (`mod.rs:373-386`).

## Proofs

`NearBridgeProofs` proves every safety property of `NearBridge` for all values
of the constants: any set of blocks, any number of accounts and producers, any
durations, unbounded time. It rests on `NearAssumption`, `DurationAssumption` and
`NearSafety`, which TLC evaluates on the instances. That stakes add up to a number,
in whatever order the fold takes them, is `StakesAddUp`.

* `TypeCorrect`: `TypeOK` is inductive. The step that needs work is
  `SetBlockProducers`, whose arrays keep what lies behind the new list.
* `ChallengesArePaid`, `AlwaysSolvent`: inductive on top of the types. A challenge
  takes a deposit from the set of depositors and at most half of it from the
  ether.
* `NeverAboveCurrent`, `ConfirmedForGood`, `HeightNeverDecreases`: from
  `ChainInv`. The views are not inductive by themselves: one has to know that the
  head is above everything committed and that nothing is committed before the
  initialisation.
* `ReplacementsCatchUp`: arithmetic from the constructor's condition.
* `OnlyGenuineConfirmed`, `HeadsHaveQuorum`: from `GenuineInv`. The epochs of the
  ring that count are NEAR's (`IsNears`), what was checked of the head when it was
  added still holds (`HeadInv`), and the spare slot holds what the head brought,
  which is NEAR's only if the head is. `SlotsDiffer` is why a bad head can do no
  harm: the slot it writes is neither the current epoch nor the next one.
  `HeadIsGenuine` turns valid approvals into the stake NEAR counts, through the
  packed words.

`TypeCorrect`, `NeverAboveCurrent` and `HeightNeverDecreases` are proved only, no run
checks them.

`FrProofs` is about the field library for every modulus, base of
the Montgomery form, range of shorts, set of variables and numbers that
`FrAssumption`, `NpAssumption`, `NumbersAssumption` and `InverseAssumption` (`q` is
prime: used only for inverses and quotients) allow. TLC evaluates them in `field`;
that the code's own constants satisfy them is not checked by a tool.

* `AlwaysCanonical`: every result needs at most one subtraction of `q`, but only if its
  operands are below `q`, so that has to be carried along, and with it that operands
  stay of the type the call under way needs and the loop of `exp` computes with field
  elements: `IInv == Canonical /\ LoopTyped /\ CallTyped`.
* `AlwaysReadsAgree`: the readings of an element, case by case on its representation. For
  `Fr_toInt` it is that a number from `q - ShortLimit` on has the higher words of `q` and a
  lowest word just below that of `q`, since `ShortLimit <= q % Word`.
* `MontgomeryProduct`: `m = t * np % R` makes `t + m * q` a multiple of `R`
  (`SumIsMultiple`), so the shift is a division, and the result times `R` leaves the
  remainder of `t` (`ReduceDivides`).
* `FieldImplemented`: the initial states and the steps of `Fr` are those of `PrimeField`
  under the mapping `Value`. `Same` is congruence modulo `q` with its laws of
  arithmetic; `InverseOfR` follows from `np`; each operation is then an identity between
  numbers with factors `R` and `RInverse` that cancel. `Factor` says which factor the
  long part of an operand has, so the twelve kinds of products of `Fr_mul` come down to
  three. The loop of `RawFr::exp` needs an invariant: what it has accumulated is the
  base to the power of the bits of the exponent it has seen (`Seen`), so that the last
  round leaves the power `PrimeField` asks for. The laws of powers are proved by
  induction on the exponent.

`Induction` is what the others rest on where something is computed by recursion.
The library's induction theorems take the property as an operator, which the provers
cannot instantiate, so `SetInduction` and `IntervalInduction` take the set of the
numbers that have it, and are proved from the well-foundedness of `<`; `Recursion` shows
that a recursive function exists, without which nothing is known of the `CHOOSE` that
defines it. `FoldsExist` is the same for the folds of the community modules, which choose
the next element of a set: whatever they choose, each step leads from one value of the
type to another, so the fold is of the type (`SeqFoldIn`). From these come powers of two,
division, `FlattenSeq` and the sums of `MapThenSumSet` (`SumsExist`, `SumsAreNat`). A
`Walk` is a sequence of labels that leads from a state to another by a relation; walks are
joined, cut at their first label and extended (`WalkAppend`, `WalkFirst`, `WalkOn`).

`MempoolProofs` and `MempoolBlockProofs` are about any accounts, variants, handlers,
block size, and any number of crashes and reverted blocks, under the assumptions of
`MempoolQueue` and `Mempool`, and those named below of three theorems. They start with lemmas about sequences as the queues
use them (`Joined`, `CutInTwo`, `Selected`), which say what becomes of the set of their
elements.

* `AnsweredIsStored`, `NoTransactionLost`: neither is inductive, and each needs the
  other (a restart loses nothing because everything accepted is stored). `TxInv`
  adds to them that a handler about to queue a transaction has stored it
  (`StoredFirst`) and that a block gets its transactions in the last of the three
  selections (`SelectedLast`), so none overwrites what another took from a queue.
  `SelectRevertedHolds` and `PrepareTxHolds` show that the loops move elements and
  drop none, `RevertBlockHolds` that taking back a block leaves the set of stored
  transactions as it was. Only a failing send takes accepted transactions out of memory
  (`SendFails`); `NoTransactionLost` says that until the restart they are in the tables it
  loads. A restart gives up an accepted transaction only when a copy of it is in the chain
  (`AmongSame`).
* `QueuedOnce`: the blocks handler only pops (`ProposalPops`); what a handler adds is
  sorted and was not queued when it took the lock, whatever it was when the handler
  read the database.
* `MempoolTypes`, `OpsAreInOrder`: one induction. `TypeOK` alone is not inductive:
  `lastProcessed` is a serial id after a restart only because the committed blocks list
  the operations in order. `Types` adds that the sets a handler sorts are finite,
  `OrderInv` that the chain runs from 0 to where the open blocks begin, these to where
  the state keeper asks next (`Continue`), that at most one request is under way and
  names that place (`AskedOnce`), and that a stopped process holds nothing (`Stopped`).
* `NoOperationLost`, `OperationsComeInOrder`: for `MaxReverts = 0` and `WatchWindow <= 1`,
  without which both are false (see above). The confirmed operations are `0..c-1`, those
  in blocks and in the queue `0..e-1` with `e <= c`, and the request under way continues
  the former until it has stored its operations and the latter afterwards (`OpsTracked`,
  `Carries`). The hard parts: the handler drops what was executed when it read the database
  and may be wrong by the time it adds the rest; `lastProcessed` can name an operation that
  is still queued, because the code writes it before it finds that the operation does not
  fit (`QueuedTo`); a request that fails lets the watcher start again below what is stored.
  `SequenceInv` was checked with TLC for one and two handlers before it was proved.
* `NowhereTwice`: on top of `TxInv` and `OrderInv`. No place lists a transaction twice (`PlacesOnce`), no
  two places share one (`PlacesApart`; it includes the reverted table against the
  table of stored transactions), and what a handler holds is in none of them
  until it has been added (`HeldApart`): no two handlers hold the same variant, and a
  stored one of a handler that failed cannot come back from the database as well.
  Copies of a transaction are apart like any two variants: each is a request of its own.
* `ProposalsFit`: when the transactions are selected `chunksLeft` is what the operations
  of the block leave (`ChunksCounted`), and the accounts, on which the size of a
  transfer depends, do not change until the block is sent, since the same task applies
  `UpdateNonces` messages.
* `RevertedKeepTheirPlace`: under `SizesSettled`. What has been accepted fits an empty block
  (`AcceptedFit`), and what waits in the other queues is stored as not reverted
  (`QueuedStored`). `PlaceInv` has a part for every place a reverted transaction can be in: in
  the table and in the queue the marks never decrease and none is before the end of the chain
  or the place the state keeper asks for (`TableInPlace`, `QueueInPlace`), a block that has
  taken one ends at its mark (`BlocksInPlace`), and there is no other place
  (`RevertedSomewhere`), except after a failing send, when they are in the table alone.
* `AccountsMirrorChain`: `UpdateNonces` messages arrive late, so the accounts in memory are
  those of the database only in the end. The invariant is that the updates left of the message
  under way and then the messages waiting lead from the one to the other (`CatchesUp`, a
  `Walk`). That the updates of a block lead from the accounts before it to those after it is
  `ExecuteLeads`: by induction over the transactions of a batch, which counts whole or not at
  all, and over the variants of a block. The ids follow the nonces, since two addresses have
  different ids (`IdsMatch`). That the committed accounts are well typed, which `TypeOK`
  needs, comes from the same lemma (`CommitExecutes`).

* `LedgerKept`: `Mempool` implements `Ledger`, step by step (`StoreStep`, `AnswerStep`,
  `ConfirmStep`, `CommitStep`, `RevertStep`, `OtherSteps`). Most of what a commit needs is
  proved above: that the block continues the chain (`OrderInv`), that its transactions are
  stored (`TxInv`) and in no committed block (`PlacesApart`). New is `OpsConfirmed`: the
  queue, the blocks, and the handlers that wait to add operations have confirmed ones only,
  which the database never takes back. It needs no hypothesis on reverts or requests: where
  `NoOpLost` or the order of the queue fails, an operation is late or the blocks handler
  panics, but no block with a gap is sent.

`RollupNCProofs` is about any batches and deposits.

* `NoBatchIsUndone`: what makes `BatchesKept` inductive is that a proof waits only for a
  batch without a number (`ProofsOfNewBatches`): the batches in the current root have
  one, so no batch is applied twice.
* `NoDepositIsLost`: the loop of `deposit` merges neighbours, so it leaves the flattened
  list of deposits alone; the other end of the queue is taken whole.
* `PendingCountsInBinary`, `RollupTypes` need `WholeAndFew`: the coordinator takes
  subtrees of the height it says (`WholeBatches`), and the deposits are fewer than a
  uint256 counts (`MaxDeposits < Word`; every deposit is a transaction, so 2^256 of them
  never happen). Without the first they are false, as `rollup_count` shows: the contract
  checks the proof, not the height. The invariant is that the pending subtrees are perfect
  and strictly descending in height (`BinaryInv`); a deposit is then an increment with
  carry.

`BallotProofs` is about any accounts and proposals.

* `LoopsNeverClose`: an invariant with a witness. There is a function that gives everybody
  the end of his chain and one that gives his distance from it (`Forest`); a delegation
  lets one tree grow into another, and the check in the loop of `delegate` is that it is
  another.
* `EveryRightCounts`: the weight of a voter is the number of rights whose chain ends at
  him, and the votes of a proposal are the rights whose chain ends at one of its voters
  (`Counted`). It needs `OnlyAccounts`, that nobody delegates to `address(0)`: it has no
  key, and what is delegated to it is lost, as the contract has it.
* `SupportIsKept`: the same counting for one step, and the same hypothesis. `WinnerIsRight` is about the loop of
  `winningProposal`, for any numbers of votes.

`ZKMintProofs` is about trees of any size, calls of any depth and any receivers, without
further assumptions.

* `EveryTokenHasItsLeaf`: a nested call that fails restores an earlier state, so the
  invariant speaks of every state that an open call would restore: it is good for the
  calls below it exactly as the present state is good for all of them (`Good`,
  `GoodCall`).
* `FilledAreRight`: `updateTree` picks the side to hash on by the parity of the leaf at
  every height, which is wrong where the node itself has the other parity. A node that a leaf fills is
  the last of everything below it, so the leaf is odd and both children lie where the code
  looks (`OneMoreLeaf`); of the others none is filled, so what they hold does not matter
  yet, and no later leaf writes a filled one (`UpdateRight`). The invariant `TreeInv` says
  so of the present tree and of every tree a failing call would restore.
* `FullTreesProve`: the values of one height are terms of one length, and no two are the
  same (`NodesDiffer`), since the leaves are not (`IInv`) and hashes are free
  (`SameHash`). From the root down, what hashes to the node above the index was its child
  above the index, on the side that the index of the proof says (`ProvesOne`).
  That two different terms never hash to the same number is what the model assumes of the hash.

Only model-checked: the witness calculators and that they implement `WitnessFunction`,
because their modules use recursive operators; that the operations of the mempool are not lost and
come in order when requests are sent again after a failure is proved, but not that they are
executed in the end: liveness is out of the prover's reach.

## Plan

Done: the mempool with its proofs and its ledger, the NEAR light client with its proofs, the deposits and
updates of `RollupNC`, `Ballot`, the Merkle tree with the mint, the field library
with its refinement, the witness calculators with theirs. Next, in this order:

1. The witness calculators with recursive functions in place of recursive operators, so
   that their invariants can be proved.
2. `EthereumLightClient`, `HarmonyLightClient`, `TokenLocker`, and their composition
   into the bridge.
3. `withdraw` of `RollupNC`; a proof that the pending subtrees and the processed ones
   list the deposits in order.
4. `Loan`.
5. `CardCommitter` with the circuit it verifies: `commit` compares `input[1]` with the
   previous commitment (`CardCommitter.sol`), which has to be related to the order of the
   circuit's public signals.

## Not modelled

* Items 2, 4 and 5 of the plan, not yet: contracts of a size with the modelled ones
  whose hazards are fewer. `withdraw` and the token calls of `RollupNC`.
* The update circuit and the other `.circom` sources, except as the C++ generated from
  three of them. The verifiers generated by snarkjs (pairing equations) and the
  JavaScript calculators, whose core is a WebAssembly binary.
* Of the field library: comparisons, logical and bit operations of `fr.asm`, which the
  circuits apply to loop counters and constants only (comparisons of numbers in the
  models of the circuits); `mul1` and `swap` of the raw class.
* Of the witness calculators: failing file operations, the layout of the `.wtns` and
  `.dat` files (the compiler that writes the latter is external), and an array that
  reaches behind the last input signal while an input is missing, for which the code
  reads behind `inputSignalAssigned` (`calcwit.cpp:73`); every other surplus is modelled.
* `HelloWorld.sol` has one getter and one setter. `Assignment 2/custom.test.js` tests a
  program that is not here.
* Of the modelled parts: logging and metrics, the RPC fields of a request,
  `tx_count`-like statistics, gas, the metadata of tokens, and the encoding of Borsh
  blocks.
