---------------------------- MODULE MempoolQueue ----------------------------
(***************************************************************************)
(* The transactions of the zkSync mempool and the operations of its        *)
(* in-memory queue (Assignment 4/mempool_transactions_queue.rs, struct     *)
(* MempoolTransactionsQueue).  A `Variant` is one SignedTxVariant as it is *)
(* handed in once: a single transaction or a batch, given by the sequence  *)
(* of its transactions.  Nothing in the code looks for a transaction that  *)
(* it already has, so that a transaction sent again is another variant     *)
(* with the same hash, and a heap with copies is a set of variants.  A     *)
(* priority operation is its serial id.                                    *)
(*                                                                         *)
(* The loops of the code that pop a queue until something does not fit are *)
(* written as the length of the prefix they consume, so that no recursive  *)
(* definition is needed; a loop whose result is a sorted vector is a       *)
(* member of a set of enumerations, the only one but for the order of the  *)
(* copies of a transaction, which heap and sort leave open.                *)
(***************************************************************************)
EXTENDS Integers, Sequences, FiniteSets, SequencesExt

CONSTANTS
    Address,        \* account addresses
    Variant,        \* signed transactions and batches, once for each request
    TxsOf,          \* [Variant -> Seq(Tx)]: the transactions of a variant
    Batch,          \* the variants that are SignedTxVariant::Batch
    HashRank,       \* [Variant -> Nat]: the order of tx.hashes()
    MaxSerial,      \* priority operations have serial ids 0..MaxSerial
    OpChunks,       \* [0..MaxSerial -> Nat]: op.data.chunks()
    TransferChunks,       \* TransferOp::CHUNKS
    TransferToNewChunks   \* TransferToNewOp::CHUNKS

SerialId == 0..MaxSerial     \* -1: no operations

(* ZkSyncTx as far as the mempool looks at it; `chunks` is min_chunks()    *)
(* and `to` the receiver of a transfer.                                    *)
Tx == [account : Address, nonce : Nat, validFrom : Nat,
       kind : {"transfer", "close"}, to : Address, chunks : Nat]

(* RevertedTxVariant: a variant with the serial id of the first priority   *)
(* operation that was executed after it.                                   *)
RevertedTx == [tx : Variant, next : Nat]

ASSUME SerialAssumption ==
    MaxSerial \in Nat \cup {-1} /\ OpChunks \in [SerialId -> Nat]
ASSUME VariantAssumption ==
    /\ TxsOf \in [Variant -> Seq(Tx)]
    /\ \A v \in Variant : TxsOf[v] # <<>>
    /\ Batch \subseteq Variant
    /\ \A v \in Variant \ Batch : Len(TxsOf[v]) = 1
    /\ HashRank \in [Variant -> Nat]
    /\ \A v, w \in Variant : HashRank[v] = HashRank[w] =>
        TxsOf[v] = TxsOf[w] /\ (v \in Batch <=> w \in Batch)
ASSUME ChunksAssumption ==
    TransferChunks \in Nat /\ TransferToNewChunks \in Nat

-----------------------------------------------------------------------------
(* Attributes of a variant.                                                *)

\* Equal hashes: the same transaction or batch, handed in once or twice.
SameTx(v, w) == HashRank[v] = HashRank[w]

\* add_tx_variant: the latest valid_from of the variant's transactions.
ValidFrom(v) == Max({TxsOf[v][i].validFrom : i \in DOMAIN TxsOf[v]})

\* The fee transaction of a batch is its last one and gives the sort key.
SortNonce(v) == Last(TxsOf[v]).nonce

\* The accounts that the mempool knows decide what a transfer costs.
ChunksForTx(tx, known) ==
    IF tx.kind # "transfer" THEN tx.chunks
    ELSE IF tx.to \in known THEN TransferChunks ELSE TransferToNewChunks

SumOver(weight(_), s) == MapThenSumSet(LAMBDA i : weight(s[i]), DOMAIN s)

RequiredChunks(v, known) == SumOver(LAMBDA tx : ChunksForTx(tx, known), TxsOf[v])

ChunksOfTxs(vs, known) == SumOver(LAMBDA v : RequiredChunks(v, known), vs)
ChunksOfOps(ops) == SumOver(LAMBDA s : OpChunks[s], ops)

-----------------------------------------------------------------------------
(* Queues.                                                                 *)

\* The sequences that list S once, in the order `before` (one if it is total).
Enumerations(S, before(_, _)) ==
    {s \in [1..Cardinality(S) -> S] :
        /\ ToSet(s) = S
        /\ \A i, j \in DOMAIN s : i < j => before(s[i], s[j])}

Ascending(S) == Enumerations(S, LAMBDA a, b : a < b)

\* Mutant: the element that does not fit is not pushed back.
DropOneMore(s, k) == SubSeq(s, k + 2, Len(s))
\* What is left of s when its first k elements have been popped.
Drop(s, k) == SubSeq(s, k + 1, Len(s))
Take(s, k) == SubSeq(s, 1, k)

\* The elements of s at the indices I, in their order (one such sequence).
Selections(s, I) == {[j \in DOMAIN p |-> s[p[j]]] : p \in Ascending(I)}

\* The heap pops the earliest valid_from first, the larger hash on a tie.
PopsBefore(v, w) ==
    \/ ValidFrom(v) < ValidFrom(w)
    \/ ValidFrom(v) = ValidFrom(w) /\ HashRank[v] >= HashRank[w]

\* The stable sort by nonce of what was popped.
ReadyBefore(v, w) ==
    \/ SortNonce(v) < SortNonce(w)
    \/ SortNonce(v) = SortNonce(w) /\ PopsBefore(v, w)

\* Mutant: a transaction is not ready at its valid_from.
RipeStrict(pending, timestamp) == {v \in pending : ValidFrom(v) < timestamp}
\* prepare_new_ready_transactions: the pending variants that become ready.
Ripe(pending, timestamp) == {v \in pending : ValidFrom(v) <= timestamp}
ReadyOrders(ripe) == Enumerations(ripe, ReadyBefore)

\* Mutants: operations that are queued already are added; None is taken for 0.
FreshOpsAgain(ops, queue, last) == {s \in ops : s > last}
FreshOpsNoneIsZero(ops, queue, last) ==
    {s \in ops : s > last /\ s # 0 /\ s \notin ToSet(queue)}
\* add_priority_ops: the operations of a request that enter the queue.
FreshOps(ops, queue, last) == {s \in ops : s > last /\ s \notin ToSet(queue)}

\* Mutant: the request is not sorted.
Unsorted(S) == Enumerations(S, LAMBDA x, y : TRUE)
\* ops.sort_unstable_by_key(serial_id)
BySerial(S) == Ascending(S)

\* Mutant: gaps are let through.
NotOlder(ops, from) == \A i \in DOMAIN ops : ops[i] >= from
\* The selected operations are from, from + 1, ...
InOrder(ops, from) == \A i \in DOMAIN ops : ops[i] = from + i - 1

\* k pops of select_priority_ops: the operations older than `from` are skipped.
\* (No id is in the queue twice, so that none of them is older than its
\* predecessor in the block but not older than `from`.)
SelectedOps(queue, k, from) ==
    {ops \in Selections(queue, {i \in 1..k : queue[i] >= from}) : InOrder(ops, from)}

\* k pops of select_reverted_operations that find from, ..., from + n - 1 one
\* after the other and drop every other operation on the way.
FoundOps(queue, k, from, n) ==
    {ops \in Selections(queue, {i \in 1..k : queue[i] \in from..from + n - 1}) :
        /\ Len(ops) = n
        /\ \A i \in 1..n : ops[i] = from + i - 1
        /\ IF n = 0 THEN k = 0 ELSE queue[k] = from + n - 1}
=============================================================================
