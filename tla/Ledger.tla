------------------------------- MODULE Ledger -------------------------------
(***************************************************************************)
(* What the mempool of Assignment 4 promises, whatever it queues and       *)
(* wherever it stops: a client is answered once its transaction is stored; *)
(* a block has the next priority operations, all of them confirmed, and    *)
(* stored transactions that no earlier block has; only the last block can  *)
(* be taken back; and what is stored is given up only when the same        *)
(* transaction, sent again, has been committed.  A transaction that was    *)
(* handed in twice is two variants with one hash.                          *)
(***************************************************************************)
EXTENDS Integers, Sequences, SequencesExt

CONSTANTS
    Variant,        \* signed transactions and batches, once for each request
    HashRank,       \* [Variant -> Nat]: the order of their hashes
    MaxSerial       \* priority operations have serial ids 0..MaxSerial

VARIABLES
    stored,         \* the transactions that survive a crash
    answered,       \* those that a client was told are accepted
    confirmed,      \* the confirmed operations that survive a crash
    chain           \* the committed blocks

committed == UNION {ToSet(chain[i].txs) : i \in DOMAIN chain}
nextOp == IF chain = <<>> THEN 0 ELSE Last(chain).first + Len(Last(chain).ops)

Init == stored = {} /\ answered = {} /\ confirmed = {} /\ chain = <<>>

Store(v) ==
    /\ stored' = stored \cup {v}
    /\ UNCHANGED <<answered, confirmed, chain>>

Collect ==
    /\ stored' = {v \in stored : \/ v \in committed
                                 \/ \A w \in committed : HashRank[v] # HashRank[w]}
    /\ UNCHANGED <<answered, confirmed, chain>>

Answer(v) ==
    /\ v \in stored
    /\ answered' = answered \cup {v}
    /\ UNCHANGED <<stored, confirmed, chain>>

Confirm(ops) ==
    /\ confirmed' = confirmed \cup ops
    /\ UNCHANGED <<stored, answered, chain>>

Commit(n, txs) ==
    /\ nextOp..nextOp + n - 1 \subseteq confirmed
    /\ ToSet(txs) \cap committed = {}
    /\ chain' = Append(chain, [first |-> nextOp, txs |-> txs,
                               ops |-> [i \in 1..n |-> nextOp + i - 1]])
    /\ UNCHANGED <<stored, answered, confirmed>>

Revert ==
    /\ chain # <<>> /\ chain' = Front(chain)
    /\ UNCHANGED <<stored, answered, confirmed>>

Next ==
    \/ \E v \in Variant : Store(v) \/ Answer(v)
    \/ \E ops \in SUBSET (0..MaxSerial) : Confirm(ops)
    \/ \E n \in 0..MaxSerial + 1, txs \in SetToAllKPermutations(stored) : Commit(n, txs)
    \/ Revert
    \/ Collect

Spec == Init /\ [][Next]_<<stored, answered, confirmed, chain>>
=============================================================================
