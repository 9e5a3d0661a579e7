------------------------------ MODULE MCMempool ------------------------------
(***************************************************************************)
(* Small instances of Mempool.  Accounts a and b; transactions with the    *)
(* nonces, times and receivers that let the cases of the code happen.      *)
(***************************************************************************)
EXTENDS Mempool

CONSTANTS a, b, t1, t2, t3, t4, h1, h2

MCAddress == {a, b}
MCIdOf == (a :> 1 @@ b :> 2)
MCAccountId == {1, 2}
MCInit == (a :> 0 @@ b :> Absent)

Transfer(from, nonce, to, validFrom) ==
    [account |-> from, nonce |-> nonce, validFrom |-> validFrom,
     kind |-> "transfer", to |-> to, chunks |-> 0]
Close(from, nonce, validFrom) ==
    [account |-> from, nonce |-> nonce, validFrom |-> validFrom,
     kind |-> "close", to |-> from, chunks |-> 1]

\* t1 creates b, t2 is valid later and has the same nonce as the batch t3,
\* whose second transaction closes the account and is valid later too.  t4 is
\* t1 sent again.
MCTxsOf == Restrict(t1 :> <<Transfer(a, 0, b, 0)>> @@ t4 :> <<Transfer(a, 0, b, 0)>>
                 @@ t2 :> <<Transfer(a, 1, a, 1)>>
                 @@ t3 :> <<Transfer(a, 1, b, 0), Close(a, 2, 1)>>, Variant)
MCBatch == {t3} \cap Variant
MCHashRank == Restrict(t1 :> 1 @@ t2 :> 2 @@ t3 :> 3 @@ t4 :> 1, Variant)
OneVariant == {t1}
LateVariant == {t2}
TwoVariants == {t1, t3}
AllButLate == {t1, t3, t4}

OneChunk == [s \in SerialId |-> 1]
TwoChunks == [s \in SerialId |-> 2]
\* Whatever is accepted fits an empty block, in every instance.
ASSUME InstanceSizes == SizesSettled

HandlerSymmetry == Permutations(Handler)
\* Handlers are alike, and so are the copies of a transaction.
CopySymmetry == Permutations(Handler) \cup Permutations({t1, t4})
=============================================================================
