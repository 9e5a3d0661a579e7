---------------------------- MODULE MempoolProofs ----------------------------
(***************************************************************************)
(* Proofs about the mempool: for any accounts, transactions, handlers and  *)
(* block size, and any number of crashes and reverted blocks, no accepted  *)
(* transaction is lost and no priority operation is queued twice; every    *)
(* variable keeps its type; what a block does to the accounts is what its  *)
(* updates tell; and the blocks that are committed, open and proposed      *)
(* carry the priority operations in their order.  While no block is        *)
(* reverted and the watcher sends one request after the other, no          *)
(* confirmed operation is lost either.                                     *)
(***************************************************************************)
EXTENDS Mempool, Induction

-----------------------------------------------------------------------------
(* Sequences, as far as the queues need them: their elements as a set.     *)

IsSeq(s) == s \in Seq(ToSet(s))

LEMMA Shape ==
    ASSUME NEW s, IsSeq(s)
    PROVE  /\ Len(s) \in Nat /\ DOMAIN s = 1..Len(s)
           /\ s = <<>> <=> Len(s) = 0
<1> DEFINE S == ToSet(s)
<1>1. s \in Seq(S)
  BY DEF IsSeq
<1> HIDE DEF S
<1> QED
  BY <1>1, EmptySeq

LEMMA SeqOver ==
    ASSUME NEW V, NEW s, s \in Seq(V)
    PROVE  IsSeq(s)
<1>1. \A i \in 1..Len(s) : s[i] \in ToSet(s)
  BY LenProperties DEF ToSet
<1> DEFINE S == ToSet(s)
<1> HIDE DEF S
<1>2. \A i \in 1..Len(s) : s[i] \in S
  BY <1>1 DEF S
<1>3. s \in Seq(S)
  BY <1>2
<1> QED
  BY <1>3 DEF IsSeq, S

LEMMA NoElements == IsSeq(<<>>) /\ ToSet(<<>>) = {}
<1>1. <<>> \in Seq({}) /\ DOMAIN <<>> = {}
  OBVIOUS
<1>2. IsSeq(<<>>)
  BY <1>1, SeqOver
<1>3. ToSet(<<>>) = {}
  BY <1>1 DEF ToSet
<1> QED
  BY <1>2, <1>3

LEMMA Appended ==
    ASSUME NEW s, IsSeq(s), NEW e
    PROVE  IsSeq(Append(s, e)) /\ ToSet(Append(s, e)) = ToSet(s) \cup {e}
<1> DEFINE V == ToSet(s) \cup {e}
<1>1. s \in Seq(V) /\ e \in V
  <2>1. \A i \in 1..Len(s) : s[i] \in V
    BY Shape DEF ToSet
  <2> DEFINE S == ToSet(s)
  <2>2. s \in Seq(S)
    BY DEF IsSeq
  <2>3. e \in V
    OBVIOUS
  <2> HIDE DEF S, V
  <2> QED
    BY <2>1, <2>2, <2>3
<1> HIDE DEF V
<1>2. /\ Append(s, e) \in Seq(V) /\ Len(Append(s, e)) = Len(s) + 1
      /\ \A i \in 1..Len(s) : Append(s, e)[i] = s[i]
      /\ Append(s, e)[Len(s) + 1] = e
  BY <1>1, AppendProperties
<1>3. /\ Len(s) \in Nat /\ DOMAIN s = 1..Len(s)
      /\ DOMAIN Append(s, e) = 1..Len(s) \cup {Len(s) + 1}
  BY <1>1, <1>2
<1>4. ToSet(Append(s, e)) = ToSet(s) \cup {e}
  BY <1>2, <1>3 DEF ToSet
<1> QED
  BY <1>2, <1>4, SeqOver

LEMMA Joined ==
    ASSUME NEW s, IsSeq(s), NEW t, IsSeq(t)
    PROVE  /\ IsSeq(s \o t) /\ ToSet(s \o t) = ToSet(s) \cup ToSet(t)
           /\ Len(s \o t) = Len(s) + Len(t)
           /\ \A i \in 1..Len(s) : (s \o t)[i] = s[i]
           /\ \A i \in 1..Len(t) : (s \o t)[Len(s) + i] = t[i]
<1> DEFINE V == ToSet(s) \cup ToSet(t)
<1>1. s \in Seq(V) /\ t \in Seq(V)
  <2>1. /\ \A i \in 1..Len(s) : s[i] \in V
        /\ \A i \in 1..Len(t) : t[i] \in V
    BY Shape DEF ToSet
  <2> DEFINE S == ToSet(s)
             T == ToSet(t)
  <2>2. s \in Seq(S) /\ t \in Seq(T)
    BY DEF IsSeq
  <2> HIDE DEF S, T, V
  <2> QED
    BY <2>1, <2>2
<1> HIDE DEF V
<1>2. /\ s \o t \in Seq(V) /\ Len(s \o t) = Len(s) + Len(t)
      /\ \A i \in 1..Len(s) + Len(t) :
            (s \o t)[i] = IF i <= Len(s) THEN s[i] ELSE t[i - Len(s)]
  BY <1>1, ConcatProperties
<1>3. /\ Len(s) \in Nat /\ Len(t) \in Nat
      /\ DOMAIN s = 1..Len(s) /\ DOMAIN t = 1..Len(t)
      /\ DOMAIN (s \o t) = 1..Len(s) + Len(t)
  BY <1>1, <1>2
<1>4. \A i \in 1..Len(s) : i \in 1..Len(s) + Len(t) /\ (s \o t)[i] = s[i]
  BY <1>2, <1>3
<1>5. \A i \in 1..Len(t) : /\ Len(s) + i \in 1..Len(s) + Len(t)
                           /\ (s \o t)[Len(s) + i] = t[i]
  BY <1>2, <1>3
<1>6. \A i \in 1..Len(s) + Len(t) :
        i \in 1..Len(s) \/ \E j \in 1..Len(t) : i = Len(s) + j
  <2> TAKE i \in 1..Len(s) + Len(t)
  <2> DEFINE j == i - Len(s)
  <2>1. i \in 1..Len(s) \/ (j \in 1..Len(t) /\ i = Len(s) + j)
    BY <1>3
  <2> HIDE DEF j
  <2> QED
    BY <2>1
<1>7. ToSet(s \o t) = ToSet(s) \cup ToSet(t)
  <2>1. ASSUME NEW x \in ToSet(s \o t) PROVE x \in ToSet(s) \cup ToSet(t)
    <3>1. PICK i \in 1..Len(s) + Len(t) : x = (s \o t)[i]
      BY <1>3 DEF ToSet
    <3>2. CASE i \in 1..Len(s)
      BY <1>3, <1>4, <3>1, <3>2 DEF ToSet
    <3>3. CASE \E j \in 1..Len(t) : i = Len(s) + j
      BY <1>3, <1>5, <3>1, <3>3 DEF ToSet
    <3> QED
      BY <1>6, <3>2, <3>3
  <2>2. ASSUME NEW x \in ToSet(s) \cup ToSet(t) PROVE x \in ToSet(s \o t)
    BY <1>3, <1>4, <1>5 DEF ToSet
  <2> QED
    BY <2>1, <2>2
<1> QED
  BY <1>2, <1>4, <1>5, <1>7, SeqOver

LEMMA CutInTwo ==
    ASSUME NEW s, IsSeq(s), NEW k \in 0..Len(s)
    PROVE  /\ IsSeq(Take(s, k)) /\ IsSeq(Drop(s, k))
           /\ ToSet(s) = ToSet(Take(s, k)) \cup ToSet(Drop(s, k))
           /\ Len(Take(s, k)) = k /\ Len(Drop(s, k)) = Len(s) - k
           /\ \A i \in 1..k : Take(s, k)[i] = s[i]
           /\ \A i \in 1..Len(s) - k : Drop(s, k)[i] = s[k + i]
<1> DEFINE S == ToSet(s)
<1>1. s \in Seq(S)
  BY DEF IsSeq
<1>2. S = {s[i] : i \in DOMAIN s}
  BY DEF ToSet
<1> HIDE DEF S
<1>3. Len(s) \in Nat /\ DOMAIN s = 1..Len(s) /\ k \in Nat /\ k <= Len(s)
  BY <1>1
<1>4. /\ Take(s, k) \in Seq(S) /\ Len(Take(s, k)) = k
      /\ \A i \in 1..k : Take(s, k)[i] = s[i]
  BY <1>1, <1>3 DEF Take
<1>5. /\ Drop(s, k) \in Seq(S) /\ Len(Drop(s, k)) = Len(s) - k
      /\ \A i \in 1..Len(s) - k : Drop(s, k)[i] = s[k + i]
  <2> DEFINE d == SubSeq(s, k + 1, Len(s))
  <2>1. \A i \in (k + 1)..Len(s) : s[i] \in S /\ i \in DOMAIN s
    BY <1>1, <1>3
  <2>2. d \in Seq(S) /\ Len(d) = Len(s) - k /\ \A i \in 1..Len(s) - k : d[i] = s[k + i]
    <3>1. k + 1 \in Int /\ Len(s) \in Int
      BY <1>3
    <3>2. CASE k = Len(s)
      BY <1>1, <1>3, <3>1, <3>2
    <3>3. CASE k < Len(s)
      BY <1>1, <1>3, <2>1, <3>1, <3>3
    <3> QED
      BY <1>3, <3>2, <3>3
  <2> QED
    BY <2>2 DEF Drop
<1>6. \A i \in DOMAIN s : i \in 1..k \/ \E j \in 1..Len(s) - k : i = k + j
  <2> TAKE i \in DOMAIN s
  <2>1. i > k => i - k \in 1..Len(s) - k /\ i = k + (i - k)
    BY <1>3
  <2> QED
    BY <1>3, <2>1
<1>7. /\ DOMAIN Take(s, k) = 1..k /\ DOMAIN Drop(s, k) = 1..Len(s) - k
      /\ \A i \in 1..k : i \in DOMAIN s
      /\ \A i \in 1..Len(s) - k : k + i \in DOMAIN s
  BY <1>3, <1>4, <1>5
<1>8. ToSet(s) = ToSet(Take(s, k)) \cup ToSet(Drop(s, k))
  <2>1. ASSUME NEW x \in ToSet(s) PROVE x \in ToSet(Take(s, k)) \cup ToSet(Drop(s, k))
    <3>1. PICK i \in DOMAIN s : x = s[i]
      BY DEF ToSet
    <3>2. CASE i \in 1..k
      BY <1>4, <1>7, <3>1, <3>2 DEF ToSet
    <3>3. CASE \E j \in 1..Len(s) - k : i = k + j
      BY <1>5, <1>7, <3>1, <3>3 DEF ToSet
    <3> QED
      BY <1>6, <3>2, <3>3
  <2>2. ASSUME NEW x \in ToSet(Take(s, k)) \cup ToSet(Drop(s, k)) PROVE x \in ToSet(s)
    BY <1>4, <1>5, <1>7 DEF ToSet
  <2> QED
    BY <2>1, <2>2
<1> QED
  BY <1>4, <1>5, <1>8, SeqOver

LEMMA FirstAndRest ==
    ASSUME NEW s, IsSeq(s), s # <<>>
    PROVE  IsSeq(Tail(s)) /\ ToSet(s) = {Head(s)} \cup ToSet(Tail(s))
<1> DEFINE S == ToSet(s)
<1>1. s \in Seq(S)
  BY DEF IsSeq
<1> HIDE DEF S
<1>2. Len(s) \in Nat /\ Len(s) > 0 /\ DOMAIN s = 1..Len(s)
  BY Shape
<1>3. /\ Tail(s) \in Seq(S) /\ Len(Tail(s)) = Len(s) - 1 /\ Head(s) = s[1]
      /\ \A i \in 1..Len(s) - 1 : Tail(s)[i] = s[i + 1]
  BY <1>1, <1>2, HeadTailProperties
<1>4. DOMAIN Tail(s) = 1..Len(s) - 1
  BY <1>2, <1>3
<1>5. \A i \in DOMAIN s : i = 1 \/ \E j \in 1..Len(s) - 1 : i = j + 1
  <2> TAKE i \in DOMAIN s
  <2>1. i > 1 => i - 1 \in 1..Len(s) - 1 /\ i = (i - 1) + 1
    BY <1>2
  <2> QED
    BY <1>2, <2>1
<1>6. 1 \in DOMAIN s /\ \A i \in 1..Len(s) - 1 : i + 1 \in DOMAIN s
  BY <1>2
<1>7. ToSet(s) = {Head(s)} \cup ToSet(Tail(s))
  <2>1. ASSUME NEW x \in ToSet(s) PROVE x \in {Head(s)} \cup ToSet(Tail(s))
    <3>1. PICK i \in DOMAIN s : x = s[i]
      BY DEF ToSet
    <3>2. CASE \E j \in 1..Len(s) - 1 : i = j + 1
      BY <1>3, <1>4, <3>1, <3>2 DEF ToSet
    <3> QED
      BY <1>3, <1>5, <3>1, <3>2
  <2>2. ASSUME NEW x \in {Head(s)} \cup ToSet(Tail(s)) PROVE x \in ToSet(s)
    BY <1>3, <1>4, <1>6 DEF ToSet
  <2> QED
    BY <2>1, <2>2
<1> QED
  BY <1>3, <1>7, SeqOver

LEMMA LastAndFront ==
    ASSUME NEW s, IsSeq(s), s # <<>>
    PROVE  IsSeq(Front(s)) /\ ToSet(s) = {Last(s)} \cup ToSet(Front(s))
<1> DEFINE n == Len(s) - 1
<1>1. Len(s) \in Nat /\ Len(s) > 0 /\ DOMAIN s = 1..Len(s)
  BY Shape
<1>2. n \in 0..Len(s) /\ Len(s) - n = 1 /\ n + 1 = Len(s)
  BY <1>1
<1>3. Front(s) = Take(s, n)
  BY DEF Front, Take
<1> HIDE DEF n
<1>4. /\ IsSeq(Front(s)) /\ ToSet(s) = ToSet(Front(s)) \cup ToSet(Drop(s, n))
      /\ IsSeq(Drop(s, n)) /\ Len(Drop(s, n)) = 1 /\ Drop(s, n)[1] = Last(s)
  <2>1. /\ IsSeq(Take(s, n)) /\ ToSet(s) = ToSet(Take(s, n)) \cup ToSet(Drop(s, n))
        /\ IsSeq(Drop(s, n)) /\ Len(Drop(s, n)) = Len(s) - n
        /\ \A i \in 1..Len(s) - n : Drop(s, n)[i] = s[n + i]
    BY <1>2, CutInTwo
  <2>2. Drop(s, n)[1] = s[n + 1]
    BY <1>2, <2>1
  <2> QED
    BY <1>2, <1>3, <2>1, <2>2 DEF Last
<1>5. ToSet(Drop(s, n)) = {Last(s)}
  <2>1. DOMAIN Drop(s, n) = {1}
    BY <1>4, Shape
  <2> QED
    BY <1>4, <2>1 DEF ToSet
<1> QED
  BY <1>4, <1>5

\* Lists of the elements of a finite set.
LEMMA Listed ==
    ASSUME NEW S, IsFiniteSet(S), NEW e \in [1..Cardinality(S) -> S], ToSet(e) = S
    PROVE  IsSeq(e) /\ Len(e) = Cardinality(S) /\ DOMAIN e = 1..Cardinality(S)
<1>1. Cardinality(S) \in Nat
  BY FS_CardinalityType
<1>2. e \in Seq(S) /\ Len(e) = Cardinality(S)
  BY <1>1
<1> QED
  BY <1>2, SeqOver

LEMMA Selected ==
    ASSUME NEW s, IsSeq(s), NEW I, I \subseteq DOMAIN s, NEW kept \in Selections(s, I)
    PROVE  IsSeq(kept) /\ ToSet(kept) = {s[i] : i \in I}
<1>1. PICK p \in Ascending(I) : kept = [j \in DOMAIN p |-> s[p[j]]]
  BY DEF Selections
<1>2. IsFiniteSet(I)
  <2>1. Len(s) \in Nat /\ I \subseteq 1..Len(s)
    BY Shape
  <2> QED
    BY <2>1, FS_Interval, FS_Subset
<1>3. p \in [1..Cardinality(I) -> I] /\ ToSet(p) = I
  BY <1>1 DEF Ascending, Enumerations
<1>4. Cardinality(I) \in Nat /\ DOMAIN p = 1..Cardinality(I)
  BY <1>2, <1>3, FS_CardinalityType
<1>5. ToSet(kept) = {s[i] : i \in I}
  <2>1. DOMAIN kept = DOMAIN p /\ \A j \in DOMAIN p : kept[j] = s[p[j]] /\ p[j] \in I
    BY <1>1, <1>3
  <2>2. \A i \in I : \E j \in DOMAIN p : i = p[j]
    BY <1>3 DEF ToSet
  <2> QED
    BY <2>1, <2>2 DEF ToSet
<1>6. IsSeq(kept)
  <2> DEFINE S == {s[i] : i \in I}
  <2>1. kept \in [1..Cardinality(I) -> S]
    BY <1>1, <1>3, <1>4
  <2> HIDE DEF S
  <2>2. kept \in Seq(S)
    BY <1>4, <2>1
  <2> QED
    BY <2>2, SeqOver
<1> QED
  BY <1>5, <1>6

LEMMA TxsOfElements ==
    ASSUME NEW s
    PROVE  /\ TxsIn(s) = UNION {ToSet(b.txs) : b \in ToSet(s)}
           /\ RevertedIn(s) = {x.tx : x \in ToSet(s)}
BY DEF TxsIn, RevertedIn, ToSet

-----------------------------------------------------------------------------
(* Transactions.                                                           *)

\* The queues can be cut and joined, and what is to be sorted is finite.
Queues ==
    /\ IsSeq(revertedTxs) /\ IsSeq(readyTxs) /\ IsFiniteSet(pendingTxs)
    /\ "txs" \in DOMAIN proposed /\ IsSeq(proposed.txs)
    /\ IsSeq(keeperOpen) /\ \A b \in ToSet(keeperOpen) : IsSeq(b.txs)

Tables ==
    /\ IsFiniteSet(dbTxs) /\ IsSeq(dbReverted)
    /\ IsSeq(dbChain) /\ \A b \in ToSet(dbChain) : IsSeq(b.txs)

\* A handler that is about to queue a transaction has stored it.
StoredFirst == \A h \in Handler : handler[h].pc = "add" => handler[h].variant \in Durable

\* A server that is down holds nothing and is about to queue nothing.
DownIsEmpty == ~up => InMemory = {} /\ \A h \in Handler : handler[h].pc # "add"

\* Transactions are selected last, so that no selection overwrites any.
SelectedLast == blocksPc # "send" => proposed.txs = <<>>

TxInv ==
    /\ handler \in [Handler -> HandlerState]
    /\ Queues /\ Tables
    /\ StoredFirst /\ SelectedLast /\ DownIsEmpty
    /\ AckedIsDurable /\ NoTxLost

(* All of TxInv but the handlers' is about these variables.                *)
memoryVars == <<revertedTxs, readyTxs, pendingTxs, proposed, keeperOpen, blocksPc>>
tableVars == <<dbTxs, dbReverted, dbChain>>

LEMMA TxInit == Init => TxInv
<1> SUFFICES ASSUME Init PROVE TxInv
  OBVIOUS
<1> USE DEF Init
<1>1. /\ IsSeq(<<>>) /\ ToSet(<<>>) = {} /\ IsFiniteSet({})
      /\ TxsIn(<<>>) = {} /\ RevertedIn(<<>>) = {}
  BY NoElements, FS_EmptySet, TxsOfElements
<1>2. IdleHandler \in HandlerState /\ IdleHandler.pc = "idle"
  BY DEF IdleHandler, HandlerState, HandlerPc
<1>3. handler \in [Handler -> HandlerState] /\ StoredFirst
  BY <1>2 DEF StoredFirst
<1>4. Queues /\ Tables /\ SelectedLast
  BY <1>1 DEF Queues, Tables, SelectedLast, NoBlock
<1>5. AckedIsDurable /\ NoTxLost /\ DownIsEmpty
  BY <1>1 DEF AckedIsDurable, NoTxLost, DownIsEmpty, InMemory, NoBlock
<1> QED
  BY <1>3, <1>4, <1>5 DEF TxInv

(* A step that touches neither queues nor tables: a handler may move on,   *)
(* but not to the place where it queues a transaction.                     *)
LEMMA TxFrame ==
    ASSUME TxInv, UNCHANGED <<memoryVars, tableVars, acked, up>>,
           handler' \in [Handler -> HandlerState],
           \A h \in Handler : handler'[h].pc = "add" => handler'[h] = handler[h]
    PROVE  TxInv'
<1>1. UNCHANGED <<revertedTxs, readyTxs, pendingTxs, proposed, keeperOpen, blocksPc,
                  dbTxs, dbReverted, dbChain, acked, up>>
  BY DEF memoryVars, tableVars
<1>2. Durable' = Durable /\ InMemory' = InMemory
  BY <1>1 DEF Durable, InMemory
<1>3. Queues' /\ Tables' /\ SelectedLast'
  BY <1>1 DEF TxInv, Queues, Tables, SelectedLast
<1>4. AckedIsDurable' /\ NoTxLost'
  BY <1>1, <1>2 DEF TxInv, AckedIsDurable, NoTxLost, AmongSame
<1>5. StoredFirst' /\ DownIsEmpty'
  BY <1>1, <1>2 DEF TxInv, StoredFirst, DownIsEmpty
<1> QED
  BY <1>3, <1>4, <1>5 DEF TxInv

LEMMA TxFrameSameHandlers ==
    ASSUME TxInv, UNCHANGED <<memoryVars, tableVars, acked, up, handler>>
    PROVE  TxInv'
<1>1. handler' = handler /\ handler' \in [Handler -> HandlerState]
  BY DEF TxInv
<1> QED
  BY <1>1, TxFrame

(* The handlers of transactions and operations between their awaits.       *)
Moves ==
    /\ handler' \in [Handler -> HandlerState]
    /\ \A g \in Handler : handler'[g].pc = "add" => handler'[g] = handler[g]

Untouched == UNCHANGED <<memoryVars, tableVars, acked, up>>

LEMMA HandlersUntouched ==
    ASSUME NEW h \in Handler, TransactionsHandler(h), ~InsertTx(h), ~AddTx(h)
    PROVE  Untouched
<1> USE DEF queueVars, txVars, opVars, blocksVars, keeperVars, processVars, clientVars, dbVars,
            memoryVars, tableVars, Untouched
<1>1. ASSUME NEW v \in Variant, ReceiveTx(h, v) PROVE Untouched
  BY <1>1 DEF ReceiveTx
<1>2. CASE CheckNonce(h)
  BY <1>2 DEF CheckNonce
<1>3. CASE CheckBatchSize(h)
  BY <1>3 DEF CheckBatchSize
<1>4. CASE InsertTxFails(h)
  BY <1>4 DEF InsertTxFails
<1>5. CASE ReceiveConfirmedOps(h)
  BY <1>5 DEF ReceiveConfirmedOps
<1>6. CASE ReceiveUnconfirmedOp(h)
  BY <1>6 DEF ReceiveUnconfirmedOp
<1>7. CASE ReadMaxSerial(h)
  BY <1>7 DEF ReadMaxSerial
<1>8. CASE InsertOps(h)
  BY <1>8 DEF InsertOps
<1>9. CASE OpsFail(h)
  BY <1>9 DEF OpsFail
<1>10. CASE AddOps(h)
  BY <1>10 DEF AddOps
<1> QED
  BY <1>1, <1>2, <1>3, <1>4, <1>5, <1>6, <1>7, <1>8, <1>9, <1>10 DEF TransactionsHandler

LEMMA HandlerBecomes ==
    ASSUME handler \in [Handler -> HandlerState], NEW h \in Handler, NEW STATE new,
           new \in HandlerState, new.pc # "add", handler' = [handler EXCEPT ![h] = new]
    PROVE  Moves
BY DEF Moves

LEMMA HandlerIdles ==
    ASSUME handler \in [Handler -> HandlerState], NEW h \in Handler,
           handler' = [handler EXCEPT ![h] = IdleHandler]
    PROVE  Moves
<1>1. IdleHandler \in HandlerState /\ IdleHandler.pc # "add"
  BY DEF IdleHandler, HandlerState, HandlerPc
<1> QED
  BY <1>1, HandlerBecomes

LEMMA HandlerMoves ==
    ASSUME handler \in [Handler -> HandlerState], NEW h \in Handler,
           TransactionsHandler(h), ~InsertTx(h), ~AddTx(h)
    PROVE  Moves
<1>1. handler[h] \in HandlerState
  OBVIOUS
<1>2. ASSUME NEW v \in Variant, ReceiveTx(h, v) PROVE Moves
  <2> DEFINE new == [handler[h] EXCEPT !.pc = "nonce", !.variant = v]
  <2>1. handler' = [handler EXCEPT ![h] = new]
    BY <1>2 DEF ReceiveTx
  <2>2. new \in HandlerState /\ new.pc # "add"
    BY <1>1 DEF HandlerState, HandlerPc
  <2> HIDE DEF new
  <2> QED
    BY <2>1, <2>2, HandlerBecomes
<1>3. CASE CheckNonce(h)
  <2> DEFINE next == [handler[h] EXCEPT !.index = @ + 1]
             checked == [handler[h] EXCEPT !.pc = NextCheck(handler[h].variant)]
  <2>1. \/ handler' = [handler EXCEPT ![h] = IdleHandler]
        \/ handler' = [handler EXCEPT ![h] = next]
        \/ handler' = [handler EXCEPT ![h] = checked]
    BY <1>3 DEF CheckNonce, RefuseTx
  <2>2. next \in HandlerState /\ next.pc # "add"
    <3>1. handler[h].pc = "nonce"
      BY <1>3 DEF CheckNonce
    <3> QED
      BY <1>1, <3>1 DEF HandlerState
  <2>3. checked \in HandlerState /\ checked.pc # "add"
    BY <1>1 DEF HandlerState, HandlerPc, NextCheck
  <2> HIDE DEF next, checked
  <2>4. CASE handler' = [handler EXCEPT ![h] = next]
    BY <2>2, <2>4, HandlerBecomes
  <2>5. CASE handler' = [handler EXCEPT ![h] = checked]
    BY <2>3, <2>5, HandlerBecomes
  <2> QED
    BY <2>1, <2>4, <2>5, HandlerIdles
<1>4. CASE CheckBatchSize(h)
  <2> DEFINE fits == [handler[h] EXCEPT !.pc = "insert"]
  <2>1. \/ handler' = [handler EXCEPT ![h] = IdleHandler]
        \/ handler' = [handler EXCEPT ![h] = fits]
    BY <1>4 DEF CheckBatchSize, RefuseTx
  <2>2. fits \in HandlerState /\ fits.pc # "add"
    BY <1>1 DEF HandlerState, HandlerPc
  <2> HIDE DEF fits
  <2>3. CASE handler' = [handler EXCEPT ![h] = fits]
    BY <2>2, <2>3, HandlerBecomes
  <2> QED
    BY <2>1, <2>3, HandlerIdles
<1>5. CASE InsertTxFails(h) \/ OpsFail(h) \/ AddOps(h)
  <2>1. handler' = [handler EXCEPT ![h] = IdleHandler]
    BY <1>5 DEF InsertTxFails, RefuseTx, OpsFail, AddOps
  <2> QED
    BY <2>1, HandlerIdles
<1>6. CASE ReceiveConfirmedOps(h)
  <2>1. PICK lo \in SerialId, hi \in SerialId :
            handler' = [handler EXCEPT ![h].pc = "readSerial", ![h].ops = lo..hi,
                                       ![h].confirmed = TRUE]
    BY <1>6 DEF ReceiveConfirmedOps
  <2> DEFINE new == [handler[h] EXCEPT !.pc = "readSerial", !.ops = lo..hi, !.confirmed = TRUE]
  <2>2. handler' = [handler EXCEPT ![h] = new]
    BY <2>1
  <2>3. lo..hi \in SUBSET SerialId
    BY SerialAssumption DEF SerialId
  <2>4. new \in HandlerState /\ new.pc # "add"
    BY <1>1, <2>3 DEF HandlerState, HandlerPc
  <2> HIDE DEF new
  <2> QED
    BY <2>2, <2>4, HandlerBecomes
<1>7. CASE ReceiveUnconfirmedOp(h)
  <2>1. PICK s \in SerialId :
            handler' = [handler EXCEPT ![h].pc = "readSerial", ![h].ops = {s}]
    BY <1>7 DEF ReceiveUnconfirmedOp
  <2> DEFINE new == [handler[h] EXCEPT !.pc = "readSerial", !.ops = {s}]
  <2>2. handler' = [handler EXCEPT ![h] = new]
    BY <2>1
  <2>3. {s} \in SUBSET SerialId
    OBVIOUS
  <2>4. new \in HandlerState /\ new.pc # "add"
    BY <1>1, <2>3 DEF HandlerState, HandlerPc
  <2> HIDE DEF new
  <2> QED
    BY <2>2, <2>4, HandlerBecomes
<1>8. CASE ReadMaxSerial(h)
  <2> DEFINE kept == {s \in handler[h].ops : s > DbMaxSerial}
             new == [handler[h] EXCEPT !.pc = "insertOps", !.ops = kept]
  <2>1. \/ handler' = [handler EXCEPT ![h] = IdleHandler]
        \/ handler' = [handler EXCEPT ![h] = new]
    BY <1>8 DEF ReadMaxSerial
  <2>2. kept \in SUBSET SerialId
    BY <1>1 DEF HandlerState
  <2> HIDE DEF kept
  <2>3. new \in HandlerState /\ new.pc # "add"
    BY <1>1, <2>2 DEF HandlerState, HandlerPc
  <2> HIDE DEF new
  <2>4. CASE handler' = [handler EXCEPT ![h] = new]
    BY <2>3, <2>4, HandlerBecomes
  <2> QED
    BY <2>1, <2>4, HandlerIdles
<1>9. CASE InsertOps(h)
  <2> DEFINE new == [handler[h] EXCEPT !.pc = "addOps"]
  <2>1. \/ handler' = [handler EXCEPT ![h] = IdleHandler]
        \/ handler' = [handler EXCEPT ![h] = new]
    BY <1>9 DEF InsertOps
  <2>2. new \in HandlerState /\ new.pc # "add"
    BY <1>1 DEF HandlerState, HandlerPc
  <2> HIDE DEF new
  <2>3. CASE handler' = [handler EXCEPT ![h] = new]
    BY <2>2, <2>3, HandlerBecomes
  <2> QED
    BY <2>1, <2>3, HandlerIdles
<1> QED
  BY <1>2, <1>3, <1>4, <1>5, <1>6, <1>7, <1>8, <1>9 DEF TransactionsHandler

-----------------------------------------------------------------------------
(* The blocks handler moves transactions between the queues, the block and *)
(* the state keeper; it neither makes nor drops any.                       *)
LEMMA QueuesStep ==
    ASSUME TxInv, UNCHANGED <<tableVars, acked, up, handler>>,
           Queues', SelectedLast', InMemory' = InMemory,
           blocksPc = "notSent" => blocksPc' = "notSent"
    PROVE  TxInv'
<1>1. UNCHANGED <<dbTxs, dbReverted, dbChain, acked, up, handler>>
  BY DEF tableVars
<1>2. Durable' = Durable /\ Tables'
  BY <1>1 DEF TxInv, Durable, Tables
<1>3. StoredFirst' /\ DownIsEmpty' /\ AckedIsDurable' /\ NoTxLost'
  BY <1>1, <1>2 DEF TxInv, StoredFirst, DownIsEmpty, AckedIsDurable, NoTxLost, AmongSame
<1> QED
  BY <1>1, <1>2, <1>3 DEF TxInv

LEMMA SelectRevertedHolds ==
    ASSUME TxInv, SelectReverted, UNCHANGED <<tableVars, keeperOpen>>
    PROVE  Queues' /\ SelectedLast' /\ InMemory' = InMemory
<1>1. PICK r, ops :
        /\ r \in 0..Len(revertedTxs)
        /\ revertedTxs' = Drop(revertedTxs, r)
        /\ proposed' = [proposed EXCEPT !.ops = ops,
                                        !.txs = [i \in 1..r |-> revertedTxs[i].tx]]
        /\ blocksPc' = IF ops = <<>> /\ r = 0 THEN "ops" ELSE "send"
  BY DEF SelectReverted
<1>2. /\ IsSeq(revertedTxs) /\ "txs" \in DOMAIN proposed
      /\ proposed.txs = <<>> /\ UNCHANGED <<readyTxs, pendingTxs>>
  BY DEF TxInv, Queues, SelectedLast, SelectReverted, txVars
<1> DEFINE taken == [i \in 1..r |-> revertedTxs[i].tx]
<1>3. /\ IsSeq(Drop(revertedTxs, r)) /\ IsSeq(Take(revertedTxs, r))
      /\ ToSet(revertedTxs) = ToSet(Take(revertedTxs, r)) \cup ToSet(Drop(revertedTxs, r))
      /\ Len(Take(revertedTxs, r)) = r
      /\ \A i \in 1..r : Take(revertedTxs, r)[i] = revertedTxs[i]
  BY <1>1, <1>2, CutInTwo
<1>4. DOMAIN Take(revertedTxs, r) = 1..r /\ r \in Nat
  BY <1>2, <1>3, Shape
<1>5. taken \in Seq({revertedTxs[i].tx : i \in 1..r})
  BY <1>4
<1>6. IsSeq(taken)
  BY <1>5, SeqOver
<1>7. ToSet(taken) = RevertedIn(Take(revertedTxs, r))
  BY <1>3, <1>4 DEF ToSet, RevertedIn
<1>8. r = 0 => taken = <<>>
  BY <1>4
<1> HIDE DEF taken
<1>9. "txs" \in DOMAIN proposed' /\ proposed'.txs = taken
  BY <1>1, <1>2 DEF taken
<1>10. Queues'
  BY <1>1, <1>2, <1>3, <1>6, <1>9 DEF TxInv, Queues
<1>11. SelectedLast'
  BY <1>1, <1>8, <1>9 DEF SelectedLast
<1>12. RevertedIn(revertedTxs) = ToSet(taken) \cup RevertedIn(Drop(revertedTxs, r))
  BY <1>3, <1>7, TxsOfElements
<1>13. InMemory' = InMemory
  BY <1>1, <1>2, <1>9, <1>12, NoElements DEF InMemory
<1> QED
  BY <1>10, <1>11, <1>13

LEMMA PrepareTxHolds ==
    ASSUME TxInv, PrepareTxForBlock, UNCHANGED <<tableVars, keeperOpen>>
    PROVE  Queues' /\ SelectedLast' /\ InMemory' = InMemory
<1> DEFINE ripe == Ripe(pendingTxs, request.timestamp)
<1>1. PICK sorted \in ReadyOrders(ripe) : \E k \in 0..Len(readyTxs \o sorted) :
        /\ readyTxs' = Drop(readyTxs \o sorted, k)
        /\ proposed' = [proposed EXCEPT !.txs = Take(readyTxs \o sorted, k)]
  BY DEF PrepareTxForBlock
<1> DEFINE ready == readyTxs \o sorted
<1>2. PICK k \in 0..Len(ready) : /\ readyTxs' = Drop(ready, k)
                                 /\ proposed' = [proposed EXCEPT !.txs = Take(ready, k)]
  BY <1>1
<1>3. /\ pendingTxs' = pendingTxs \ ripe /\ blocksPc' = "send"
      /\ UNCHANGED revertedTxs /\ blocksPc = "txs"
  BY DEF PrepareTxForBlock
<1>4. /\ IsSeq(readyTxs) /\ IsFiniteSet(pendingTxs) /\ "txs" \in DOMAIN proposed
      /\ proposed.txs = <<>>
  BY <1>3 DEF TxInv, Queues, SelectedLast
<1>5. ripe \subseteq pendingTxs /\ IsFiniteSet(ripe) /\ IsFiniteSet(pendingTxs \ ripe)
  <2>1. ripe \subseteq pendingTxs
    BY DEF Ripe
  <2> HIDE DEF ripe
  <2> QED
    BY <1>4, <2>1, FS_Subset
<1>6. sorted \in [1..Cardinality(ripe) -> ripe] /\ ToSet(sorted) = ripe
  BY <1>1 DEF ReadyOrders, Enumerations
<1> HIDE DEF ripe
<1>7. IsSeq(sorted)
  BY <1>5, <1>6, Listed
<1>8. IsSeq(ready) /\ ToSet(ready) = ToSet(readyTxs) \cup ripe
  BY <1>4, <1>6, <1>7, Joined
<1> HIDE DEF ready
<1>9. /\ IsSeq(Drop(ready, k)) /\ IsSeq(Take(ready, k))
      /\ ToSet(ready) = ToSet(Take(ready, k)) \cup ToSet(Drop(ready, k))
  BY <1>8, CutInTwo
<1>10. "txs" \in DOMAIN proposed' /\ proposed'.txs = Take(ready, k)
  BY <1>2, <1>4
<1>11. Queues'
  BY <1>2, <1>3, <1>5, <1>9, <1>10 DEF TxInv, Queues
<1>12. InMemory' = InMemory
  BY <1>2, <1>3, <1>4, <1>5, <1>8, <1>9, <1>10, NoElements DEF InMemory
<1> QED
  BY <1>3, <1>11, <1>12 DEF SelectedLast

KeepsAll == Queues' /\ SelectedLast' /\ InMemory' = InMemory

LEMMA BlocksHandlerKeeps == TxInv /\ BlocksHandler /\ ~SendFails => KeepsAll
<1> SUFFICES ASSUME TxInv, BlocksHandler, ~SendFails PROVE KeepsAll
  OBVIOUS
<1>1. "txs" \in DOMAIN proposed /\ (blocksPc # "send" => proposed.txs = <<>>)
  BY DEF TxInv, Queues, SelectedLast
<1>2. UNCHANGED <<tableVars, acked, up, handler>>
  BY DEF BlocksHandler, ReceiveGetBlock, ProposeNewBlock, SendBlock, SendFails, ReceiveUpdateNonces,
         UpdateAccount, UpdatesDone, dbVars, tableVars, clientVars, processVars
<1>3. CASE ReceiveGetBlock
  <2>1. /\ proposed' = [NoBlock EXCEPT !.first = request'.first]
        /\ blocksPc = "idle" /\ UNCHANGED <<revertedTxs, readyTxs, pendingTxs, keeperOpen>>
    BY <1>3 DEF ReceiveGetBlock, queueVars, txVars, keeperVars
  <2>2. "txs" \in DOMAIN proposed' /\ proposed'.txs = <<>> /\ proposed.txs = <<>>
    BY <1>1, <2>1 DEF NoBlock
  <2>3. Queues'
    BY <2>1, <2>2, NoElements DEF TxInv, Queues
  <2>4. InMemory' = InMemory
    BY <2>1, <2>2 DEF InMemory
  <2> QED
    BY <2>2, <2>3, <2>4 DEF KeepsAll, SelectedLast
<1>4. CASE ProposeNewBlock
  <2>1. UNCHANGED <<tableVars, keeperOpen>>
    BY <1>2, <1>4 DEF ProposeNewBlock, keeperVars
  <2>2. ASSUME UNCHANGED <<revertedTxs, readyTxs, pendingTxs>>, blocksPc # "send",
               "txs" \in DOMAIN proposed', proposed'.txs = proposed.txs
        PROVE  KeepsAll
    BY <1>1, <2>1, <2>2 DEF KeepsAll, TxInv, Queues, SelectedLast, InMemory
  <2>3. CASE NothingReverted
    BY <1>1, <2>2, <2>3 DEF NothingReverted, queueVars, txVars
  <2>4. CASE SelectReverted
    BY <1>2, <2>1, <2>4, SelectRevertedHolds DEF KeepsAll
  <2>5. CASE RevertedOpDoesNotFit
    <3>1. /\ \E ops : proposed' = [proposed EXCEPT !.ops = ops]
          /\ blocksPc = "reverted" /\ UNCHANGED <<revertedTxs, readyTxs, pendingTxs>>
      BY <2>5 DEF RevertedOpDoesNotFit, txVars
    <3>2. "txs" \in DOMAIN proposed' /\ proposed'.txs = proposed.txs
      BY <1>1, <3>1
    <3> QED
      BY <2>2, <3>1, <3>2
  <2>6. CASE RevertedOpIsMissing
    BY <1>1, <2>2, <2>6 DEF RevertedOpIsMissing, txVars
  <2>7. CASE SelectPriorityOps
    <3>1. /\ \E ops : proposed' = [proposed EXCEPT !.ops = ops]
          /\ blocksPc = "ops" /\ UNCHANGED <<revertedTxs, readyTxs, pendingTxs>>
      BY <2>7 DEF SelectPriorityOps, txVars
    <3>2. "txs" \in DOMAIN proposed' /\ proposed'.txs = proposed.txs
      BY <1>1, <3>1
    <3> QED
      BY <2>2, <3>1, <3>2
  <2>8. CASE PrepareTxForBlock
    BY <1>2, <2>1, <2>8, PrepareTxHolds DEF KeepsAll
  <2> QED
    BY <1>4, <2>3, <2>4, <2>5, <2>6, <2>7, <2>8 DEF ProposeNewBlock
<1>5. CASE SendBlock
  <2>1. /\ keeperOpen' = IF proposed.ops = <<>> /\ proposed.txs = <<>> THEN keeperOpen
                         ELSE Append(keeperOpen, proposed)
        /\ proposed' = NoBlock /\ UNCHANGED <<revertedTxs, readyTxs, pendingTxs>>
    BY <1>5 DEF SendBlock, queueVars, txVars
  <2>2. "txs" \in DOMAIN proposed' /\ proposed'.txs = <<>>
    BY <2>1 DEF NoBlock
  <2>3. IsSeq(keeperOpen) /\ IsSeq(proposed.txs) /\ \A b \in ToSet(keeperOpen) : IsSeq(b.txs)
    BY DEF TxInv, Queues
  <2>4. /\ IsSeq(keeperOpen') /\ \A b \in ToSet(keeperOpen') : IsSeq(b.txs)
        /\ TxsIn(keeperOpen') = TxsIn(keeperOpen) \cup ToSet(proposed.txs)
    <3>1. CASE keeperOpen' = Append(keeperOpen, proposed)
      <4>1. /\ IsSeq(Append(keeperOpen, proposed))
            /\ ToSet(Append(keeperOpen, proposed)) = ToSet(keeperOpen) \cup {proposed}
        BY <2>3, Appended
      <4>2. TxsIn(Append(keeperOpen, proposed)) = TxsIn(keeperOpen) \cup ToSet(proposed.txs)
        BY <4>1, TxsOfElements
      <4> QED
        BY <2>3, <3>1, <4>1, <4>2
    <3>2. CASE keeperOpen' = keeperOpen /\ proposed.txs = <<>>
      BY <2>3, <3>2, NoElements
    <3> QED
      BY <2>1, <3>1, <3>2
  <2>5. Queues'
    BY <2>1, <2>2, <2>4, NoElements DEF TxInv, Queues
  <2>6. InMemory' = InMemory
    BY <2>1, <2>2, <2>4, NoElements DEF InMemory
  <2> QED
    BY <2>2, <2>5, <2>6 DEF KeepsAll, SelectedLast
<1>6. CASE ReceiveUpdateNonces \/ UpdateAccount \/ UpdatesDone
  <2>1. /\ UNCHANGED <<revertedTxs, readyTxs, pendingTxs, proposed, keeperOpen>>
        /\ blocksPc # "send"
    BY <1>6 DEF ReceiveUpdateNonces, UpdateAccount, UpdatesDone, queueVars, txVars, keeperVars
  <2>2. Queues' /\ SelectedLast' /\ InMemory' = InMemory
    BY <1>1, <2>1 DEF TxInv, Queues, SelectedLast, InMemory
  <2> QED
    BY <2>2 DEF KeepsAll
<1> QED
  BY <1>3, <1>4, <1>5, <1>6 DEF BlocksHandler

(* The send that fails drops the block, whose transactions are stored but  *)
(* not executed.                                                           *)
LEMMA SendFailsHolds == TxInv /\ SendFails => TxInv'
<1> SUFFICES ASSUME TxInv, SendFails PROVE TxInv'
  OBVIOUS
<1>1. /\ up /\ blocksPc' = "notSent" /\ proposed' = NoBlock
      /\ UNCHANGED <<revertedTxs, readyTxs, pendingTxs, keeperOpen, handler, dbTxs, dbReverted,
                     dbChain, acked, up>>
  BY DEF SendFails, queueVars, txVars, dbVars, keeperVars, clientVars
<1>2. "txs" \in DOMAIN proposed' /\ proposed'.txs = <<>>
  BY <1>1 DEF NoBlock
<1>3. Queues' /\ Tables' /\ SelectedLast'
  BY <1>1, <1>2, NoElements DEF TxInv, Queues, Tables, SelectedLast
<1>4. Durable' = Durable /\ InMemory' \subseteq InMemory
  BY <1>1, <1>2, NoElements DEF Durable, InMemory
<1>5. AckedIsDurable' /\ StoredFirst' /\ DownIsEmpty'
  BY <1>1, <1>4 DEF TxInv, AckedIsDurable, StoredFirst, DownIsEmpty, AmongSame
<1>6. NoTxLost'
  <2> SUFFICES ASSUME NEW v \in acked
               PROVE  \/ AmongSame(v, InMemory' \cup TxsIn(dbChain))
                      \/ AmongSame(v, dbTxs \cup RevertedIn(dbReverted))
    BY <1>1 DEF NoTxLost, AmongSame
  <2>1. PICK w \in Durable : SameTx(v, w)
    BY DEF TxInv, AckedIsDurable, AmongSame
  <2> QED
    BY <2>1 DEF Durable, AmongSame
<1> QED
  BY <1>1, <1>3, <1>5, <1>6 DEF TxInv

LEMMA BlocksHandlerHolds == TxInv /\ BlocksHandler => TxInv'
<1> SUFFICES ASSUME TxInv, BlocksHandler, ~SendFails PROVE TxInv'
  BY SendFailsHolds
<1>1. KeepsAll
  BY BlocksHandlerKeeps
<1>2. UNCHANGED <<tableVars, acked, up, handler>>
  BY DEF BlocksHandler, ReceiveGetBlock, ProposeNewBlock, SendBlock, SendFails, ReceiveUpdateNonces,
         UpdateAccount, UpdatesDone, dbVars, tableVars, clientVars, processVars
<1>3. blocksPc # "notSent"
  BY DEF BlocksHandler, ReceiveGetBlock, ProposeNewBlock, NothingReverted, SelectReverted,
         RevertedOpDoesNotFit, RevertedOpIsMissing, SelectPriorityOps, PrepareTxForBlock,
         SendBlock, SendFails, ReceiveUpdateNonces, UpdateAccount, UpdatesDone
<1> QED
  BY <1>1, <1>2, <1>3, QueuesStep DEF KeepsAll

-----------------------------------------------------------------------------
(* Steps that touch the tables.                                            *)

\* The sets a step makes or leaves, when the database forgets nothing.
LEMMA StoredStays ==
    ASSUME TxInv, Queues', Tables', SelectedLast', UNCHANGED handler,
           Durable \subseteq Durable', acked' \subseteq acked,
           InMemory' \subseteq Durable', DownIsEmpty', NoTxLost'
    PROVE  TxInv'
<1>1. StoredFirst' /\ handler' \in [Handler -> HandlerState]
  BY DEF TxInv, StoredFirst
<1>2. AckedIsDurable'
  BY DEF TxInv, AckedIsDurable, AmongSame
<1> QED
  BY <1>1, <1>2 DEF TxInv

LEMMA InsertTxHolds ==
    ASSUME TxInv, NEW h \in Handler, InsertTx(h)
    PROVE  TxInv'
<1> DEFINE v == handler[h].variant
<1>1. /\ handler' = [handler EXCEPT ![h].pc = "add"] /\ dbTxs' = dbTxs \cup {v}
      /\ up /\ UNCHANGED <<memoryVars, dbReverted, dbChain, acked, up>>
  BY DEF InsertTx, queueVars, txVars, blocksVars, keeperVars, clientVars, processVars, memoryVars
<1>2. handler \in [Handler -> HandlerState] /\ handler[h] \in HandlerState
  BY DEF TxInv
<1>3. handler' \in [Handler -> HandlerState]
  <2> DEFINE new == [handler[h] EXCEPT !.pc = "add"]
  <2>1. new \in HandlerState
    BY <1>2 DEF HandlerState, HandlerPc
  <2>2. handler' = [handler EXCEPT ![h] = new]
    BY <1>1
  <2> HIDE DEF new
  <2> QED
    BY <1>2, <2>1, <2>2
<1>4. /\ handler'[h].variant = v
      /\ \A g \in Handler : g # h => handler'[g] = handler[g]
  BY <1>1, <1>2 DEF HandlerState
<1> HIDE DEF v
<1>5. Durable' = Durable \cup {v}
  BY <1>1 DEF Durable
<1>6. InMemory' = InMemory /\ Queues' /\ SelectedLast'
  BY <1>1 DEF memoryVars, InMemory, TxInv, Queues, SelectedLast
<1>7. Tables'
  BY <1>1, FS_AddElement DEF TxInv, Tables
<1>8. StoredFirst'
  BY <1>4, <1>5 DEF TxInv, StoredFirst
<1>9. AckedIsDurable' /\ NoTxLost' /\ DownIsEmpty'
  <2>1. blocksPc' = blocksPc
    BY <1>1 DEF memoryVars
  <2> QED
    BY <1>1, <1>5, <1>6, <2>1 DEF TxInv, AckedIsDurable, NoTxLost, DownIsEmpty, AmongSame
<1> QED
  BY <1>3, <1>6, <1>7, <1>8, <1>9 DEF TxInv

LEMMA AddTxHolds ==
    ASSUME TxInv, NEW h \in Handler, AddTx(h)
    PROVE  TxInv'
<1> DEFINE v == handler[h].variant
<1>1. /\ handler' = [handler EXCEPT ![h] = IdleHandler]
      /\ pendingTxs' = pendingTxs \cup {v} /\ acked' = acked \cup {v}
      /\ up /\ UNCHANGED <<revertedTxs, readyTxs, proposed, keeperOpen, blocksPc, tableVars, up>>
  BY DEF AddTx, blocksVars, keeperVars, dbVars, processVars, tableVars
<1>2. handler \in [Handler -> HandlerState] /\ v \in Durable
  BY DEF TxInv, StoredFirst, AddTx
<1> HIDE DEF v
<1>3. Moves
  BY <1>1, <1>2, HandlerIdles
<1>4. Durable' = Durable /\ Tables'
  BY <1>1 DEF tableVars, Durable, TxInv, Tables
<1>5. InMemory' = InMemory \cup {v} /\ SelectedLast'
  BY <1>1 DEF InMemory, TxInv, SelectedLast
<1>6. Queues'
  BY <1>1, FS_AddElement DEF TxInv, Queues
<1>7. StoredFirst'
  BY <1>3, <1>4 DEF Moves, TxInv, StoredFirst
<1>8. AckedIsDurable' /\ NoTxLost' /\ DownIsEmpty'
  <2>1. UNCHANGED <<dbTxs, dbReverted, dbChain, up, blocksPc>>
    BY <1>1 DEF tableVars
  <2>2. SameTx(v, v)
    BY DEF SameTx
  <2> QED
    BY <1>1, <1>2, <1>4, <1>5, <2>1, <2>2
    DEF TxInv, AckedIsDurable, NoTxLost, DownIsEmpty, AmongSame
<1> QED
  BY <1>3, <1>4, <1>5, <1>6, <1>7, <1>8 DEF Moves, TxInv

\* What the database and the queues hold, together, stays the same.
SameDurable == Durable' = Durable
SameElsewhere == InMemory' \cup TxsIn(dbChain') = InMemory \cup TxsIn(dbChain)

LEMMA CommitBlockHolds == TxInv /\ CommitBlock => TxInv' /\ SameDurable /\ SameElsewhere
<1> SUFFICES ASSUME TxInv, CommitBlock PROVE TxInv' /\ SameDurable /\ SameElsewhere
  OBVIOUS
<1> DEFINE block == Head(keeperOpen)
<1>1. PICK committed :
        /\ committed.txs = block.txs
        /\ dbChain' = Append(dbChain, committed)
  <2>1. dbChain' = Append(dbChain, [first |-> block.first, ops |-> block.ops,
                                    txs |-> block.txs, before |-> dbAccounts])
    BY DEF CommitBlock
  <2> QED
    BY <2>1
<1>2. /\ up /\ keeperOpen # <<>> /\ keeperOpen' = Tail(keeperOpen)
      /\ UNCHANGED <<revertedTxs, readyTxs, pendingTxs, proposed, blocksPc, handler,
                     dbTxs, dbReverted, acked, up>>
  BY DEF CommitBlock, queueVars, txVars, blocksVars, clientVars, processVars
<1>3. /\ IsSeq(keeperOpen) /\ \A b \in ToSet(keeperOpen) : IsSeq(b.txs)
      /\ IsSeq(dbChain) /\ \A b \in ToSet(dbChain) : IsSeq(b.txs)
  BY DEF TxInv, Queues, Tables
<1>4. IsSeq(Tail(keeperOpen)) /\ ToSet(keeperOpen) = {block} \cup ToSet(Tail(keeperOpen))
  BY <1>2, <1>3, FirstAndRest
<1>5. /\ IsSeq(Append(dbChain, committed))
      /\ ToSet(Append(dbChain, committed)) = ToSet(dbChain) \cup {committed}
  BY <1>3, Appended
<1> HIDE DEF block
<1>6. TxsIn(keeperOpen) = ToSet(block.txs) \cup TxsIn(keeperOpen')
  BY <1>2, <1>4, TxsOfElements
<1>7. TxsIn(dbChain') = TxsIn(dbChain) \cup ToSet(block.txs)
  BY <1>1, <1>5, TxsOfElements
<1>8. Queues' /\ Tables' /\ SelectedLast'
  BY <1>1, <1>2, <1>3, <1>4, <1>5 DEF TxInv, Queues, Tables, SelectedLast
<1>9. Durable \subseteq Durable'
  BY <1>2, <1>7 DEF Durable
<1>10. InMemory = InMemory' \cup ToSet(block.txs)
  BY <1>2, <1>6 DEF InMemory
<1>11. InMemory' \subseteq Durable'
  BY <1>9, <1>10 DEF TxInv, AckedIsDurable
<1>12. NoTxLost' /\ DownIsEmpty'
  <2>1. InMemory \cup TxsIn(dbChain) = InMemory' \cup TxsIn(dbChain')
    BY <1>7, <1>10
  <2> QED
    BY <1>2, <2>1 DEF TxInv, NoTxLost, DownIsEmpty, AmongSame
<1>13. TxInv'
  BY <1>2, <1>8, <1>9, <1>11, <1>12, StoredStays
<1>14. SameDurable
  <2>1. ToSet(block.txs) \subseteq Durable
    BY <1>10 DEF TxInv, AckedIsDurable
  <2> QED
    BY <1>2, <1>7, <2>1 DEF Durable, SameDurable
<1>15. SameElsewhere
  BY <1>7, <1>10 DEF SameElsewhere
<1> QED
  BY <1>13, <1>14, <1>15

LEMMA CrashHolds == TxInv /\ Crash => TxInv'
<1> SUFFICES ASSUME TxInv, Crash PROVE TxInv'
  OBVIOUS
<1>1. /\ revertedTxs' = <<>> /\ readyTxs' = <<>> /\ pendingTxs' = {}
      /\ proposed' = NoBlock /\ keeperOpen' = <<>> /\ up' = FALSE
      /\ handler' = [h \in Handler |-> IdleHandler]
      /\ UNCHANGED <<tableVars, acked>>
  BY DEF Crash, dbVars, tableVars, clientVars
<1>2. /\ IsSeq(<<>>) /\ ToSet(<<>>) = {} /\ IsFiniteSet({})
      /\ TxsIn(<<>>) = {} /\ RevertedIn(<<>>) = {}
  BY NoElements, FS_EmptySet, TxsOfElements
<1>3. "txs" \in DOMAIN proposed' /\ proposed'.txs = <<>>
  BY <1>1 DEF NoBlock
<1>4. Queues' /\ SelectedLast' /\ NoTxLost' /\ InMemory' = {}
  BY <1>1, <1>2, <1>3 DEF Queues, SelectedLast, NoTxLost, InMemory
<1>5. Durable' = Durable /\ Tables'
  BY <1>1 DEF tableVars, Durable, TxInv, Tables
<1>6. AckedIsDurable'
  BY <1>1, <1>4, <1>5 DEF TxInv, AckedIsDurable, AmongSame
<1>7. handler' \in [Handler -> HandlerState] /\ StoredFirst' /\ DownIsEmpty'
  <2>1. IdleHandler \in HandlerState /\ IdleHandler.pc = "idle"
    BY DEF IdleHandler, HandlerState, HandlerPc
  <2> QED
    BY <1>1, <1>4, <2>1 DEF StoredFirst, DownIsEmpty
<1> QED
  BY <1>4, <1>5, <1>6, <1>7 DEF TxInv

(* The transactions of the block that is taken back move from the chain to *)
(* the reverted ones; those that were there before keep their entry.       *)
LEMMA RevertBlockHolds == TxInv /\ RevertBlock => TxInv' /\ SameDurable
<1> SUFFICES ASSUME TxInv, RevertBlock PROVE TxInv' /\ SameDurable
  OBVIOUS
<1> DEFINE block == Last(dbChain)
           next == block.first + Len(block.ops)
           txs == [i \in DOMAIN block.txs |-> [tx |-> block.txs[i], next |-> next]]
           others == {i \in DOMAIN dbReverted : dbReverted[i].tx \notin ToSet(block.txs)}
<1>1. PICK kept \in Selections(dbReverted, others) : dbReverted' = txs \o kept
  BY DEF RevertBlock
<1>2. /\ ~up /\ dbChain # <<>> /\ dbChain' = Front(dbChain)
      /\ dbTxs' = dbTxs \ ToSet(block.txs)
      /\ UNCHANGED <<memoryVars, handler, acked, up>>
  BY DEF RevertBlock, queueVars, txVars, blocksVars, keeperVars, clientVars, memoryVars
<1>3. /\ IsSeq(dbReverted) /\ IsSeq(dbChain) /\ IsFiniteSet(dbTxs)
      /\ \A b \in ToSet(dbChain) : IsSeq(b.txs)
  BY DEF TxInv, Tables
<1>4. IsSeq(Front(dbChain)) /\ ToSet(dbChain) = {block} \cup ToSet(Front(dbChain))
  BY <1>2, <1>3, LastAndFront
<1>5. IsSeq(block.txs)
  BY <1>3, <1>4
<1>6. IsSeq(kept) /\ ToSet(kept) = {dbReverted[i] : i \in others}
  BY <1>3, Selected
<1>7. RevertedIn(kept) = RevertedIn(dbReverted) \ ToSet(block.txs)
  <2>1. RevertedIn(kept) = {dbReverted[i].tx : i \in others}
    BY <1>6, TxsOfElements
  <2> QED
    BY <2>1 DEF RevertedIn
<1>8. IsSeq(txs) /\ RevertedIn(txs) = ToSet(block.txs)
  <2>1. Len(block.txs) \in Nat /\ DOMAIN block.txs = 1..Len(block.txs)
    BY <1>5, Shape
  <2>2. txs \in Seq(ToSet(txs))
    <3> DEFINE n == Len(block.txs)
               S == ToSet(txs)
    <3>1. DOMAIN txs = 1..n /\ \A i \in 1..n : txs[i] \in S
      BY <2>1 DEF ToSet
    <3>2. txs = [i \in 1..n |-> txs[i]]
      BY <2>1
    <3> HIDE DEF S, txs, n
    <3>3. n \in Nat
      BY <2>1 DEF n
    <3> QED
      BY <3>1, <3>2, <3>3 DEF S
  <2>3. RevertedIn(txs) = ToSet(block.txs)
    BY DEF RevertedIn, ToSet
  <2> QED
    BY <2>2, <2>3 DEF IsSeq
<1> HIDE DEF block, next, txs, others
<1>9. IsSeq(dbReverted') /\ ToSet(dbReverted') = ToSet(txs) \cup ToSet(kept)
  BY <1>1, <1>6, <1>8, Joined
<1>10. RevertedIn(dbReverted') = ToSet(block.txs) \cup RevertedIn(dbReverted)
  <2>1. RevertedIn(dbReverted') = RevertedIn(txs) \cup RevertedIn(kept)
    BY <1>9, TxsOfElements
  <2> QED
    BY <1>7, <1>8, <2>1
<1>11. TxsIn(dbChain) = ToSet(block.txs) \cup TxsIn(dbChain')
  BY <1>2, <1>4, TxsOfElements
<1>12. Durable' = Durable
  BY <1>2, <1>10, <1>11 DEF Durable
<1>13. Tables'
  <2>1. IsFiniteSet(dbTxs \ ToSet(block.txs))
    BY <1>3, FS_Subset
  <2> QED
    BY <1>2, <1>3, <1>4, <1>9, <2>1 DEF Tables
<1>14. Queues' /\ SelectedLast' /\ InMemory' = InMemory
  BY <1>2 DEF memoryVars, TxInv, Queues, SelectedLast, InMemory
<1>15. InMemory' \subseteq Durable' /\ NoTxLost' /\ DownIsEmpty'
  BY <1>2, <1>12, <1>14 DEF TxInv, AckedIsDurable, NoTxLost, DownIsEmpty
<1> QED
  BY <1>2, <1>12, <1>13, <1>14, <1>15, StoredStays DEF SameDurable

\* The garbage collection keeps what was executed, of the rest one of each.
Collected == Durable' = {v \in Durable : v \in TxsIn(dbChain) \/ v \notin Garbage}

LEMMA RestoreHolds == TxInv /\ RestoreFromDb => TxInv' /\ Collected
<1> SUFFICES ASSUME TxInv, RestoreFromDb PROVE TxInv' /\ Collected
  OBVIOUS
<1> DEFINE waiting == {i \in DOMAIN dbReverted : dbReverted[i].tx \notin Garbage}
<1>1. /\ dbTxs' = dbTxs \ Garbage /\ dbReverted' \in Selections(dbReverted, waiting)
      /\ revertedTxs' = dbReverted' /\ readyTxs' = <<>> /\ pendingTxs' = dbTxs' /\ ~up /\ up'
      /\ UNCHANGED <<proposed, keeperOpen, blocksPc, handler, dbChain, acked>>
  BY DEF RestoreFromDb, blocksVars, clientVars
<1>2. IsSeq(dbReverted) /\ IsFiniteSet(dbTxs)
  BY DEF TxInv, Tables
<1>3. IsSeq(dbReverted') /\ ToSet(dbReverted') = {dbReverted[i] : i \in waiting}
  BY <1>1, <1>2, Selected
<1>4. RevertedIn(dbReverted') = RevertedIn(dbReverted) \ Garbage
  <2>1. RevertedIn(dbReverted') = {dbReverted[i].tx : i \in waiting}
    BY <1>3, TxsOfElements
  <2> QED
    BY <2>1 DEF RevertedIn
<1> HIDE DEF waiting
<1>5. Collected
  BY <1>1, <1>4 DEF Durable, Collected
<1>6. IsFiniteSet(dbTxs')
  BY <1>1, <1>2, FS_Subset
<1>7. Queues' /\ Tables' /\ SelectedLast'
  BY <1>1, <1>3, <1>6, NoElements DEF TxInv, Queues, Tables, SelectedLast
<1>8. InMemory' = dbTxs' \cup RevertedIn(dbReverted')
  BY <1>1, NoElements DEF TxInv, DownIsEmpty, InMemory
<1>9. AckedIsDurable'
  <2>1. ASSUME NEW v \in acked PROVE AmongSame(v, Durable')
    <3>1. PICK w \in Durable : SameTx(v, w)
      BY DEF TxInv, AckedIsDurable, AmongSame
    <3>2. CASE w \in Durable'
      BY <3>1, <3>2 DEF AmongSame
    <3>3. CASE w \notin Durable'
      <4>1. PICK u \in TxsIn(dbChain) : SameTx(w, u)
        BY <1>5, <3>3 DEF Collected, Garbage
      <4>2. u \in Durable' /\ SameTx(v, u)
        BY <1>1, <3>1, <4>1 DEF Durable, SameTx
      <4> QED
        BY <4>2 DEF AmongSame
    <3> QED
      BY <3>2, <3>3
  <2>2. InMemory' \subseteq Durable'
    BY <1>8 DEF Durable
  <2> QED
    BY <1>1, <2>1, <2>2 DEF AckedIsDurable
<1>10. NoTxLost' /\ DownIsEmpty'
  <2>1. Durable' \subseteq InMemory' \cup TxsIn(dbChain')
    BY <1>8 DEF Durable
  <2> QED
    BY <1>1, <1>9, <2>1 DEF AckedIsDurable, NoTxLost, DownIsEmpty, AmongSame
<1>11. handler' \in [Handler -> HandlerState] /\ StoredFirst'
  BY <1>1 DEF TxInv, StoredFirst, DownIsEmpty
<1> QED
  BY <1>5, <1>7, <1>9, <1>10, <1>11 DEF TxInv

LEMMA TxStep == TxInv /\ [Next]_vars => TxInv'
<1> SUFFICES ASSUME TxInv, [Next]_vars PROVE TxInv'
  OBVIOUS
<1>1. ASSUME NEW h \in Handler, TransactionsHandler(h) PROVE TxInv'
  <2>1. CASE InsertTx(h)
    BY <2>1, InsertTxHolds
  <2>2. CASE AddTx(h)
    BY <2>2, AddTxHolds
  <2>3. CASE ~InsertTx(h) /\ ~AddTx(h)
    <3>1. handler \in [Handler -> HandlerState]
      BY DEF TxInv
    <3>2. Moves /\ Untouched
      BY <1>1, <2>3, <3>1, HandlerMoves, HandlersUntouched
    <3> QED
      BY <3>2, TxFrame DEF Moves, Untouched
  <2> QED
    BY <2>1, <2>2, <2>3
<1>2. CASE BlocksHandler
  BY <1>2, BlocksHandlerHolds
<1>3. CASE RequestBlock \/ Tick \/ UNCHANGED vars
  <2>1. UNCHANGED <<memoryVars, tableVars, acked, up, handler>>
    BY <1>3 DEF RequestBlock, Tick, vars, queueVars, txVars, blocksVars, dbVars, keeperVars,
                clientVars, processVars, memoryVars, tableVars
  <2> QED
    BY <2>1, TxFrameSameHandlers
<1>4. CASE CommitBlock
  BY <1>4, CommitBlockHolds
<1>5. CASE Process
  BY <1>5, CrashHolds, RevertBlockHolds, RestoreHolds DEF Process
<1> QED
  BY <1>1, <1>2, <1>3, <1>4, <1>5 DEF Next, StateKeeper

(* Whatever was answered Ok, and whatever is in memory, is in the database *)
(* (mod.rs: add_tx and add_batch write to the database before they touch   *)
(* the memory pool; restore_from_db collects only what was executed).      *)
THEOREM AnsweredIsStored == Spec => []AckedIsDurable
<1>1. TxInv => AckedIsDurable
  BY DEF TxInv
<1> QED
  BY <1>1, TxInit, TxStep, PTL DEF Spec

(* While the server runs, no selection, push-back or early return of the   *)
(* blocks handler loses an accepted transaction, and neither does a        *)
(* restart (mod.rs: propose_new_block, prepare_tx_for_block,               *)
(* restore_from_db); what the send that fails drops is still in the tables *)
(* that the restart loads (mod.rs: run).                                   *)
THEOREM NoTransactionLost == Spec => []NoTxLost
<1>1. TxInv => NoTxLost
  BY DEF TxInv
<1> QED
  BY <1>1, TxInit, TxStep, PTL DEF Spec

-----------------------------------------------------------------------------
(* Priority operations.                                                    *)

Once(s) == \A i, j \in DOMAIN s : s[i] = s[j] => i = j

LEMMA OnceInDrop ==
    ASSUME NEW s, IsSeq(s), Once(s), NEW k \in 0..Len(s)
    PROVE  IsSeq(Drop(s, k)) /\ Once(Drop(s, k))
<1>1. /\ IsSeq(Drop(s, k)) /\ Len(Drop(s, k)) = Len(s) - k
      /\ \A i \in 1..Len(s) - k : Drop(s, k)[i] = s[k + i]
  BY CutInTwo
<1>2. /\ Len(s) \in Nat /\ DOMAIN s = 1..Len(s)
      /\ DOMAIN Drop(s, k) = 1..Len(s) - k
  BY <1>1, Shape
<1>3. ASSUME NEW i \in DOMAIN Drop(s, k), NEW j \in DOMAIN Drop(s, k),
             Drop(s, k)[i] = Drop(s, k)[j]
      PROVE  i = j
  <2>1. k + i \in DOMAIN s /\ k + j \in DOMAIN s /\ s[k + i] = s[k + j]
    BY <1>1, <1>2, <1>3
  <2>2. k + i = k + j
    BY <2>1 DEF Once
  <2> QED
    BY <1>2, <2>2
<1> QED
  BY <1>1, <1>3 DEF Once

LEMMA SortedOnce ==
    ASSUME NEW S, S \subseteq SerialId, NEW e \in BySerial(S)
    PROVE  IsSeq(e) /\ ToSet(e) = S /\ Once(e)
<1>1. IsFiniteSet(S) /\ S \subseteq Int
  <2>1. SerialId \subseteq Int /\ IsFiniteSet(SerialId)
    BY SerialAssumption, FS_Interval DEF SerialId
  <2> QED
    BY <2>1, FS_Subset
<1>2. /\ e \in [1..Cardinality(S) -> S] /\ ToSet(e) = S
      /\ \A i, j \in DOMAIN e : i < j => e[i] < e[j]
  BY DEF BySerial, Ascending, Enumerations
<1>3. IsSeq(e)
  BY <1>1, <1>2, Listed
<1>4. Cardinality(S) \in Nat /\ DOMAIN e = 1..Cardinality(S)
  BY <1>1, <1>2, FS_CardinalityType
<1>5. ASSUME NEW i \in DOMAIN e, NEW j \in DOMAIN e, e[i] = e[j]
      PROVE  i = j
  <2>1. e[i] \in Int /\ e[j] \in Int /\ i \in Int /\ j \in Int
    <3>1. e[i] \in Int /\ e[j] \in Int
      BY <1>1, <1>2
    <3>2. i \in Int /\ j \in Int
      BY <1>4
    <3> QED
      BY <3>1, <3>2
  <2>2. ~(i < j) /\ ~(j < i)
    BY <1>2, <1>5, <2>1
  <2> QED
    BY <2>1, <2>2
<1> QED
  BY <1>2, <1>3, <1>5 DEF Once

LEMMA OnceInJoin ==
    ASSUME NEW s, IsSeq(s), Once(s), NEW t, IsSeq(t), Once(t), ToSet(s) \cap ToSet(t) = {}
    PROVE  IsSeq(s \o t) /\ Once(s \o t)
<1>1. /\ IsSeq(s \o t) /\ Len(s \o t) = Len(s) + Len(t)
      /\ \A i \in 1..Len(s) : (s \o t)[i] = s[i]
      /\ \A i \in 1..Len(t) : (s \o t)[Len(s) + i] = t[i]
  BY Joined
<1>2. /\ Len(s) \in Nat /\ DOMAIN s = 1..Len(s)
      /\ Len(t) \in Nat /\ DOMAIN t = 1..Len(t)
      /\ DOMAIN (s \o t) = 1..Len(s) + Len(t)
  BY <1>1, Shape
<1>3. \A i \in DOMAIN s, j \in DOMAIN t : s[i] # t[j]
  BY DEF ToSet
<1>4. ASSUME NEW i \in DOMAIN (s \o t), NEW j \in DOMAIN (s \o t),
             (s \o t)[i] = (s \o t)[j]
      PROVE  i = j
  <2> DEFINE at(n) == n - Len(s)
  <2>1. \A n \in DOMAIN (s \o t) :
            \/ n \in DOMAIN s /\ (s \o t)[n] = s[n]
            \/ at(n) \in DOMAIN t /\ n = Len(s) + at(n) /\ (s \o t)[n] = t[at(n)]
    <3> TAKE n \in DOMAIN (s \o t)
    <3>1. CASE n <= Len(s)
      BY <1>1, <1>2, <3>1
    <3>2. CASE n > Len(s)
      <4>1. at(n) \in 1..Len(t) /\ n = Len(s) + at(n)
        BY <1>2, <3>2
      <4> HIDE DEF at
      <4>2. (s \o t)[Len(s) + at(n)] = t[at(n)]
        BY <1>1, <4>1
      <4> QED
        BY <1>2, <4>1, <4>2
    <3> QED
      BY <1>2, <3>1, <3>2
  <2> HIDE DEF at
  <2>2. CASE i \in DOMAIN s /\ (s \o t)[i] = s[i]
    <3>1. j \in DOMAIN s /\ (s \o t)[j] = s[j]
      BY <1>3, <1>4, <2>1, <2>2
    <3> QED
      BY <1>4, <2>2, <3>1 DEF Once
  <2>3. CASE at(i) \in DOMAIN t /\ i = Len(s) + at(i) /\ (s \o t)[i] = t[at(i)]
    <3>1. at(j) \in DOMAIN t /\ j = Len(s) + at(j) /\ (s \o t)[j] = t[at(j)]
      BY <1>3, <1>4, <2>1, <2>3
    <3>2. at(i) = at(j)
      BY <1>4, <2>3, <3>1 DEF Once
    <3> QED
      BY <2>3, <3>1, <3>2
  <2> QED
    BY <2>1, <2>2, <2>3
<1> QED
  BY <1>1, <1>4 DEF Once

\* The handlers hold serial ids, so that what they add can be sorted.
OpsInv ==
    /\ handler \in [Handler -> HandlerState]
    /\ IsSeq(priorityOps) /\ NoOpTwice

LEMMA OpsInit == Init => OpsInv
<1> SUFFICES ASSUME Init PROVE OpsInv
  OBVIOUS
<1>1. IsSeq(priorityOps) /\ NoOpTwice
  <2>1. DOMAIN priorityOps = {}
    BY DEF Init
  <2> QED
    BY <2>1, NoElements DEF Init, NoOpTwice
<1> QED
  BY <1>1 DEF Init, OpsInv, IdleHandler, HandlerState, HandlerPc

LEMMA AddOpsHolds ==
    ASSUME OpsInv, NEW h \in Handler, AddOps(h)
    PROVE  IsSeq(priorityOps') /\ Once(priorityOps')
<1> DEFINE new == FreshOps(handler[h].ops, priorityOps, lastProcessed)
<1>1. PICK fresh \in BySerial(new) : priorityOps' = priorityOps \o fresh
  BY DEF AddOps
<1>2. new \subseteq SerialId /\ new \cap ToSet(priorityOps) = {}
  BY DEF OpsInv, HandlerState, FreshOps
<1> HIDE DEF new
<1>3. IsSeq(fresh) /\ ToSet(fresh) = new /\ Once(fresh)
  BY <1>2, SortedOnce
<1>4. IsSeq(priorityOps) /\ Once(priorityOps)
  BY DEF OpsInv, NoOpTwice, Once
<1> QED
  BY <1>1, <1>2, <1>3, <1>4, OnceInJoin

\* The blocks handler only pops.
LEMMA ProposalPops ==
    ASSUME IsSeq(priorityOps), ProposeNewBlock
    PROVE  \/ UNCHANGED priorityOps
           \/ priorityOps' = <<>>
           \/ \E k \in 0..Len(priorityOps) : priorityOps' = Drop(priorityOps, k)
<1>1. Len(priorityOps) \in Nat
  BY Shape
<1>2. CASE NothingReverted \/ PrepareTxForBlock
  BY <1>2 DEF NothingReverted, PrepareTxForBlock, queueVars, opVars
<1>3. CASE SelectReverted
  BY <1>3 DEF SelectReverted
<1>4. CASE RevertedOpDoesNotFit
  <2>1. PICK k \in 1..Len(priorityOps) : priorityOps' = Drop(priorityOps, k)
    BY <1>4 DEF RevertedOpDoesNotFit
  <2> QED
    BY <1>1, <2>1
<1>5. CASE RevertedOpIsMissing
  BY <1>5 DEF RevertedOpIsMissing
<1>6. CASE SelectPriorityOps
  <2>1. PICK k \in 0..Len(priorityOps) :
            \/ priorityOps' = <<>>
            \/ priorityOps' = Drop(priorityOps, k)
            \/ k < Len(priorityOps) /\ priorityOps' = Drop(priorityOps, k + 1)
    BY <1>6 DEF SelectPriorityOps
  <2>2. k < Len(priorityOps) => k + 1 \in 0..Len(priorityOps)
    BY <1>1
  <2> QED
    BY <2>1, <2>2
<1> QED
  BY <1>2, <1>3, <1>4, <1>5, <1>6 DEF ProposeNewBlock

LEMMA OpsStep == TxInv /\ OpsInv /\ [Next]_vars => OpsInv'
<1> SUFFICES ASSUME TxInv, OpsInv, [Next]_vars PROVE OpsInv'
  OBVIOUS
<1>1. handler' \in [Handler -> HandlerState]
  BY TxStep DEF TxInv
<1>2. ASSUME IsSeq(priorityOps'), Once(priorityOps') PROVE OpsInv'
  BY <1>1, <1>2 DEF OpsInv, NoOpTwice, Once
<1>3. IsSeq(priorityOps) /\ Once(priorityOps) /\ IsSeq(<<>>) /\ Once(<<>>)
  BY NoElements DEF OpsInv, NoOpTwice, Once
<1>4. ASSUME UNCHANGED priorityOps PROVE OpsInv'
  BY <1>2, <1>3, <1>4
<1>5. ASSUME NEW h \in Handler, TransactionsHandler(h) PROVE OpsInv'
  <2>1. CASE AddOps(h)
    BY <1>2, <2>1, AddOpsHolds
  <2>2. CASE ~AddOps(h)
    BY <1>4, <1>5, <2>2
       DEF TransactionsHandler, ReceiveTx, CheckNonce, CheckBatchSize, InsertTx, InsertTxFails,
           AddTx, ReceiveConfirmedOps, ReceiveUnconfirmedOp, ReadMaxSerial, InsertOps, OpsFail,
           queueVars, opVars
  <2> QED
    BY <2>1, <2>2
<1>6. CASE ProposeNewBlock
  BY <1>2, <1>3, <1>4, <1>6, ProposalPops, OnceInDrop
<1>7. CASE BlocksHandler /\ ~ProposeNewBlock
  BY <1>4, <1>7 DEF BlocksHandler, ReceiveGetBlock, SendBlock, SendFails,
                    ReceiveUpdateNonces, UpdateAccount,
                    UpdatesDone, queueVars, opVars
<1>8. CASE StateKeeper \/ RevertBlock \/ UNCHANGED vars
  BY <1>4, <1>8 DEF StateKeeper, RequestBlock, Tick, CommitBlock, RevertBlock, vars, queueVars, opVars
<1>9. CASE Crash
  BY <1>2, <1>3, <1>9 DEF Crash
<1>10. CASE RestoreFromDb
  <2> DEFINE new == FreshOps(DbConfirmed, <<>>, DbMaxSerial)
  <2>1. priorityOps' \in BySerial(new)
    BY <1>10 DEF RestoreFromDb
  <2>2. new \subseteq SerialId
    BY DEF FreshOps, DbConfirmed
  <2> HIDE DEF new
  <2> QED
    BY <1>2, <2>1, <2>2, SortedOnce
<1> QED
  BY <1>5, <1>6, <1>7, <1>8, <1>9, <1>10 DEF Next, Process

(* No priority operation is in the queue twice: not when the watcher sends *)
(* it again while another handler adds it, nor when the queue is restored  *)
(* (mempool_transactions_queue.rs: add_priority_ops drops what it has).    *)
THEOREM QueuedOnce == Spec => []NoOpTwice
<1>1. OpsInv => NoOpTwice
  BY DEF OpsInv
<1> QED
  BY <1>1, TxInit, TxStep, OpsInit, OpsStep, PTL DEF Spec

-----------------------------------------------------------------------------
(* Types.  The sequences of the queues over the sets they come from.       *)
LEMMA SeqIn ==
    ASSUME NEW s, IsSeq(s), NEW V, ToSet(s) \subseteq V
    PROVE  s \in Seq(V)
<1> DEFINE S == ToSet(s)
<1>1. s \in Seq(S) /\ S \subseteq V
  BY DEF IsSeq
<1> HIDE DEF S
<1> QED
  BY <1>1

LEMMA ElementsIn ==
    ASSUME NEW V, NEW s \in Seq(V)
    PROVE  IsSeq(s) /\ ToSet(s) \subseteq V /\ Len(s) \in Nat /\ DOMAIN s = 1..Len(s)
BY SeqOver DEF ToSet

LEMMA PartsIn ==
    ASSUME NEW V, NEW s \in Seq(V), NEW k \in 0..Len(s)
    PROVE  Take(s, k) \in Seq(V) /\ Drop(s, k) \in Seq(V)
<1>1. IsSeq(s) /\ ToSet(s) \subseteq V
  BY ElementsIn
<1>2. /\ IsSeq(Take(s, k)) /\ IsSeq(Drop(s, k))
      /\ ToSet(s) = ToSet(Take(s, k)) \cup ToSet(Drop(s, k))
  BY <1>1, CutInTwo
<1> QED
  BY <1>1, <1>2, SeqIn

LEMMA SelectionIn ==
    ASSUME NEW V, NEW s \in Seq(V), NEW I, I \subseteq DOMAIN s, NEW kept \in Selections(s, I)
    PROVE  kept \in Seq(V)
<1>1. IsSeq(s) /\ ToSet(s) \subseteq V
  BY ElementsIn
<1>2. IsSeq(kept) /\ ToSet(kept) = {s[i] : i \in I}
  BY <1>1, Selected
<1>3. ToSet(kept) \subseteq V
  BY <1>1, <1>2 DEF ToSet
<1> QED
  BY <1>2, <1>3, SeqIn

LEMMA SortedIn ==
    ASSUME NEW S, S \subseteq SerialId, NEW e \in BySerial(S)
    PROVE  e \in Seq(SerialId)
<1>1. IsSeq(e) /\ ToSet(e) = S
  BY SortedOnce
<1> QED
  BY <1>1, SeqIn

AccountTypes == accountNonces \in Nonces /\ accountIds \in Ids

QueueTypes ==
    /\ revertedTxs \in Seq(RevertedTx) /\ readyTxs \in Seq(Variant)
    /\ pendingTxs \in SUBSET Variant /\ IsFiniteSet(pendingTxs)
    /\ lastProcessed \in SerialId \cup {-1} /\ priorityOps \in Seq(SerialId)

\* What a handler checks or stores is a variant with the transaction looked at.
HoldsTx(s) ==
    s.pc \in {"nonce", "size", "insert", "add"} =>
        s.variant \in Variant /\ s.index \in DOMAIN TxsOf[s.variant]

HandlerTypes ==
    /\ handler \in [Handler -> HandlerState]
    /\ \A h \in Handler : HoldsTx(handler[h]) /\ (handler[h].pc = "idle" => handler[h] = IdleHandler)

BlockTypes ==
    /\ blocksPc \in BlocksPc /\ request \in GetBlockRequest /\ proposed \in Block
    /\ updates \in Seq(AccountUpdate)
    /\ requests \in Seq(GetBlockRequest \cup UpdateNoncesRequest)

TableTypes ==
    /\ dbTxs \in SUBSET Variant /\ IsFiniteSet(dbTxs) /\ dbReverted \in Seq(RevertedTx)
    /\ dbOps \in [SerialId -> {"none", "unconfirmed", "confirmed"}]
    /\ dbChain \in Seq(ChainBlock) /\ dbAccounts \in AccountTree

OuterTypes ==
    /\ keeperNext \in Nat /\ keeperOpen \in Seq(Block) /\ clock \in 0..MaxTime
    /\ watchNext \in 0..MaxSerial + 1
    /\ submitted \in SUBSET Variant /\ acked \in SUBSET Variant
    /\ up \in BOOLEAN /\ crashes \in 0..MaxCrashes /\ reverts \in 0..MaxReverts

Types == AccountTypes /\ QueueTypes /\ HandlerTypes /\ BlockTypes /\ TableTypes /\ OuterTypes

LEMMA TypesAreTypeOK == Types => TypeOK
BY DEF Types, AccountTypes, QueueTypes, HandlerTypes, HoldsTx, BlockTypes, TableTypes, OuterTypes, TypeOK

LEMMA IdsAreIds == ASSUME NEW nonces \in Nonces PROVE IdsOf(nonces) \in Ids
<1>1. ASSUME NEW i \in AccountId PROVE IdsOf(nonces)[i] \in Address \cup {NoAddress}
  <2>1. CASE \E x \in Known(nonces) : IdOf[x] = i
    BY <2>1 DEF IdsOf, Known
  <2>2. CASE ~\E x \in Known(nonces) : IdOf[x] = i
    BY <2>2 DEF IdsOf
  <2> QED
    BY <2>1, <2>2
<1>2. DOMAIN IdsOf(nonces) = AccountId /\ IdsOf(nonces) = [i \in AccountId |-> IdsOf(nonces)[i]]
  BY DEF IdsOf
<1> QED
  BY <1>1, <1>2 DEF Ids

LEMMA TypesInit == Init => Types
<1> SUFFICES ASSUME Init PROVE Types
  OBVIOUS
<1> USE DEF Init
<1>1. \A V : <<>> \in Seq(V)
  OBVIOUS
<1>2. InitAccounts \in Nonces /\ IdsOf(InitAccounts) \in Ids
  BY MempoolAssumption, IdsAreIds
<1>3. AccountTypes
  BY <1>2 DEF AccountTypes
<1>4. QueueTypes
  BY <1>1, FS_EmptySet DEF QueueTypes
<1>5. HandlerTypes
  BY DEF HandlerTypes, HandlerState, HandlerPc, IdleHandler, HoldsTx
<1>6. BlockTypes
  <2>1. NoBlock \in Block
    BY <1>1 DEF NoBlock, Block
  <2> QED
    BY <1>1, <2>1 DEF BlockTypes, BlocksPc, NoRequest, GetBlockRequest
<1>7. TableTypes
  BY <1>1, <1>2, FS_EmptySet DEF TableTypes, AccountTree
<1>8. OuterTypes
  BY <1>1, MempoolAssumption, SerialAssumption DEF OuterTypes
<1> QED
  BY <1>3, <1>4, <1>5, <1>6, <1>7, <1>8 DEF Types

-----------------------------------------------------------------------------
(* What the state keeper executes.  `updates` tells how the accounts change *)
(* one after the other, and the mempool can follow it: an update names the *)
(* account by its id and its address, and UpdateBalance one that exists.   *)
Effect(nonces, u) ==
    [nonces EXCEPT ![u.address] = IF u.type = "Delete" THEN Absent ELSE u.nonce]
UpdateRel ==
    {x \in Nonces \X AccountUpdate \X Nonces :
        /\ x[2].id = IdOf[x[2].address]
        /\ x[2].type = "UpdateBalance" => x[2].address \in Known(x[1])
        /\ x[3] = Effect(x[1], x[2])}
Leads(from, s, to) == Walk(from, s, to, Nonces, UpdateRel)
Executed(from) ==
    {s \in [nonces : Nonces, updates : Seq(AccountUpdate), ok : BOOLEAN] :
        Leads(from, s.updates, s.nonces)}

LEMMA UpdateTyped ==
    ASSUME NEW type \in {"Create", "Delete", "UpdateBalance"}, NEW x \in Address, NEW n \in Nat
    PROVE  /\ Update(type, x, n) \in AccountUpdate
           /\ Update(type, x, n).type = type /\ Update(type, x, n).address = x
           /\ Update(type, x, n).nonce = n /\ Update(type, x, n).id = IdOf[x]
BY MempoolAssumption DEF Update, AccountUpdate

\* One more update.
LEMMA LeadsOn ==
    ASSUME NEW from, NEW s \in Seq(AccountUpdate), NEW mid \in Nonces, Leads(from, s, mid),
           NEW type \in {"Create", "Delete", "UpdateBalance"}, NEW x \in Address, NEW n \in Nat,
           type = "UpdateBalance" => x \in Known(mid)
    PROVE  LET to == [mid EXCEPT ![x] = IF type = "Delete" THEN Absent ELSE n]
           IN  /\ to \in Nonces /\ Append(s, Update(type, x, n)) \in Seq(AccountUpdate)
               /\ Leads(from, Append(s, Update(type, x, n)), to)
<1> DEFINE to == [mid EXCEPT ![x] = IF type = "Delete" THEN Absent ELSE n]
           u == Update(type, x, n)
<1>1. to \in Nonces
  BY DEF Nonces
<1>2. u \in AccountUpdate /\ u.type = type /\ u.address = x /\ u.nonce = n /\ u.id = IdOf[x]
  BY UpdateTyped
<1>3. to = Effect(mid, u)
  BY <1>2 DEF Effect
<1> HIDE DEF to, u
<1>4. <<mid, u, to>> \in UpdateRel
  BY <1>1, <1>2, <1>3 DEF UpdateRel
<1>5. Append(s, u) \in Seq(AccountUpdate)
  BY <1>2
<1>6. Walk(from, Append(s, u), to, Nonces, UpdateRel)
  BY <1>1, <1>2, <1>4, WalkAppend DEF Leads
<1> QED
  BY <1>1, <1>5, <1>6 DEF Leads, to, u

LEMMA ExecuteTxLeads ==
    ASSUME NEW from, NEW s \in Executed(from), NEW tx \in Tx
    PROVE  ExecuteTx(tx, s) \in Executed(from)
<1> DEFINE nonces == s.nonces
           after == [nonces EXCEPT ![tx.account] = @ + 1]
<1>1. /\ nonces \in Nonces /\ s.updates \in Seq(AccountUpdate) /\ s.ok \in BOOLEAN
      /\ Leads(from, s.updates, nonces)
      /\ s = [nonces |-> nonces, updates |-> s.updates, ok |-> s.ok]
  BY DEF Executed
<1>2. tx.account \in Address /\ tx.to \in Address /\ tx.nonce \in Nat
  BY DEF Tx
<1> HIDE DEF nonces
<1>3. ASSUME NEW n \in Nonces, NEW us \in Seq(AccountUpdate), NEW ok \in BOOLEAN, Leads(from, us, n)
      PROVE  [nonces |-> n, updates |-> us, ok |-> ok] \in Executed(from)
  BY <1>3 DEF Executed
<1>4. CASE ~s.ok \/ nonces[tx.account] # tx.nonce
  <2>1. ExecuteTx(tx, s) = [nonces |-> nonces, updates |-> s.updates, ok |-> FALSE]
    BY <1>1, <1>4 DEF ExecuteTx, nonces
  <2> QED
    BY <1>1, <1>3, <2>1
<1>5. CASE s.ok /\ nonces[tx.account] = tx.nonce /\ tx.kind = "close"
  <2> DEFINE to == [nonces EXCEPT ![tx.account] = Absent]
             us == Append(s.updates, Update("Delete", tx.account, 0))
  <2>1. ExecuteTx(tx, s) = [nonces |-> to, updates |-> us, ok |-> s.ok]
    BY <1>1, <1>5 DEF ExecuteTx, nonces
  <2>2. to \in Nonces /\ us \in Seq(AccountUpdate) /\ Leads(from, us, to)
    <3> DEFINE type == "Delete"
    <3>1. type \in {"Create", "Delete", "UpdateBalance"} /\ type # "UpdateBalance" /\ 0 \in Nat
      OBVIOUS
    <3>2. type = "Delete"
      OBVIOUS
    <3> HIDE DEF type
    <3>3. LET t == [nonces EXCEPT ![tx.account] = IF type = "Delete" THEN Absent ELSE 0]
          IN  /\ t \in Nonces /\ Append(s.updates, Update(type, tx.account, 0)) \in Seq(AccountUpdate)
              /\ Leads(from, Append(s.updates, Update(type, tx.account, 0)), t)
      BY <1>1, <1>2, <3>1, LeadsOn
    <3> QED
      BY <3>2, <3>3
  <2> QED
    BY <1>1, <1>3, <2>1, <2>2
<1>6. CASE s.ok /\ nonces[tx.account] = tx.nonce /\ tx.kind # "close"
  <2> DEFINE us == Append(s.updates, Update("UpdateBalance", tx.account, tx.nonce + 1))
  <2>1. tx.account \in Known(nonces) /\ tx.nonce + 1 \in Nat
    BY <1>2, <1>6 DEF Known, Absent
  <2>2. after \in Nonces /\ us \in Seq(AccountUpdate) /\ Leads(from, us, after)
    <3> DEFINE type == "UpdateBalance"
    <3>1. type \in {"Create", "Delete", "UpdateBalance"} /\ type # "Delete"
      OBVIOUS
    <3>2. type = "UpdateBalance"
      OBVIOUS
    <3> HIDE DEF type
    <3>3. LET t == [nonces EXCEPT ![tx.account] = IF type = "Delete" THEN Absent ELSE tx.nonce + 1]
          IN  /\ t \in Nonces /\ Append(s.updates, Update(type, tx.account, tx.nonce + 1)) \in Seq(AccountUpdate)
              /\ Leads(from, Append(s.updates, Update(type, tx.account, tx.nonce + 1)), t)
      BY <1>1, <1>2, <2>1, <3>1, LeadsOn
    <3>4. after = [nonces EXCEPT ![tx.account] = tx.nonce + 1]
      BY <1>6
    <3> QED
      BY <3>1, <3>2, <3>3, <3>4
  <2> HIDE DEF after
  <2>3. CASE tx.to \in Known(nonces)
    <3>1. ExecuteTx(tx, s) = [nonces |-> after, updates |-> us, ok |-> s.ok]
      <4>1. us = s.updates \o <<Update("UpdateBalance", tx.account, tx.nonce + 1)>> \o <<>>
        BY <1>1, <2>2
      <4> HIDE DEF us
      <4> QED
        BY <1>1, <1>6, <2>3, <4>1 DEF ExecuteTx, nonces, after
    <3> QED
      BY <1>1, <1>3, <2>2, <3>1
  <2>4. CASE tx.to \notin Known(nonces)
    <3> DEFINE to == [after EXCEPT ![tx.to] = 0]
               vs == Append(us, Update("Create", tx.to, 0))
    <3>1. ExecuteTx(tx, s) = [nonces |-> to, updates |-> vs, ok |-> s.ok]
      <4>1. vs = s.updates \o <<Update("UpdateBalance", tx.account, tx.nonce + 1)>> \o <<Update("Create", tx.to, 0)>>
        BY <1>1, <2>2
      <4> HIDE DEF vs
      <4> QED
        BY <1>1, <1>6, <2>4, <4>1 DEF ExecuteTx, nonces, after
    <3>2. to \in Nonces /\ vs \in Seq(AccountUpdate) /\ Leads(from, vs, to)
      <4> DEFINE type == "Create"
      <4>1. type \in {"Create", "Delete", "UpdateBalance"} /\ type # "UpdateBalance" /\ type # "Delete" /\ 0 \in Nat
        OBVIOUS
      <4>2. type = "Create"
        OBVIOUS
      <4> HIDE DEF type, us
      <4>3. LET t == [after EXCEPT ![tx.to] = IF type = "Delete" THEN Absent ELSE 0]
            IN  /\ t \in Nonces /\ Append(us, Update(type, tx.to, 0)) \in Seq(AccountUpdate)
                /\ Leads(from, Append(us, Update(type, tx.to, 0)), t)
        BY <1>2, <2>2, <4>1, LeadsOn
      <4> QED
        BY <4>1, <4>2, <4>3
    <3> QED
      BY <1>1, <1>3, <3>1, <3>2
  <2> QED
    BY <2>3, <2>4
<1> QED
  BY <1>4, <1>5, <1>6

LEMMA ExecuteVariantLeads ==
    ASSUME NEW from, NEW s \in Executed(from), NEW v \in Variant
    PROVE  ExecuteVariant(v, s) \in Executed(from)
<1> DEFINE seq == TxsOf[v]
           D == DOMAIN seq
           At(g, t) == IF t = {} THEN s ELSE ExecuteTx(seq[Max(t)], g[t \ {Max(t)}])
           iter == CHOOSE g : g = [t \in SUBSET D |-> At(g, t)]
           step == [x \in Tx \X Executed(from) |-> ExecuteTx(x[1], x[2])]
<1>1. seq \in Seq(Tx)
  BY VariantAssumption
<1>2. ExecuteVariant(v, s) = IF iter[D].ok THEN iter[D] ELSE s
  BY DEF ExecuteVariant, FoldLeft, MapThenFoldSet
<1> HIDE DEF seq
<1>3. step \in [Tx \X Executed(from) -> Executed(from)]
      /\ \A tx \in Tx, t \in Executed(from) : step[<<tx, t>>] = ExecuteTx(tx, t)
  BY ExecuteTxLeads
<1>4. \A t \in SUBSET D : t # {} => Max(t) \in t /\ seq[Max(t)] \in Tx
  BY <1>1, LastFirst
<1> HIDE DEF step, iter
<1>5. \E g : g = [t \in SUBSET D |-> At(g, t)]
  <2>1. FoldableSeq(s, step, seq, Executed(from))
    BY <1>1, <1>3, SeqFoldExists
  <2>2. PICK g : /\ g = [t \in SUBSET D |-> g[t]]
                 /\ \A t \in SUBSET D :
                        /\ g[t] \in Executed(from)
                        /\ g[t] = IF t = {} THEN s ELSE step[<<seq[Max(t)], g[t \ {Max(t)}]>>]
    BY <2>1 DEF FoldableSeq
  <2> HIDE DEF D
  <2>3. \A t \in SUBSET D : g[t] = At(g, t)
    BY <1>3, <1>4, <2>2
  <2> HIDE DEF At
  <2> QED
    BY <2>2, <2>3
<1>6. \A t \in SUBSET D : iter[t] = At(iter, t)
  <2> HIDE DEF D, At
  <2> DEFINE it == iter
  <2>1. it = [t \in SUBSET D |-> At(it, t)]
    BY <1>5 DEF iter
  <2> HIDE DEF it
  <2>2. \A t \in SUBSET D : it[t] = At(it, t)
    BY <2>1
  <2> QED
    BY <2>2 DEF it
<1>7. iter[{}] \in Executed(from)
  BY <1>6
<1>8. ASSUME NEW t \in SUBSET D, t # {}, iter[t \ {Max(t)}] \in Executed(from)
      PROVE  iter[t] \in Executed(from)
  <2>1. iter[t] = ExecuteTx(seq[Max(t)], iter[t \ {Max(t)}])
    BY <1>6, <1>8
  <2> QED
    BY <1>4, <1>8, <2>1, ExecuteTxLeads
<1>9. iter[D] \in Executed(from)
  BY <1>1, <1>7, <1>8, SeqFoldIn
<1> QED
  BY <1>2, <1>9

LEMMA ExecuteLeads ==
    ASSUME NEW nonces \in Nonces, NEW txs \in Seq(Variant)
    PROVE  Execute(txs, nonces) \in Executed(nonces)
<1> DEFINE s == [nonces |-> nonces, updates |-> <<>>, ok |-> TRUE]
           D == DOMAIN txs
           At(g, t) == IF t = {} THEN s ELSE ExecuteVariant(txs[Max(t)], g[t \ {Max(t)}])
           iter == CHOOSE g : g = [t \in SUBSET D |-> At(g, t)]
           step == [x \in Variant \X Executed(nonces) |-> ExecuteVariant(x[1], x[2])]
<1>1. s \in Executed(nonces)
  BY NoWalk DEF Executed, Leads
<1>2. Execute(txs, nonces) = iter[D]
  BY DEF Execute, FoldLeft, MapThenFoldSet
<1> HIDE DEF s
<1>3. step \in [Variant \X Executed(nonces) -> Executed(nonces)]
      /\ \A v \in Variant, t \in Executed(nonces) : step[<<v, t>>] = ExecuteVariant(v, t)
  BY ExecuteVariantLeads
<1>4. \A t \in SUBSET D : t # {} => Max(t) \in t /\ txs[Max(t)] \in Variant
  BY LastFirst
<1> HIDE DEF step, iter
<1>5. \E g : g = [t \in SUBSET D |-> At(g, t)]
  <2>1. FoldableSeq(s, step, txs, Executed(nonces))
    BY <1>1, <1>3, SeqFoldExists
  <2>2. PICK g : /\ g = [t \in SUBSET D |-> g[t]]
                 /\ \A t \in SUBSET D :
                        /\ g[t] \in Executed(nonces)
                        /\ g[t] = IF t = {} THEN s ELSE step[<<txs[Max(t)], g[t \ {Max(t)}]>>]
    BY <2>1 DEF FoldableSeq
  <2> HIDE DEF D
  <2>3. \A t \in SUBSET D : g[t] = At(g, t)
    BY <1>3, <1>4, <2>2
  <2> HIDE DEF At
  <2> QED
    BY <2>2, <2>3
<1>6. \A t \in SUBSET D : iter[t] = At(iter, t)
  <2> HIDE DEF D, At
  <2> DEFINE it == iter
  <2>1. it = [t \in SUBSET D |-> At(it, t)]
    BY <1>5 DEF iter
  <2> HIDE DEF it
  <2>2. \A t \in SUBSET D : it[t] = At(it, t)
    BY <2>1
  <2> QED
    BY <2>2 DEF it
<1>7. iter[{}] \in Executed(nonces)
  BY <1>1, <1>6
<1>8. ASSUME NEW t \in SUBSET D, t # {}, iter[t \ {Max(t)}] \in Executed(nonces)
      PROVE  iter[t] \in Executed(nonces)
  <2>1. iter[t] = ExecuteVariant(txs[Max(t)], iter[t \ {Max(t)}])
    BY <1>6, <1>8
  <2> QED
    BY <1>4, <1>8, <2>1, ExecuteVariantLeads
<1>9. iter[D] \in Executed(nonces)
  BY <1>7, <1>8, SeqFoldIn
<1> QED
  BY <1>2, <1>9

\* The accounts after the oldest open block, and what the mempool is told of them.
LEMMA CommitExecutes ==
    ASSUME Types, CommitBlock
    PROVE  LET executed == Execute(Head(keeperOpen).txs, dbAccounts.nonces)
           IN  /\ executed.nonces \in Nonces /\ executed.updates \in Seq(AccountUpdate)
               /\ Leads(dbAccounts.nonces, executed.updates, executed.nonces)
               /\ dbAccounts' = [nonces |-> executed.nonces, ids |-> IdsOf(executed.nonces)]
               /\ dbAccounts' \in AccountTree
<1> DEFINE txs == Head(keeperOpen).txs
           executed == Execute(txs, dbAccounts.nonces)
<1>1. txs \in Seq(Variant) /\ dbAccounts.nonces \in Nonces
  <2>1. keeperOpen \in Seq(Block) /\ keeperOpen # <<>> /\ dbAccounts \in AccountTree
    BY DEF CommitBlock, Types, OuterTypes, TableTypes
  <2>2. Head(keeperOpen) \in Block
    BY <2>1, HeadTailProperties
  <2> QED
    BY <2>1, <2>2 DEF AccountTree, Block
<1>2. dbAccounts' = [nonces |-> executed.nonces, ids |-> IdsOf(executed.nonces)]
  BY DEF CommitBlock
<1> HIDE DEF txs
<1>3. executed \in Executed(dbAccounts.nonces)
  BY <1>1, ExecuteLeads
<1> HIDE DEF executed
<1>4. executed.nonces \in Nonces /\ executed.updates \in Seq(AccountUpdate)
      /\ Leads(dbAccounts.nonces, executed.updates, executed.nonces)
  BY <1>3 DEF Executed
<1>5. IdsOf(executed.nonces) \in Ids
  BY <1>4, IdsAreIds
<1> QED
  BY <1>2, <1>4, <1>5 DEF AccountTree, executed, txs

-----------------------------------------------------------------------------
\* The accounts: only updates, a crash and a restart write them.
LEMMA AccountsTyped == Types /\ Next => AccountTypes'
<1> SUFFICES ASSUME Types, Next PROVE AccountTypes'
  OBVIOUS
<1>1. accountNonces \in Nonces /\ accountIds \in Ids /\ updates \in Seq(AccountUpdate)
  BY DEF Types, AccountTypes, BlockTypes
<1>2. CASE UpdateAccount
  <2> DEFINE u == Head(updates)
  <2>1. u \in AccountUpdate /\ (CreateAccount(u) \/ DeleteAccount(u) \/ UpdateBalance(u))
    BY <1>1, <1>2 DEF UpdateAccount
  <2> HIDE DEF u
  <2>2. u.id \in AccountId /\ u.address \in Address /\ u.nonce \in Nat
    BY <2>1 DEF AccountUpdate
  <2>3. CASE CreateAccount(u)
    BY <1>1, <2>2, <2>3 DEF CreateAccount, AccountTypes, Nonces, Ids
  <2>4. CASE DeleteAccount(u)
    BY <1>1, <2>2, <2>4 DEF DeleteAccount, AccountTypes, Nonces, Ids
  <2>5. CASE UpdateBalance(u)
    BY <1>1, <2>2, <2>5 DEF UpdateBalance, AccountTypes, Nonces, Ids
  <2> QED
    BY <2>1, <2>3, <2>4, <2>5
<1>3. CASE Crash
  BY <1>3 DEF Crash, AccountTypes, Nonces, Ids
<1>4. CASE RestoreFromDb
  BY <1>4 DEF RestoreFromDb, AccountTypes, Types, TableTypes, AccountTree
<1>5. CASE UNCHANGED accountVars
  BY <1>1, <1>5 DEF accountVars, AccountTypes
<1>6. UNCHANGED accountVars \/ UpdateAccount \/ Crash \/ RestoreFromDb
  <2>1. ASSUME NEW h \in Handler, TransactionsHandler(h) PROVE UNCHANGED accountVars
    BY <2>1 DEF TransactionsHandler, ReceiveTx, CheckNonce, CheckBatchSize, InsertTx, InsertTxFails,
                AddTx, ReceiveConfirmedOps, ReceiveUnconfirmedOp, ReadMaxSerial, InsertOps, OpsFail, AddOps
  <2>2. BlocksHandler => UNCHANGED accountVars \/ UpdateAccount
    BY DEF BlocksHandler, ReceiveGetBlock, ProposeNewBlock, SendBlock, SendFails,
  ReceiveUpdateNonces, UpdatesDone
  <2>3. StateKeeper => UNCHANGED accountVars
    BY DEF StateKeeper, RequestBlock, Tick, CommitBlock
  <2>4. Process => UNCHANGED accountVars \/ Crash \/ RestoreFromDb
    BY DEF Process, RevertBlock
  <2> QED
    BY <2>1, <2>2, <2>3, <2>4 DEF Next
<1> QED
  BY <1>2, <1>3, <1>4, <1>5, <1>6

\* The handlers of transactions and operations.
LEMMA HandlersTyped == Types /\ Next => HandlerTypes'
<1> SUFFICES ASSUME Types, Next PROVE HandlerTypes'
  OBVIOUS
<1>1. handler \in [Handler -> HandlerState]
      /\ \A h \in Handler : HoldsTx(handler[h]) /\ (handler[h].pc = "idle" => handler[h] = IdleHandler)
  BY DEF Types, HandlerTypes
<1>2. IdleHandler \in HandlerState /\ HoldsTx(IdleHandler)
  BY DEF IdleHandler, HandlerState, HandlerPc, HoldsTx
<1>3. ASSUME NEW h \in Handler, NEW STATE new, new \in HandlerState, HoldsTx(new),
             new.pc = "idle" => new = IdleHandler, handler' = [handler EXCEPT ![h] = new]
      PROVE  HandlerTypes'
  <2>1. \A g \in Handler : handler'[g] = IF g = h THEN new ELSE handler[g]
    BY <1>1, <1>3
  <2>2. handler' \in [Handler -> HandlerState]
    BY <1>1, <1>3
  <2> QED
    BY <1>1, <1>3, <2>1, <2>2 DEF HandlerTypes
<1>4. ASSUME NEW h \in Handler, handler' = [handler EXCEPT ![h] = IdleHandler]
      PROVE  HandlerTypes'
  <2>1. \A g \in Handler : handler'[g] = IF g = h THEN IdleHandler ELSE handler[g]
    BY <1>1, <1>4
  <2>2. handler' \in [Handler -> HandlerState]
    BY <1>1, <1>2, <1>4
  <2> QED
    BY <1>1, <1>2, <2>1, <2>2 DEF HandlerTypes
<1>5. ASSUME NEW h \in Handler, NEW v \in Variant, ReceiveTx(h, v) PROVE HandlerTypes'
  <2> DEFINE new == [handler[h] EXCEPT !.pc = "nonce", !.variant = v]
  <2>1. handler[h] = IdleHandler
    BY <1>1, <1>5 DEF ReceiveTx
  <2>2. 1 \in DOMAIN TxsOf[v]
    <3>1. TxsOf[v] \in Seq(Tx) /\ TxsOf[v] # <<>>
      BY VariantAssumption
    <3> QED
      BY <3>1
  <2>3. new \in HandlerState /\ HoldsTx(new) /\ new.pc # "idle"
    <3>1. new.pc = "nonce" /\ new.variant = v /\ new.index = 1
      BY <2>1 DEF IdleHandler
    <3>2. new \in HandlerState
      BY <1>1 DEF HandlerState, HandlerPc
    <3> HIDE DEF new
    <3> QED
      BY <2>2, <3>1, <3>2 DEF HoldsTx
  <2>4. handler' = [handler EXCEPT ![h] = new]
    BY <1>5 DEF ReceiveTx
  <2> HIDE DEF new
  <2> QED
    BY <1>3, <2>3, <2>4
<1>6. ASSUME NEW h \in Handler, CheckNonce(h) PROVE HandlerTypes'
  <2> DEFINE v == handler[h].variant
             next == [handler[h] EXCEPT !.index = @ + 1]
             checked == [handler[h] EXCEPT !.pc = NextCheck(v)]
  <2>1. \/ handler' = [handler EXCEPT ![h] = IdleHandler]
        \/ handler' = [handler EXCEPT ![h] = next] /\ handler[h].index < Len(TxsOf[v])
        \/ handler' = [handler EXCEPT ![h] = checked]
    BY <1>6 DEF CheckNonce, RefuseTx
  <2>2. handler[h] \in HandlerState /\ handler[h].pc = "nonce" /\ HoldsTx(handler[h])
    BY <1>1, <1>6 DEF CheckNonce
  <2>3. v \in Variant /\ handler[h].index \in DOMAIN TxsOf[v] /\ TxsOf[v] \in Seq(Tx)
    BY <2>2, VariantAssumption DEF HoldsTx
  <2>4. handler[h].index \in Nat /\ handler[h].index \in 1..Len(TxsOf[v]) /\ Len(TxsOf[v]) \in Nat
    BY <2>2, <2>3 DEF HandlerState
  <2>5. CASE handler' = [handler EXCEPT ![h] = next] /\ handler[h].index < Len(TxsOf[v])
    <3>1. handler[h].index + 1 \in DOMAIN TxsOf[v]
      BY <2>3, <2>4, <2>5
    <3>2. next \in HandlerState /\ HoldsTx(next) /\ next.pc = "nonce"
      BY <2>2, <2>3, <3>1 DEF HandlerState, HoldsTx
    <3> HIDE DEF next
    <3> QED
      BY <1>3, <2>5, <3>2
  <2>6. CASE handler' = [handler EXCEPT ![h] = checked]
    <3>1. checked \in HandlerState /\ HoldsTx(checked) /\ checked.pc # "idle"
      BY <2>2, <2>3 DEF HandlerState, HoldsTx, HandlerPc, NextCheck
    <3> HIDE DEF checked
    <3> QED
      BY <1>3, <2>6, <3>1
  <2> QED
    BY <1>4, <2>1, <2>5, <2>6
<1>7. ASSUME NEW h \in Handler, CheckBatchSize(h) \/ InsertTx(h) PROVE HandlerTypes'
  <2>1. PICK pc \in {"insert", "add"} :
            handler' = [handler EXCEPT ![h] = IdleHandler] \/ handler' = [handler EXCEPT ![h].pc = pc]
    BY <1>7 DEF CheckBatchSize, InsertTx, RefuseTx
  <2> DEFINE new == [handler[h] EXCEPT !.pc = pc]
  <2>2. handler[h] \in HandlerState /\ handler[h].pc \in {"size", "insert"} /\ HoldsTx(handler[h])
    BY <1>1, <1>7 DEF CheckBatchSize, InsertTx
  <2>3. new \in HandlerState /\ HoldsTx(new) /\ new.pc # "idle"
    BY <2>1, <2>2 DEF HandlerState, HoldsTx, HandlerPc
  <2>4. handler' = [handler EXCEPT ![h].pc = pc] => handler' = [handler EXCEPT ![h] = new]
    OBVIOUS
  <2> HIDE DEF new
  <2> QED
    BY <1>3, <1>4, <2>1, <2>3, <2>4
<1>8. ASSUME NEW h \in Handler, InsertTxFails(h) \/ OpsFail(h) \/ AddOps(h) \/ AddTx(h)
      PROVE  HandlerTypes'
  BY <1>4, <1>8 DEF InsertTxFails, RefuseTx, OpsFail, AddOps, AddTx
<1>9. ASSUME NEW h \in Handler, ReceiveConfirmedOps(h) \/ ReceiveUnconfirmedOp(h) PROVE HandlerTypes'
  <2>1. PICK ops \in SUBSET SerialId, c \in BOOLEAN :
            handler' = [handler EXCEPT ![h] = [handler[h] EXCEPT !.pc = "readSerial", !.ops = ops,
                                                                 !.confirmed = c]]
    <3>1. CASE ReceiveConfirmedOps(h)
      <4>1. PICK lo \in SerialId, hi \in SerialId :
                handler' = [handler EXCEPT ![h].pc = "readSerial", ![h].ops = lo..hi,
                                           ![h].confirmed = TRUE]
        BY <3>1 DEF ReceiveConfirmedOps
      <4>2. lo..hi \in SUBSET SerialId
        BY SerialAssumption DEF SerialId
      <4> QED
        BY <4>1, <4>2
    <3>2. CASE ReceiveUnconfirmedOp(h)
      <4>1. PICK s \in SerialId :
                handler' = [handler EXCEPT ![h].pc = "readSerial", ![h].ops = {s}]
        BY <3>2 DEF ReceiveUnconfirmedOp
      <4>2. handler[h] \in HandlerState
        BY <1>1
      <4>3. /\ handler[h].confirmed \in BOOLEAN
            /\ [handler[h] EXCEPT !.pc = "readSerial", !.ops = {s}]
                 = [handler[h] EXCEPT !.pc = "readSerial", !.ops = {s}, !.confirmed = handler[h].confirmed]
        BY <4>2 DEF HandlerState
      <4>4. handler' = [handler EXCEPT ![h] = [handler[h] EXCEPT !.pc = "readSerial", !.ops = {s}]]
        BY <4>1
      <4> QED
        BY <4>3, <4>4
    <3> QED
      BY <1>9, <3>1, <3>2
  <2> DEFINE new == [handler[h] EXCEPT !.pc = "readSerial", !.ops = ops, !.confirmed = c]
  <2>2. handler[h] \in HandlerState
    BY <1>1
  <2>3. new \in HandlerState /\ HoldsTx(new) /\ new.pc # "idle"
    BY <2>1, <2>2 DEF HandlerState, HoldsTx, HandlerPc
  <2>4. handler' = [handler EXCEPT ![h] = new]
    BY <2>1
  <2> HIDE DEF new
  <2> QED
    BY <1>3, <2>3, <2>4
<1>10. ASSUME NEW h \in Handler, ReadMaxSerial(h) PROVE HandlerTypes'
  <2> DEFINE kept == {s \in handler[h].ops : s > DbMaxSerial}
             new == [handler[h] EXCEPT !.pc = "insertOps", !.ops = kept]
  <2>1. \/ handler' = [handler EXCEPT ![h] = IdleHandler]
        \/ handler' = [handler EXCEPT ![h] = new]
    BY <1>10 DEF ReadMaxSerial
  <2>2. handler[h] \in HandlerState
    BY <1>1
  <2>3. kept \in SUBSET SerialId
    BY <2>2 DEF HandlerState
  <2> HIDE DEF kept
  <2>4. new \in HandlerState /\ HoldsTx(new) /\ new.pc # "idle"
    BY <2>2, <2>3 DEF HandlerState, HandlerPc, HoldsTx
  <2> HIDE DEF new
  <2> QED
    BY <1>3, <1>4, <2>1, <2>4
<1>11. ASSUME NEW h \in Handler, InsertOps(h) PROVE HandlerTypes'
  <2> DEFINE new == [handler[h] EXCEPT !.pc = "addOps"]
  <2>1. \/ handler' = [handler EXCEPT ![h] = IdleHandler]
        \/ handler' = [handler EXCEPT ![h] = new]
    BY <1>11 DEF InsertOps
  <2>2. handler[h] \in HandlerState
    BY <1>1
  <2>3. new \in HandlerState /\ HoldsTx(new) /\ new.pc # "idle"
    BY <2>2 DEF HandlerState, HandlerPc, HoldsTx
  <2> HIDE DEF new
  <2> QED
    BY <1>3, <1>4, <2>1, <2>3
<1>12. CASE Crash
  <2>1. \A h \in Handler : handler'[h] = IdleHandler
    BY <1>12 DEF Crash
  <2>2. handler' \in [Handler -> HandlerState]
    BY <1>2, <1>12 DEF Crash
  <2> QED
    BY <1>2, <2>1, <2>2 DEF HandlerTypes
<1>13. CASE UNCHANGED handler
  BY <1>1, <1>13 DEF HandlerTypes
<1>14. BlocksHandler \/ StateKeeper \/ (Process /\ ~Crash) => UNCHANGED handler
  BY DEF BlocksHandler, ReceiveGetBlock, ProposeNewBlock, SendBlock, SendFails, ReceiveUpdateNonces,
         UpdateAccount, UpdatesDone, StateKeeper, RequestBlock, Tick, CommitBlock, Process,
         RevertBlock, RestoreFromDb
<1>15. ASSUME NEW h \in Handler, TransactionsHandler(h) PROVE HandlerTypes'
  BY <1>5, <1>6, <1>7, <1>8, <1>9, <1>10, <1>11, <1>15 DEF TransactionsHandler
<1> QED
  BY <1>12, <1>13, <1>14, <1>15 DEF Next

-----------------------------------------------------------------------------
(* The order of the blocks.  A block begins where the one before it ends.  *)
InPlace(b) ==
    b.first \in 0..MaxSerial + 1 /\ \A i \in 1..Len(b.ops) : b.ops[i] = b.first + i - 1
EndOf(b) == b.first + Len(b.ops)
Continue(blocks, from, to) ==
    /\ \A i \in 1..Len(blocks) :
        /\ InPlace(blocks[i])
        /\ blocks[i].first = IF i = 1 THEN from ELSE EndOf(blocks[i - 1])
    /\ to = IF blocks = <<>> THEN from ELSE EndOf(blocks[Len(blocks)])

Busy == {"reverted", "ops", "txs", "send"}

\* The state keeper asks for one block at a time, from where he is.
AskedOnce ==
    /\ \A i \in DOMAIN requests : requests[i].type = "GetBlock" =>
        /\ requests[i].first = keeperNext /\ blocksPc \notin Busy
        /\ \A j \in DOMAIN requests : requests[j].type = "GetBlock" => i = j
    /\ blocksPc \in Busy => request.first = keeperNext /\ proposed.first = keeperNext
    /\ blocksPc \in {"txs", "send"} => InPlace(proposed)

\* A process that has stopped has nothing but its database.
Stopped ==
    ~up => /\ keeperOpen = <<>> /\ requests = <<>> /\ updates = <<>>
           /\ blocksPc = "idle" /\ proposed = NoBlock
           /\ revertedTxs = <<>> /\ readyTxs = <<>> /\ pendingTxs = {}
           /\ \A h \in Handler : handler[h] = IdleHandler

OrderInv ==
    /\ Continue(dbChain, 0, DbMaxSerial + 1)
    /\ up => Continue(keeperOpen, DbMaxSerial + 1, keeperNext)
    /\ keeperNext \in 0..MaxSerial + 1
    /\ AskedOnce /\ Stopped

\* No block ends behind the last operation.
LEMMA EndInRange ==
    ASSUME NEW b, InPlace(b), b.ops \in Seq(SerialId)
    PROVE  EndOf(b) \in 0..MaxSerial + 1 /\ Len(b.ops) \in Nat
<1>1. Len(b.ops) \in Nat /\ b.first \in 0..MaxSerial + 1 /\ MaxSerial \in Int
  BY SerialAssumption DEF InPlace
<1>2. CASE Len(b.ops) = 0
  BY <1>1, <1>2 DEF EndOf
<1>3. CASE Len(b.ops) # 0
  <2> DEFINE n == Len(b.ops)
  <2>1. n \in 1..n /\ n \in Nat
    BY <1>1, <1>3
  <2>2. b.ops[n] = b.first + n - 1
    BY <2>1 DEF InPlace
  <2>3. b.ops[n] \in 0..MaxSerial
    <3>1. b.ops[n] \in SerialId
      BY <2>1, ElementOfSeq
    <3> QED
      BY <3>1 DEF SerialId
  <2> HIDE DEF n
  <2>4. b.first + n - 1 \in 0..MaxSerial
    BY <2>2, <2>3
  <2>5. b.first + n \in 0..MaxSerial + 1
    BY <1>1, <2>1, <2>4
  <2> QED
    BY <1>1, <2>5 DEF EndOf, n
<1> QED
  BY <1>2, <1>3

LEMMA DbMaxSerialTyped ==
    ASSUME TableTypes, Continue(dbChain, 0, DbMaxSerial + 1)
    PROVE  DbMaxSerial \in SerialId \cup {-1} /\ DbMaxSerial + 1 \in 0..MaxSerial + 1
<1>1. dbChain \in Seq(ChainBlock) /\ MaxSerial \in Int /\ MaxSerial >= -1
  BY SerialAssumption DEF TableTypes
<1>2. CASE dbChain = <<>>
  BY <1>1, <1>2 DEF DbMaxSerial
<1>3. CASE dbChain # <<>>
  <2> DEFINE n == Len(dbChain)
             b == dbChain[n]
  <2>1. n \in 1..n /\ b \in ChainBlock
    BY <1>1, <1>3
  <2>2. InPlace(b) /\ b.ops \in Seq(SerialId)
    BY <2>1 DEF Continue, ChainBlock
  <2>3. DbMaxSerial = EndOf(b) - 1
    <3>1. Last(dbChain) = b /\ b.first \in Nat /\ b.ops \in Seq(SerialId)
      BY <2>1 DEF Last, ChainBlock
    <3> HIDE DEF b
    <3> QED
      BY <1>3, <3>1 DEF DbMaxSerial, EndOf
  <2> HIDE DEF n, b
  <2>4. EndOf(b) \in 0..MaxSerial + 1
    BY <2>2, EndInRange
  <2> QED
    BY <1>1, <2>3, <2>4 DEF SerialId
<1> QED
  BY <1>2, <1>3

-----------------------------------------------------------------------------
(* What a selection takes: operations of the queue, in place.              *)
LEMMA FoundIn ==
    ASSUME priorityOps \in Seq(SerialId), NEW k \in 0..Len(priorityOps), NEW from \in Int,
           NEW n \in Nat, NEW ops \in FoundOps(priorityOps, k, from, n)
    PROVE  ops \in Seq(SerialId) /\ Len(ops) = n /\ \A i \in 1..n : ops[i] = from + i - 1
<1> DEFINE I == {i \in 1..k : priorityOps[i] \in from..from + n - 1}
<1>1. Len(priorityOps) \in Nat /\ DOMAIN priorityOps = 1..Len(priorityOps)
  BY ElementsIn
<1>2. I \subseteq DOMAIN priorityOps
  BY <1>1
<1>3. /\ ops \in Selections(priorityOps, I) /\ Len(ops) = n
      /\ \A i \in 1..n : ops[i] = from + i - 1
  BY DEF FoundOps
<1> HIDE DEF I
<1> QED
  BY <1>2, <1>3, SelectionIn

LEMMA SelectedOpsIn ==
    ASSUME priorityOps \in Seq(SerialId), NEW k \in 0..Len(priorityOps), NEW from \in Int,
           NEW ops \in SelectedOps(priorityOps, k, from)
    PROVE  ops \in Seq(SerialId) /\ \A i \in 1..Len(ops) : ops[i] = from + i - 1
<1> DEFINE I == {i \in 1..k : priorityOps[i] >= from}
<1>1. Len(priorityOps) \in Nat /\ DOMAIN priorityOps = 1..Len(priorityOps)
  BY ElementsIn
<1>2. I \subseteq DOMAIN priorityOps
  BY <1>1
<1>3. ops \in Selections(priorityOps, I) /\ InOrder(ops, from)
  BY DEF SelectedOps
<1> HIDE DEF I
<1>4. ops \in Seq(SerialId)
  BY <1>2, <1>3, SelectionIn
<1> QED
  BY <1>3, <1>4 DEF InOrder

\* What the three selections do to the queues and the block.
Selection ==
    /\ proposed' \in Block /\ proposed'.first = proposed.first /\ blocksPc' \in BlocksPc
    /\ revertedTxs' \in Seq(RevertedTx) /\ readyTxs' \in Seq(Variant)
    /\ pendingTxs' \subseteq pendingTxs
    /\ lastProcessed' \in SerialId \cup {-1} /\ priorityOps' \in Seq(SerialId)
    /\ blocksPc' \in {"txs", "send"} =>
        \/ blocksPc = "txs" /\ proposed'.ops = proposed.ops
        \/ \A i \in 1..Len(proposed'.ops) : proposed'.ops[i] = request.first + i - 1

QueueNow == QueueTypes /\ proposed \in Block /\ request \in GetBlockRequest

LEMMA BlockWith ==
    ASSUME proposed \in Block, NEW ops \in Seq(SerialId), NEW txs \in Seq(Variant)
    PROVE  /\ [proposed EXCEPT !.ops = ops, !.txs = txs] \in Block
           /\ [proposed EXCEPT !.ops = ops, !.txs = txs].first = proposed.first
           /\ [proposed EXCEPT !.ops = ops, !.txs = txs].ops = ops
           /\ [proposed EXCEPT !.ops = ops] \in Block
           /\ [proposed EXCEPT !.ops = ops].first = proposed.first
           /\ [proposed EXCEPT !.ops = ops].ops = ops
           /\ [proposed EXCEPT !.txs = txs] \in Block
           /\ [proposed EXCEPT !.txs = txs].first = proposed.first
           /\ [proposed EXCEPT !.txs = txs].ops = proposed.ops
BY DEF Block

LEMMA SelectRevertedSelects == QueueNow /\ SelectReverted => Selection
<1> SUFFICES ASSUME QueueNow, SelectReverted PROVE Selection
  OBVIOUS
<1>1. PICK k \in 0..Len(priorityOps), r \in 0..Len(revertedTxs) :
        \E ops \in FoundOps(priorityOps, k, request.first, MissingOps) :
            /\ priorityOps' = Drop(priorityOps, k)
            /\ lastProcessed' = IF k = 0 THEN lastProcessed ELSE priorityOps[k]
            /\ revertedTxs' = Drop(revertedTxs, r)
            /\ proposed' = [proposed EXCEPT !.ops = ops, !.txs = [i \in 1..r |-> revertedTxs[i].tx]]
            /\ blocksPc' = IF ops = <<>> /\ r = 0 THEN "ops" ELSE "send"
  BY DEF SelectReverted
<1>2. PICK ops \in FoundOps(priorityOps, k, request.first, MissingOps) :
        /\ priorityOps' = Drop(priorityOps, k)
        /\ lastProcessed' = IF k = 0 THEN lastProcessed ELSE priorityOps[k]
        /\ revertedTxs' = Drop(revertedTxs, r)
        /\ proposed' = [proposed EXCEPT !.ops = ops, !.txs = [i \in 1..r |-> revertedTxs[i].tx]]
        /\ blocksPc' = IF ops = <<>> /\ r = 0 THEN "ops" ELSE "send"
  BY <1>1
<1>3. /\ revertedTxs \in Seq(RevertedTx) /\ readyTxs \in Seq(Variant)
      /\ lastProcessed \in SerialId \cup {-1} /\ priorityOps \in Seq(SerialId)
      /\ request.first \in Nat /\ proposed \in Block
      /\ UNCHANGED <<readyTxs, pendingTxs>> /\ revertedTxs # <<>>
  BY DEF QueueNow, QueueTypes, GetBlockRequest, SelectReverted, txVars
<1>4. MissingOps \in Nat
  <2>1. Head(revertedTxs) \in RevertedTx
    BY <1>3, HeadTailProperties
  <2>2. Head(revertedTxs).next \in Nat
    BY <2>1 DEF RevertedTx
  <2> QED
    BY <1>3, <2>2 DEF MissingOps, Largest
<1>5. /\ ops \in Seq(SerialId) /\ Len(ops) = MissingOps
      /\ \A i \in 1..Len(ops) : ops[i] = request.first + i - 1
  <2> DEFINE from == request.first
             n == MissingOps
  <2>1. from \in Int /\ n \in Nat
    BY <1>3, <1>4
  <2> HIDE DEF from, n
  <2>2. ops \in FoundOps(priorityOps, k, from, n)
    BY DEF from, n
  <2>3. ops \in Seq(SerialId) /\ Len(ops) = n /\ \A i \in 1..n : ops[i] = from + i - 1
    BY <1>3, <2>1, <2>2, FoundIn
  <2> QED
    BY <2>3 DEF from, n
<1> DEFINE txs == [i \in 1..r |-> revertedTxs[i].tx]
<1>6. txs \in Seq(Variant)
  <2>1. r \in Nat /\ \A i \in 1..r : i \in 1..Len(revertedTxs)
    BY <1>3
  <2>2. \A i \in 1..r : revertedTxs[i] \in RevertedTx
    BY <1>3, <2>1, ElementOfSeq
  <2>3. \A i \in 1..r : revertedTxs[i].tx \in Variant
    BY <2>2 DEF RevertedTx
  <2> QED
    BY <2>1, <2>3
<1> HIDE DEF txs
<1>7. proposed' = [proposed EXCEPT !.ops = ops, !.txs = txs]
  BY <1>2 DEF txs
<1>8. proposed' \in Block /\ proposed'.first = proposed.first /\ proposed'.ops = ops
  BY <1>3, <1>5, <1>6, <1>7, BlockWith
<1>9. Drop(priorityOps, k) \in Seq(SerialId) /\ Drop(revertedTxs, r) \in Seq(RevertedTx)
  BY <1>3, PartsIn
<1>10. lastProcessed' \in SerialId \cup {-1}
  <2>1. ASSUME k # 0 PROVE priorityOps[k] \in SerialId
    <3>1. k \in 1..Len(priorityOps)
      BY <1>3, <2>1
    <3> QED
      BY <1>3, <3>1, ElementOfSeq
  <2> QED
    BY <1>2, <1>3, <2>1
<1> QED
  BY <1>2, <1>3, <1>5, <1>8, <1>9, <1>10 DEF Selection, BlocksPc

LEMMA DoesNotFitSelects == QueueNow /\ RevertedOpDoesNotFit => Selection
<1> SUFFICES ASSUME QueueNow, RevertedOpDoesNotFit PROVE Selection
  OBVIOUS
<1>1. PICK n \in 0..MissingOps - 1, k \in 1..Len(priorityOps) :
        \E found \in FoundOps(priorityOps, k, request.first, n + 1) :
            /\ priorityOps' = Drop(priorityOps, k)
            /\ lastProcessed' = priorityOps[k]
            /\ proposed' = [proposed EXCEPT !.ops = Take(found, n)]
            /\ blocksPc' = IF n = 0 THEN "ops" ELSE "send"
  BY DEF RevertedOpDoesNotFit
<1>2. PICK found \in FoundOps(priorityOps, k, request.first, n + 1) :
            /\ priorityOps' = Drop(priorityOps, k)
            /\ lastProcessed' = priorityOps[k]
            /\ proposed' = [proposed EXCEPT !.ops = Take(found, n)]
            /\ blocksPc' = IF n = 0 THEN "ops" ELSE "send"
  BY <1>1
<1>3. /\ revertedTxs \in Seq(RevertedTx) /\ readyTxs \in Seq(Variant)
      /\ priorityOps \in Seq(SerialId) /\ Len(priorityOps) \in Nat
      /\ request.first \in Nat /\ proposed \in Block
      /\ UNCHANGED <<readyTxs, pendingTxs, revertedTxs>>
  BY DEF QueueNow, QueueTypes, GetBlockRequest, RevertedOpDoesNotFit, txVars
<1>4. n \in Nat /\ n + 1 \in Nat /\ k \in 0..Len(priorityOps) /\ k \in 1..Len(priorityOps)
  BY <1>3
<1>5. /\ found \in Seq(SerialId) /\ Len(found) = n + 1
      /\ \A i \in 1..n + 1 : found[i] = request.first + i - 1
  <2> DEFINE from == request.first
             m == n + 1
  <2>1. from \in Int /\ m \in Nat
    BY <1>3, <1>4
  <2> HIDE DEF from, m
  <2>2. found \in FoundOps(priorityOps, k, from, m)
    BY DEF from, m
  <2>3. found \in Seq(SerialId) /\ Len(found) = m /\ \A i \in 1..m : found[i] = from + i - 1
    BY <1>3, <1>4, <2>1, <2>2, FoundIn
  <2> QED
    BY <2>3 DEF from, m
<1> DEFINE ops == Take(found, n)
<1>6. /\ ops \in Seq(SerialId) /\ Len(ops) = n
      /\ \A i \in 1..Len(ops) : ops[i] = request.first + i - 1
  <2>1. n \in 0..Len(found) /\ IsSeq(found)
    BY <1>4, <1>5, ElementsIn
  <2>2. ops \in Seq(SerialId)
    BY <1>5, <2>1, PartsIn
  <2>3. Len(ops) = n /\ \A i \in 1..n : ops[i] = found[i]
    BY <2>1, CutInTwo
  <2>4. \A i \in 1..n : i \in 1..n + 1
    BY <1>4
  <2> HIDE DEF ops
  <2> QED
    BY <1>5, <2>2, <2>3, <2>4
<1> HIDE DEF ops
<1>7. proposed' \in Block /\ proposed'.first = proposed.first /\ proposed'.ops = ops
  <2>1. <<>> \in Seq(Variant)
    OBVIOUS
  <2>2. proposed' = [proposed EXCEPT !.ops = ops]
    BY <1>2 DEF ops
  <2> QED
    BY <1>3, <1>6, <2>1, <2>2, BlockWith
<1>8. Drop(priorityOps, k) \in Seq(SerialId) /\ priorityOps[k] \in SerialId
  BY <1>3, <1>4, PartsIn, ElementOfSeq
<1> QED
  BY <1>2, <1>3, <1>6, <1>7, <1>8 DEF Selection, BlocksPc

LEMMA IsMissingSelects == QueueNow /\ RevertedOpIsMissing => Selection
<1> SUFFICES ASSUME QueueNow, RevertedOpIsMissing PROVE Selection
  OBVIOUS
<1>1. /\ revertedTxs \in Seq(RevertedTx) /\ readyTxs \in Seq(Variant)
      /\ priorityOps \in Seq(SerialId) /\ lastProcessed \in SerialId \cup {-1}
      /\ UNCHANGED <<readyTxs, pendingTxs, revertedTxs, proposed>> /\ proposed \in Block
      /\ blocksPc' = "missingOp" /\ priorityOps' = <<>>
      /\ lastProcessed' = IF priorityOps = <<>> THEN lastProcessed ELSE Last(priorityOps)
  BY DEF QueueNow, QueueTypes, RevertedOpIsMissing, txVars
<1>2. ASSUME priorityOps # <<>> PROVE Last(priorityOps) \in SerialId
  <2>1. Len(priorityOps) \in 1..Len(priorityOps)
    BY <1>1, <1>2
  <2> QED
    BY <1>1, <2>1, ElementOfSeq DEF Last
<1>3. <<>> \in Seq(SerialId)
  OBVIOUS
<1> QED
  BY <1>1, <1>2, <1>3 DEF Selection, BlocksPc

LEMMA PriorityOpsSelects == QueueNow /\ SelectPriorityOps => Selection
<1> SUFFICES ASSUME QueueNow, SelectPriorityOps PROVE Selection
  OBVIOUS
<1>1. PICK k \in 0..Len(priorityOps) : \E ops \in SelectedOps(priorityOps, k, request.first) :
        LET next == priorityOps[k + 1] IN
        /\ proposed' = [proposed EXCEPT !.ops = ops]
        /\ \/ /\ k = Len(priorityOps)
              /\ lastProcessed' = IF k = 0 THEN lastProcessed ELSE priorityOps[k]
              /\ priorityOps' = <<>>
              /\ blocksPc' = "txs"
           \/ /\ k < Len(priorityOps)
              /\ lastProcessed' = next
              /\ priorityOps' = Drop(priorityOps, k)
              /\ blocksPc' = "txs"
           \/ /\ k < Len(priorityOps)
              /\ lastProcessed' = next
              /\ priorityOps' = Drop(priorityOps, k + 1)
              /\ blocksPc' = "wrongOrder"
  BY DEF SelectPriorityOps
<1>2. PICK ops \in SelectedOps(priorityOps, k, request.first) :
        /\ proposed' = [proposed EXCEPT !.ops = ops]
        /\ \/ /\ lastProcessed' = IF k = 0 THEN lastProcessed ELSE priorityOps[k]
              /\ priorityOps' = <<>>
              /\ blocksPc' = "txs"
           \/ /\ k < Len(priorityOps)
              /\ lastProcessed' = priorityOps[k + 1]
              /\ priorityOps' = Drop(priorityOps, k)
              /\ blocksPc' = "txs"
           \/ /\ k < Len(priorityOps)
              /\ lastProcessed' = priorityOps[k + 1]
              /\ priorityOps' = Drop(priorityOps, k + 1)
              /\ blocksPc' = "wrongOrder"
  BY <1>1
<1>3. /\ revertedTxs \in Seq(RevertedTx) /\ readyTxs \in Seq(Variant)
      /\ priorityOps \in Seq(SerialId) /\ lastProcessed \in SerialId \cup {-1}
      /\ request.first \in Nat /\ proposed \in Block /\ Len(priorityOps) \in Nat
      /\ UNCHANGED <<readyTxs, pendingTxs, revertedTxs>>
  BY DEF QueueNow, QueueTypes, GetBlockRequest, SelectPriorityOps, txVars
<1>4. ops \in Seq(SerialId) /\ \A i \in 1..Len(ops) : ops[i] = request.first + i - 1
  <2> DEFINE from == request.first
  <2>1. from \in Int
    BY <1>3
  <2> HIDE DEF from
  <2>2. ops \in SelectedOps(priorityOps, k, from)
    BY DEF from
  <2>3. ops \in Seq(SerialId) /\ \A i \in 1..Len(ops) : ops[i] = from + i - 1
    BY <1>3, <2>1, <2>2, SelectedOpsIn
  <2> QED
    BY <2>3 DEF from
<1>5. proposed' \in Block /\ proposed'.first = proposed.first /\ proposed'.ops = ops
  <2>1. <<>> \in Seq(Variant) /\ proposed' = [proposed EXCEPT !.ops = ops]
    BY <1>2
  <2> QED
    BY <1>3, <1>4, <2>1, BlockWith
<1>6. \A i \in 1..Len(priorityOps) : priorityOps[i] \in SerialId
  BY <1>3, ElementOfSeq
<1>7. lastProcessed' \in SerialId \cup {-1}
  <2>1. k # 0 => k \in 1..Len(priorityOps)
    BY <1>3
  <2>2. k < Len(priorityOps) => k + 1 \in 1..Len(priorityOps)
    BY <1>3
  <2> QED
    BY <1>2, <1>3, <1>6, <2>1, <2>2
<1>8. priorityOps' \in Seq(SerialId)
  <2>1. k < Len(priorityOps) => k + 1 \in 0..Len(priorityOps)
    BY <1>3
  <2>2. \A j \in 0..Len(priorityOps) : Drop(priorityOps, j) \in Seq(SerialId)
    BY <1>3, PartsIn
  <2>3. <<>> \in Seq(SerialId)
    OBVIOUS
  <2> QED
    BY <1>2, <2>1, <2>2, <2>3
<1> QED
  BY <1>2, <1>3, <1>4, <1>5, <1>7, <1>8 DEF Selection, BlocksPc

LEMMA PrepareTxSelects == QueueNow /\ PrepareTxForBlock => Selection
<1> SUFFICES ASSUME QueueNow, PrepareTxForBlock PROVE Selection
  OBVIOUS
<1> DEFINE ripe == Ripe(pendingTxs, request.timestamp)
<1>1. PICK sorted \in ReadyOrders(ripe) : \E k \in 0..Len(readyTxs \o sorted) :
        /\ readyTxs' = Drop(readyTxs \o sorted, k)
        /\ proposed' = [proposed EXCEPT !.txs = Take(readyTxs \o sorted, k)]
  BY DEF PrepareTxForBlock
<1> DEFINE ready == readyTxs \o sorted
<1>2. PICK k \in 0..Len(ready) : /\ readyTxs' = Drop(ready, k)
                                 /\ proposed' = [proposed EXCEPT !.txs = Take(ready, k)]
  BY <1>1
<1>3. /\ pendingTxs' = pendingTxs \ ripe /\ blocksPc' = "send" /\ blocksPc = "txs"
      /\ UNCHANGED <<revertedTxs, lastProcessed, priorityOps>>
      /\ revertedTxs \in Seq(RevertedTx) /\ readyTxs \in Seq(Variant)
      /\ priorityOps \in Seq(SerialId) /\ lastProcessed \in SerialId \cup {-1}
      /\ proposed \in Block /\ pendingTxs \subseteq Variant /\ IsFiniteSet(pendingTxs)
  BY DEF QueueNow, QueueTypes, PrepareTxForBlock, opVars
<1>4. ripe \subseteq pendingTxs /\ IsFiniteSet(ripe)
  <2>1. ripe \subseteq pendingTxs
    BY DEF Ripe
  <2> HIDE DEF ripe
  <2> QED
    BY <1>3, <2>1, FS_Subset
<1>5. sorted \in [1..Cardinality(ripe) -> ripe] /\ ToSet(sorted) = ripe
  BY <1>1 DEF ReadyOrders, Enumerations
<1> HIDE DEF ripe
<1>6. sorted \in Seq(Variant)
  <2>1. IsSeq(sorted)
    BY <1>4, <1>5, Listed
  <2> QED
    BY <1>3, <1>4, <1>5, <2>1, SeqIn
<1>7. ready \in Seq(Variant)
  BY <1>3, <1>6
<1> HIDE DEF ready
<1>8. Take(ready, k) \in Seq(Variant) /\ Drop(ready, k) \in Seq(Variant)
  BY <1>7, PartsIn
<1>9. proposed' \in Block /\ proposed'.first = proposed.first /\ proposed'.ops = proposed.ops
  <2>1. <<>> \in Seq(SerialId)
    OBVIOUS
  <2> QED
    BY <1>2, <1>3, <1>8, <2>1, BlockWith
<1> QED
  BY <1>2, <1>3, <1>8, <1>9 DEF Selection, BlocksPc

LEMMA ProposalSelects == Types /\ ProposeNewBlock => Selection
<1> SUFFICES ASSUME Types, ProposeNewBlock PROVE Selection
  OBVIOUS
<1>1. QueueNow
  BY DEF Types, BlockTypes, QueueNow
<1>2. CASE NothingReverted
  <2>1. UNCHANGED <<revertedTxs, readyTxs, pendingTxs, lastProcessed, priorityOps, proposed>>
        /\ blocksPc' = "ops"
    BY <1>2 DEF NothingReverted, queueVars, txVars, opVars
  <2> QED
    BY <1>1, <2>1 DEF QueueNow, QueueTypes, Selection, BlocksPc
<1> QED
  BY <1>1, <1>2, SelectRevertedSelects, DoesNotFitSelects, IsMissingSelects, PriorityOpsSelects,
     PrepareTxSelects DEF ProposeNewBlock

\* The queues: written by the last step of a handler, by a selection, by a
\* crash and by a restart.
LEMMA QueuesTyped == Types /\ OrderInv /\ Next => QueueTypes'
<1> SUFFICES ASSUME Types, OrderInv, Next PROVE QueueTypes'
  OBVIOUS
<1>1. /\ revertedTxs \in Seq(RevertedTx) /\ readyTxs \in Seq(Variant)
      /\ pendingTxs \in SUBSET Variant /\ IsFiniteSet(pendingTxs)
      /\ lastProcessed \in SerialId \cup {-1} /\ priorityOps \in Seq(SerialId)
  BY DEF Types, QueueTypes
<1>2. CASE UNCHANGED queueVars
  BY <1>1, <1>2 DEF QueueTypes, queueVars, txVars, opVars
<1>3. ASSUME NEW h \in Handler, AddTx(h) PROVE QueueTypes'
  <2>1. handler[h].variant \in Variant
    BY <1>3 DEF AddTx, Types, HandlerTypes, HoldsTx
  <2>2. pendingTxs' = pendingTxs \cup {handler[h].variant}
        /\ UNCHANGED <<revertedTxs, readyTxs, lastProcessed, priorityOps>>
    BY <1>3 DEF AddTx, opVars
  <2>3. IsFiniteSet(pendingTxs')
    BY <1>1, <2>2, FS_AddElement
  <2> QED
    BY <1>1, <2>1, <2>2, <2>3 DEF QueueTypes
<1>4. ASSUME NEW h \in Handler, AddOps(h) PROVE QueueTypes'
  <2> DEFINE new == FreshOps(handler[h].ops, priorityOps, lastProcessed)
  <2>1. PICK fresh \in BySerial(new) : priorityOps' = priorityOps \o fresh
    BY <1>4 DEF AddOps
  <2>2. new \subseteq SerialId
    BY DEF Types, HandlerTypes, HandlerState, FreshOps
  <2> HIDE DEF new
  <2>3. fresh \in Seq(SerialId)
    BY <2>1, <2>2, SortedIn
  <2>4. UNCHANGED <<revertedTxs, readyTxs, pendingTxs, lastProcessed>>
    BY <1>4 DEF AddOps, txVars
  <2> QED
    BY <1>1, <2>1, <2>3, <2>4 DEF QueueTypes
<1>5. CASE ProposeNewBlock
  <2>1. Selection
    BY <1>5, ProposalSelects
  <2>2. IsFiniteSet(pendingTxs')
    BY <1>1, <2>1, FS_Subset DEF Selection
  <2> QED
    BY <1>1, <2>1, <2>2 DEF Selection, QueueTypes
<1>6. CASE Crash
  <2>1. \A V : <<>> \in Seq(V)
    OBVIOUS
  <2> QED
    BY <1>6, <2>1, FS_EmptySet DEF Crash, QueueTypes
<1>7. CASE RestoreFromDb
  <2> DEFINE waiting == {i \in DOMAIN dbReverted : dbReverted[i].tx \notin Garbage}
             new == FreshOps(DbConfirmed, <<>>, DbMaxSerial)
  <2>1. /\ dbTxs' = dbTxs \ Garbage /\ dbReverted' \in Selections(dbReverted, waiting)
        /\ revertedTxs' = dbReverted' /\ readyTxs' = <<>> /\ pendingTxs' = dbTxs'
        /\ lastProcessed' = DbMaxSerial /\ priorityOps' \in BySerial(new)
    BY <1>7 DEF RestoreFromDb
  <2>2. dbReverted \in Seq(RevertedTx) /\ dbTxs \in SUBSET Variant /\ IsFiniteSet(dbTxs)
    BY DEF Types, TableTypes
  <2>3. dbReverted' \in Seq(RevertedTx)
    <3>1. waiting \subseteq DOMAIN dbReverted
      OBVIOUS
    <3> HIDE DEF waiting
    <3> QED
      BY <2>1, <2>2, <3>1, SelectionIn
  <2>4. new \subseteq SerialId
    BY DEF FreshOps, DbConfirmed
  <2> HIDE DEF new, waiting
  <2>5. priorityOps' \in Seq(SerialId)
    BY <2>1, <2>4, SortedIn
  <2>6. DbMaxSerial \in SerialId \cup {-1}
    BY DbMaxSerialTyped DEF Types, OrderInv
  <2>7. dbTxs' \in SUBSET Variant /\ IsFiniteSet(dbTxs')
    BY <2>1, <2>2, FS_Subset
  <2>8. <<>> \in Seq(Variant)
    OBVIOUS
  <2> QED
    BY <2>1, <2>3, <2>5, <2>6, <2>7, <2>8 DEF QueueTypes
<1>8. ASSUME NEW h \in Handler, TransactionsHandler(h)
      PROVE  UNCHANGED queueVars \/ AddTx(h) \/ AddOps(h)
  BY <1>8 DEF TransactionsHandler, ReceiveTx, CheckNonce, CheckBatchSize, InsertTx, InsertTxFails,
              ReceiveConfirmedOps, ReceiveUnconfirmedOp, ReadMaxSerial, InsertOps, OpsFail
<1>9. BlocksHandler => UNCHANGED queueVars \/ ProposeNewBlock
  BY DEF BlocksHandler, ReceiveGetBlock, SendBlock, SendFails,
         ReceiveUpdateNonces, UpdateAccount, UpdatesDone
<1>10. StateKeeper => UNCHANGED queueVars
  BY DEF StateKeeper, RequestBlock, Tick, CommitBlock
<1>11. Process => UNCHANGED queueVars \/ Crash \/ RestoreFromDb
  BY DEF Process, RevertBlock
<1> QED
  BY <1>2, <1>3, <1>4, <1>5, <1>6, <1>7, <1>8, <1>9, <1>10, <1>11 DEF Next

\* The blocks handler and its requests.
LEMMA BlocksTyped == Types /\ Next => BlockTypes'
<1> SUFFICES ASSUME Types, Next PROVE BlockTypes'
  OBVIOUS
<1> DEFINE Request == GetBlockRequest \cup UpdateNoncesRequest
<1>1. /\ blocksPc \in BlocksPc /\ request \in GetBlockRequest /\ proposed \in Block
      /\ updates \in Seq(AccountUpdate) /\ requests \in Seq(Request) /\ keeperNext \in Nat
      /\ clock \in Nat
  BY DEF Types, BlockTypes, OuterTypes
<1>2. NoBlock \in Block /\ NoBlock.first = 0 /\ NoRequest \in GetBlockRequest
  <2>1. \A V : <<>> \in Seq(V)
    OBVIOUS
  <2> QED
    BY <2>1 DEF NoBlock, Block, NoRequest, GetBlockRequest
<1>3. ASSUME requests # <<>>
      PROVE  /\ Head(requests) \in Request /\ Tail(requests) \in Seq(Request)
  <2> HIDE DEF Request
  <2> QED
    BY <1>1, <1>3, HeadTailProperties
<1>4. CASE UNCHANGED <<blocksVars, requests>>
  BY <1>1, <1>4 DEF blocksVars, BlockTypes
<1>5. CASE ReceiveGetBlock
  <2>1. /\ requests # <<>> /\ Head(requests).type = "GetBlock" /\ blocksPc' = "reverted"
        /\ request' = Head(requests) /\ requests' = Tail(requests)
        /\ proposed' = [NoBlock EXCEPT !.first = request'.first] /\ UNCHANGED updates
    BY <1>5 DEF ReceiveGetBlock
  <2>2. request' \in GetBlockRequest
    BY <1>3, <2>1 DEF UpdateNoncesRequest
  <2>3. proposed' \in Block
    BY <1>2, <2>1, <2>2 DEF Block, GetBlockRequest
  <2> QED
    BY <1>1, <1>3, <2>1, <2>2, <2>3 DEF BlockTypes, BlocksPc
<1>6. CASE ProposeNewBlock
  <2>1. Selection
    BY <1>6, ProposalSelects
  <2>2. UNCHANGED <<request, updates, requests>>
    BY <1>6 DEF ProposeNewBlock
  <2> QED
    BY <1>1, <2>1, <2>2 DEF BlockTypes, Selection
<1>7. CASE SendBlock
  <2>1. blocksPc' = "idle" /\ request' = NoRequest /\ proposed' = NoBlock
        /\ UNCHANGED <<updates, requests>>
    BY <1>7 DEF SendBlock
  <2> QED
    BY <1>1, <1>2, <2>1 DEF BlockTypes, BlocksPc
<1>8. CASE ReceiveUpdateNonces
  <2>1. /\ requests # <<>> /\ Head(requests).type = "UpdateNonces" /\ blocksPc' = "updating"
        /\ updates' = Head(requests).updates /\ requests' = Tail(requests)
        /\ UNCHANGED <<request, proposed>>
    BY <1>8 DEF ReceiveUpdateNonces
  <2>2. updates' \in Seq(AccountUpdate)
    <3>1. Head(requests) \in UpdateNoncesRequest
      BY <1>3, <2>1 DEF GetBlockRequest
    <3> QED
      BY <2>1, <3>1 DEF UpdateNoncesRequest
  <2> QED
    BY <1>1, <1>3, <2>1, <2>2 DEF BlockTypes, BlocksPc
<1>9. CASE UpdateAccount
  <2>1. updates # <<>> /\ updates' = Tail(updates) /\ UNCHANGED <<blocksPc, request, proposed, requests>>
    BY <1>9 DEF UpdateAccount
  <2>2. updates' \in Seq(AccountUpdate)
    BY <1>1, <2>1, HeadTailProperties
  <2> QED
    BY <1>1, <2>1, <2>2 DEF BlockTypes
<1>10. CASE UpdatesDone
  <2>1. blocksPc' = "idle" /\ UNCHANGED <<request, proposed, requests, updates>>
    BY <1>10 DEF UpdatesDone
  <2> QED
    BY <1>1, <2>1 DEF BlockTypes, BlocksPc
<1>11. ASSUME NEW r, r \in Request, requests' = Append(requests, r), UNCHANGED blocksVars
       PROVE  BlockTypes'
  BY <1>1, <1>11 DEF BlockTypes, blocksVars
<1>12. CASE RequestBlock
  <2> DEFINE r == [type |-> "GetBlock", first |-> keeperNext, timestamp |-> clock]
  <2>1. r \in Request
    BY <1>1 DEF GetBlockRequest
  <2>2. requests' = Append(requests, r) /\ UNCHANGED blocksVars
    BY <1>12 DEF RequestBlock
  <2> HIDE DEF r, Request
  <2> QED
    BY <1>11, <2>1, <2>2
<1>13. CASE CommitBlock
  <2> DEFINE block == Head(keeperOpen)
             executed == Execute(block.txs, dbAccounts.nonces)
             u == executed.updates
             r == [type |-> "UpdateNonces", updates |-> u]
  <2>1. u \in Seq(AccountUpdate) /\ UNCHANGED blocksVars
        /\ (requests' = requests \/ requests' = Append(requests, r))
    BY <1>13, CommitExecutes DEF CommitBlock
  <2> HIDE DEF u
  <2>2. r \in Request
    BY <2>1 DEF UpdateNoncesRequest
  <2> HIDE DEF r, Request
  <2> QED
    BY <1>4, <1>11, <2>1, <2>2
<1>14. CASE Crash
  <2>1. \A V : <<>> \in Seq(V)
    OBVIOUS
  <2> QED
    BY <1>2, <1>14, <2>1 DEF Crash, BlockTypes, BlocksPc
<1>15. ASSUME NEW h \in Handler, TransactionsHandler(h) PROVE UNCHANGED <<blocksVars, requests>>
  BY <1>15 DEF TransactionsHandler, ReceiveTx, CheckNonce, CheckBatchSize, InsertTx, InsertTxFails,
               AddTx, ReceiveConfirmedOps, ReceiveUnconfirmedOp, ReadMaxSerial, InsertOps, OpsFail, AddOps
<1>16. Tick \/ RevertBlock \/ RestoreFromDb => UNCHANGED <<blocksVars, requests>>
  BY DEF Tick, RevertBlock, RestoreFromDb
<1>17. CASE SendFails
  <2>1. blocksPc' = "notSent" /\ request' = NoRequest /\ proposed' = NoBlock
        /\ UNCHANGED <<updates, requests>>
    BY <1>17 DEF SendFails
  <2> QED
    BY <1>1, <1>2, <2>1 DEF BlockTypes, BlocksPc
<1> QED
  BY <1>4, <1>5, <1>6, <1>7, <1>8, <1>9, <1>10, <1>12, <1>13, <1>14, <1>15, <1>16, <1>17
     DEF Next, BlocksHandler, StateKeeper, Process

\* The database.
LEMMA TablesTyped == Types /\ Next => TableTypes'
<1> SUFFICES ASSUME Types, Next PROVE TableTypes'
  OBVIOUS
<1>1. /\ dbTxs \in SUBSET Variant /\ IsFiniteSet(dbTxs) /\ dbReverted \in Seq(RevertedTx)
      /\ dbOps \in [SerialId -> {"none", "unconfirmed", "confirmed"}]
      /\ dbChain \in Seq(ChainBlock) /\ dbAccounts \in AccountTree
  BY DEF Types, TableTypes
<1>2. CASE UNCHANGED dbVars
  BY <1>1, <1>2 DEF dbVars, TableTypes
<1>3. ASSUME NEW h \in Handler, InsertTx(h) PROVE TableTypes'
  <2>1. handler[h].variant \in Variant
    BY <1>3 DEF InsertTx, Types, HandlerTypes, HoldsTx
  <2>2. dbTxs' = dbTxs \cup {handler[h].variant}
        /\ UNCHANGED <<dbReverted, dbOps, dbChain, dbAccounts>>
    BY <1>3 DEF InsertTx
  <2>3. IsFiniteSet(dbTxs')
    BY <1>1, <2>2, FS_AddElement
  <2> QED
    BY <1>1, <2>1, <2>2, <2>3 DEF TableTypes
<1>4. ASSUME NEW h \in Handler, InsertOps(h) PROVE TableTypes'
  <2>1. UNCHANGED <<dbTxs, dbReverted, dbChain, dbAccounts>>
    BY <1>4 DEF InsertOps
  <2>2. dbOps' \in [SerialId -> {"none", "unconfirmed", "confirmed"}]
    BY <1>1, <1>4 DEF InsertOps
  <2> QED
    BY <1>1, <2>1, <2>2 DEF TableTypes
<1>5. CASE CommitBlock
  <2> DEFINE block == Head(keeperOpen)
             new == [first |-> block.first, ops |-> block.ops, txs |-> block.txs, before |-> dbAccounts]
  <2>1. block \in Block
    BY <1>5, HeadTailProperties DEF Types, OuterTypes, CommitBlock
  <2>2. new \in ChainBlock
    BY <1>1, <2>1 DEF Block, ChainBlock
  <2>3. dbChain' = Append(dbChain, new) /\ dbAccounts' \in AccountTree
        /\ UNCHANGED <<dbTxs, dbReverted, dbOps>>
    BY <1>5, CommitExecutes DEF CommitBlock
  <2> HIDE DEF new
  <2> QED
    BY <1>1, <2>2, <2>3 DEF TableTypes
<1>6. CASE RevertBlock
  <2> DEFINE n == Len(dbChain)
             block == Last(dbChain)
             next == block.first + Len(block.ops)
             txs == [i \in DOMAIN block.txs |-> [tx |-> block.txs[i], next |-> next]]
             others == {i \in DOMAIN dbReverted : dbReverted[i].tx \notin ToSet(block.txs)}
  <2>1. PICK kept \in Selections(dbReverted, others) : dbReverted' = txs \o kept
    BY <1>6 DEF RevertBlock
  <2>2. n \in Nat /\ n \in 1..n /\ dbChain # <<>> /\ n - 1 \in 0..n
    BY <1>1, <1>6 DEF RevertBlock
  <2>3. block \in ChainBlock
    BY <1>1, <2>2, ElementOfSeq DEF Last
  <2>4. Front(dbChain) \in Seq(ChainBlock)
    BY <1>1, <2>2, PartsIn DEF Front, Take
  <2>5. txs \in Seq(RevertedTx)
    <3>1. /\ block.first \in Nat /\ block.ops \in Seq(SerialId) /\ block.txs \in Seq(Variant)
          /\ block.before \in AccountTree
      BY <2>3 DEF ChainBlock
    <3>2. next \in Nat /\ DOMAIN block.txs = 1..Len(block.txs) /\ Len(block.txs) \in Nat
      BY <3>1
    <3> HIDE DEF next, block
    <3>3. \A i \in 1..Len(block.txs) : [tx |-> block.txs[i], next |-> next] \in RevertedTx
      BY <3>1, <3>2, ElementOfSeq DEF RevertedTx
    <3> QED
      BY <3>2, <3>3
  <2>6. kept \in Seq(RevertedTx)
    <3>1. others \subseteq DOMAIN dbReverted
      OBVIOUS
    <3> HIDE DEF others
    <3> QED
      BY <1>1, <3>1, SelectionIn
  <2>7. /\ dbChain' = Front(dbChain) /\ dbAccounts' = block.before /\ UNCHANGED dbOps
        /\ dbTxs' = dbTxs \ ToSet(block.txs)
    BY <1>6 DEF RevertBlock
  <2>8. block.before \in AccountTree
    BY <2>3 DEF ChainBlock
  <2> HIDE DEF block, txs, others, next
  <2>9. dbReverted' \in Seq(RevertedTx)
    BY <2>1, <2>5, <2>6
  <2>10. IsFiniteSet(dbTxs')
    BY <1>1, <2>7, FS_Subset
  <2> QED
    BY <1>1, <2>4, <2>7, <2>8, <2>9, <2>10 DEF TableTypes
<1>7. CASE RestoreFromDb
  <2> DEFINE waiting == {i \in DOMAIN dbReverted : dbReverted[i].tx \notin Garbage}
  <2>1. /\ dbTxs' = dbTxs \ Garbage /\ dbReverted' \in Selections(dbReverted, waiting)
        /\ UNCHANGED <<dbOps, dbChain, dbAccounts>>
    BY <1>7 DEF RestoreFromDb
  <2>2. dbReverted' \in Seq(RevertedTx)
    <3>1. waiting \subseteq DOMAIN dbReverted
      OBVIOUS
    <3> HIDE DEF waiting
    <3> QED
      BY <1>1, <2>1, <3>1, SelectionIn
  <2>3. IsFiniteSet(dbTxs') /\ dbTxs' \subseteq Variant
    BY <1>1, <2>1, FS_Subset
  <2> QED
    BY <1>1, <2>1, <2>2, <2>3 DEF TableTypes
<1>8. ASSUME NEW h \in Handler, TransactionsHandler(h)
      PROVE  UNCHANGED dbVars \/ InsertTx(h) \/ InsertOps(h)
  BY <1>8 DEF TransactionsHandler, ReceiveTx, CheckNonce, CheckBatchSize, InsertTxFails,
              AddTx, ReceiveConfirmedOps, ReceiveUnconfirmedOp, ReadMaxSerial, OpsFail, AddOps
<1>9. BlocksHandler \/ RequestBlock \/ Tick \/ Crash => UNCHANGED dbVars
  BY DEF BlocksHandler, ReceiveGetBlock, ProposeNewBlock, SendBlock, SendFails, ReceiveUpdateNonces,
         UpdateAccount, UpdatesDone, RequestBlock, Tick, Crash
<1> QED
  BY <1>2, <1>3, <1>4, <1>5, <1>6, <1>7, <1>8, <1>9 DEF Next, StateKeeper, Process

\* The state keeper, the watcher, the clients and the process.
LEMMA OuterTyped == Types /\ OrderInv /\ Next => OuterTypes'
<1> SUFFICES ASSUME Types, OrderInv, Next PROVE OuterTypes'
  OBVIOUS
<1>1. /\ keeperNext \in Nat /\ keeperOpen \in Seq(Block) /\ clock \in 0..MaxTime
      /\ watchNext \in 0..MaxSerial + 1
      /\ submitted \in SUBSET Variant /\ acked \in SUBSET Variant
      /\ up \in BOOLEAN /\ crashes \in 0..MaxCrashes /\ reverts \in 0..MaxReverts
  BY DEF Types, OuterTypes
<1>2. MaxSerial \in Int /\ MaxSerial >= -1 /\ MaxTime \in Nat /\ MaxCrashes \in Nat /\ MaxReverts \in Nat
  BY SerialAssumption, MempoolAssumption
<1>3. CASE UNCHANGED <<keeperVars, watchNext, clientVars, processVars>>
  BY <1>1, <1>3 DEF keeperVars, clientVars, processVars, OuterTypes
<1>4. ASSUME NEW h \in Handler, TransactionsHandler(h) PROVE OuterTypes'
  <2>1. UNCHANGED <<keeperVars, processVars>>
    BY <1>4 DEF TransactionsHandler, ReceiveTx, CheckNonce, CheckBatchSize, InsertTx, InsertTxFails,
                AddTx, ReceiveConfirmedOps, ReceiveUnconfirmedOp, ReadMaxSerial, InsertOps, OpsFail, AddOps
  <2>2. submitted' \subseteq Variant
    <3>1. CASE \E v \in Variant : ReceiveTx(h, v)
      BY <1>1, <3>1 DEF ReceiveTx
    <3>2. CASE CheckNonce(h) \/ CheckBatchSize(h) \/ InsertTxFails(h)
      BY <1>1, <3>2 DEF CheckNonce, CheckBatchSize, InsertTxFails, RefuseTx
    <3>3. CASE \/ InsertTx(h) \/ AddTx(h) \/ ReceiveConfirmedOps(h) \/ ReceiveUnconfirmedOp(h)
               \/ ReadMaxSerial(h) \/ InsertOps(h) \/ OpsFail(h) \/ AddOps(h)
      <4>1. submitted' = submitted
        BY <3>3 DEF InsertTx, AddTx, ReceiveConfirmedOps, ReceiveUnconfirmedOp, ReadMaxSerial, InsertOps,
                    OpsFail, AddOps, clientVars
      <4> QED
        BY <1>1, <4>1
    <3> QED
      BY <1>4, <3>1, <3>2, <3>3 DEF TransactionsHandler
  <2>3. acked' \subseteq Variant
    <3>1. AddTx(h) => acked' \subseteq Variant
      <4>1. AddTx(h) => handler[h].pc = "add" /\ acked' = acked \cup {handler[h].variant}
        BY DEF AddTx
      <4>2. handler[h].pc = "add" => handler[h].variant \in Variant
        BY DEF Types, HandlerTypes, HoldsTx
      <4> QED
        BY <1>1, <4>1, <4>2
    <3>2. ~AddTx(h) => acked' = acked
      BY <1>4 DEF TransactionsHandler, ReceiveTx, CheckNonce, CheckBatchSize, InsertTx, InsertTxFails,
                  ReceiveConfirmedOps, ReceiveUnconfirmedOp, ReadMaxSerial, InsertOps, OpsFail, AddOps,
                  clientVars
    <3> QED
      BY <1>1, <3>1, <3>2
  <2>4. watchNext' \in 0..MaxSerial + 1
    <3>1. CASE ReceiveConfirmedOps(h)
      <4>1. PICK hi \in SerialId : watchNext' = Largest(watchNext, hi + 1)
        BY <3>1 DEF ReceiveConfirmedOps
      <4> QED
        BY <1>1, <1>2, <4>1 DEF Largest, SerialId
    <3>2. CASE OpsFail(h)
      <4>1. \/ watchNext' = watchNext
            \/ \E first \in handler[h].ops : watchNext' = Smallest(watchNext, first)
        BY <3>2 DEF OpsFail
      <4>2. handler[h].ops \subseteq SerialId
        BY DEF Types, HandlerTypes, HandlerState
      <4>3. \A first \in SerialId : Smallest(watchNext, first) \in 0..MaxSerial + 1
        BY <1>1, <1>2 DEF Smallest, SerialId
      <4> QED
        BY <1>1, <4>1, <4>2, <4>3
    <3>3. ~ReceiveConfirmedOps(h) /\ ~OpsFail(h) => watchNext' = watchNext
      BY <1>4 DEF TransactionsHandler, ReceiveTx, CheckNonce, CheckBatchSize, InsertTx, InsertTxFails,
                  AddTx, ReceiveUnconfirmedOp, ReadMaxSerial, InsertOps, AddOps
    <3> QED
      BY <1>1, <3>1, <3>2, <3>3
  <2> QED
    BY <1>1, <2>1, <2>2, <2>3, <2>4 DEF keeperVars, processVars, OuterTypes
<1>5. CASE SendBlock
  <2>1. /\ keeperNext' = keeperNext + Len(proposed.ops)
        /\ keeperOpen' = keeperOpen \/ keeperOpen' = Append(keeperOpen, proposed)
        /\ UNCHANGED <<clock, watchNext, clientVars, processVars>>
    BY <1>5 DEF SendBlock
  <2>2. proposed \in Block /\ Len(proposed.ops) \in Nat
    BY DEF Types, BlockTypes, Block
  <2>3. keeperNext' \in Nat /\ keeperOpen' \in Seq(Block)
    BY <1>1, <2>1, <2>2
  <2> QED
    BY <1>1, <2>1, <2>3 DEF clientVars, processVars, OuterTypes
<1>6. BlocksHandler /\ ~SendBlock /\ ~SendFails
      => UNCHANGED <<keeperVars, watchNext, clientVars, processVars>>
  BY DEF BlocksHandler, ReceiveGetBlock, ProposeNewBlock, ReceiveUpdateNonces, UpdateAccount, UpdatesDone
<1>7. CASE RequestBlock
  BY <1>3, <1>7 DEF RequestBlock
<1>8. CASE Tick
  BY <1>1, <1>2, <1>8 DEF Tick, clientVars, processVars, OuterTypes
<1>9. CASE CommitBlock
  <2>1. keeperOpen # <<>> /\ keeperOpen' = Tail(keeperOpen)
        /\ UNCHANGED <<keeperNext, clock, watchNext, clientVars, processVars>>
    BY <1>9 DEF CommitBlock
  <2>2. keeperOpen' \in Seq(Block)
    BY <1>1, <2>1, HeadTailProperties
  <2> QED
    BY <1>1, <2>1, <2>2 DEF clientVars, processVars, OuterTypes
<1>10. CASE Crash
  <2>1. /\ keeperNext' = 0 /\ keeperOpen' = <<>> /\ up' = FALSE
        /\ UNCHANGED <<clock, watchNext, clientVars, reverts>>
        /\ (crashes' = crashes \/ (crashes < MaxCrashes /\ crashes' = crashes + 1))
    BY <1>10 DEF Crash
  <2>2. <<>> \in Seq(Block)
    OBVIOUS
  <2>3. crashes' \in 0..MaxCrashes
    BY <1>1, <1>2, <2>1
  <2> QED
    BY <1>1, <1>2, <2>1, <2>2, <2>3 DEF clientVars, OuterTypes
<1>11. CASE RevertBlock
  <2>1. reverts < MaxReverts /\ reverts' = reverts + 1
        /\ UNCHANGED <<keeperVars, watchNext, clientVars, up, crashes>>
    BY <1>11 DEF RevertBlock
  <2> QED
    BY <1>1, <1>2, <2>1 DEF keeperVars, clientVars, OuterTypes
<1>12. CASE RestoreFromDb
  <2>1. /\ keeperNext' = DbMaxSerial + 1 /\ up' = TRUE /\ watchNext' \in 0..MaxSerial + 1
        /\ UNCHANGED <<keeperOpen, clock, clientVars, crashes, reverts>>
    BY <1>12 DEF RestoreFromDb
  <2>2. DbMaxSerial + 1 \in Nat
    <3>1. DbMaxSerial + 1 \in 0..MaxSerial + 1
      BY DbMaxSerialTyped DEF Types, OrderInv
    <3> QED
      BY <1>2, <3>1
  <2> QED
    BY <1>1, <2>1, <2>2 DEF clientVars, OuterTypes
<1>13. CASE SendFails
  <2>1. crashes < MaxCrashes /\ crashes' = crashes + 1
        /\ UNCHANGED <<keeperVars, watchNext, clientVars, up, reverts>>
    BY <1>13 DEF SendFails
  <2> QED
    BY <1>1, <1>2, <2>1 DEF keeperVars, clientVars, OuterTypes
<1> QED
  BY <1>3, <1>4, <1>5, <1>6, <1>7, <1>8, <1>9, <1>10, <1>11, <1>12, <1>13
     DEF Next, BlocksHandler, StateKeeper, Process

LEMMA TypesStep == Types /\ OrderInv /\ [Next]_vars => Types'
<1> SUFFICES ASSUME Types, OrderInv, [Next]_vars PROVE Types'
  OBVIOUS
<1>1. CASE Next
  BY <1>1, AccountsTyped, QueuesTyped, HandlersTyped, BlocksTyped, TablesTyped, OuterTyped DEF Types
<1>2. CASE UNCHANGED vars
  <2>1. AccountTypes' /\ QueueTypes'
    BY <1>2 DEF vars, accountVars, queueVars, txVars, opVars, Types, AccountTypes, QueueTypes
  <2>2. HandlerTypes' /\ BlockTypes'
    BY <1>2 DEF vars, blocksVars, Types, HandlerTypes, BlockTypes
  <2>3. TableTypes' /\ OuterTypes'
    BY <1>2 DEF vars, dbVars, keeperVars, clientVars, processVars, Types, TableTypes, OuterTypes
  <2> QED
    BY <2>1, <2>2, <2>3 DEF Types
<1> QED
  BY <1>1, <1>2

-----------------------------------------------------------------------------
(* Blocks that continue one another, as they are sent, committed and       *)
(* reverted.                                                               *)
LEMMA ContinueAppend ==
    ASSUME NEW V, NEW blocks \in Seq(V), NEW b \in V, NEW from, NEW to,
           Continue(blocks, from, to), InPlace(b), b.first = to
    PROVE  Continue(Append(blocks, b), from, EndOf(b))
<1> DEFINE n == Len(blocks)
           new == Append(blocks, b)
<1>1. n \in Nat /\ Len(new) = n + 1 /\ new # <<>> /\ new[n + 1] = b
      /\ \A i \in 1..n : new[i] = blocks[i]
  OBVIOUS
<1> HIDE DEF new
<1>2. ASSUME NEW i \in 1..n + 1
      PROVE  InPlace(new[i]) /\ new[i].first = IF i = 1 THEN from ELSE EndOf(new[i - 1])
  <2>1. CASE i \in 1..n
    <3>1. new[i] = blocks[i] /\ (i # 1 => i - 1 \in 1..n /\ new[i - 1] = blocks[i - 1])
      BY <1>1, <2>1
    <3> QED
      BY <2>1, <3>1 DEF Continue
  <2>2. CASE i = n + 1
    <3>1. new[i] = b /\ n = i - 1
      BY <1>1, <2>2
    <3>2. CASE n = 0
      <4>1. blocks = <<>> /\ i = 1
        BY <1>1, <2>2, <3>2
      <4> QED
        BY <3>1, <4>1 DEF Continue
    <3>3. CASE n # 0
      <4>1. blocks # <<>> /\ i # 1 /\ new[i - 1] = blocks[n]
        BY <1>1, <2>2, <3>1, <3>3
      <4> QED
        BY <3>1, <4>1 DEF Continue
    <3> QED
      BY <3>2, <3>3
  <2> QED
    BY <1>1, <2>1, <2>2
<1> QED
  BY <1>1, <1>2 DEF Continue, new

LEMMA ContinueTail ==
    ASSUME NEW V, NEW blocks \in Seq(V), blocks # <<>>, NEW from, NEW to, Continue(blocks, from, to)
    PROVE  /\ InPlace(Head(blocks)) /\ Head(blocks).first = from
           /\ Continue(Tail(blocks), EndOf(Head(blocks)), to)
<1> DEFINE n == Len(blocks)
           rest == Tail(blocks)
<1>1. n \in Nat /\ n # 0 /\ Len(rest) = n - 1 /\ Head(blocks) = blocks[1]
      /\ \A i \in 1..n - 1 : rest[i] = blocks[i + 1]
  BY HeadTailProperties
<1>2. n = 1 <=> rest = <<>>
  <2>1. rest \in Seq(V)
    BY HeadTailProperties
  <2> HIDE DEF rest
  <2> QED
    BY <1>1, <2>1
<1> HIDE DEF rest
<1>3. 1 \in 1..n
  BY <1>1
<1>4. InPlace(blocks[1]) /\ blocks[1].first = from
  BY <1>3 DEF Continue
<1>5. ASSUME NEW i \in 1..n - 1
      PROVE  InPlace(rest[i]) /\ rest[i].first = IF i = 1 THEN EndOf(blocks[1]) ELSE EndOf(rest[i - 1])
  <2>1. i + 1 \in 1..n /\ i + 1 # 1 /\ i + 1 - 1 = i
    BY <1>1
  <2>2. InPlace(blocks[i + 1]) /\ blocks[i + 1].first = EndOf(blocks[i])
    BY <2>1 DEF Continue
  <2>3. i # 1 => i - 1 \in 1..n - 1 /\ i - 1 + 1 = i
    BY <1>1
  <2>4. i # 1 => rest[i - 1] = blocks[i]
    BY <1>1, <2>3
  <2> QED
    BY <1>1, <2>2, <2>4
<1>6. to = IF rest = <<>> THEN EndOf(blocks[1]) ELSE EndOf(rest[n - 1])
  <2>1. to = EndOf(blocks[n])
    BY DEF Continue
  <2>2. n # 1 => n - 1 \in 1..n - 1 /\ n - 1 + 1 = n
    BY <1>1
  <2>3. n # 1 => rest[n - 1] = blocks[n]
    BY <1>1, <2>2
  <2> QED
    BY <1>2, <2>1, <2>3
<1> QED
  BY <1>1, <1>4, <1>5, <1>6 DEF Continue, rest

LEMMA ContinueFront ==
    ASSUME NEW V, NEW blocks \in Seq(V), blocks # <<>>, NEW from, NEW to, Continue(blocks, from, to)
    PROVE  Continue(Front(blocks), from, blocks[Len(blocks)].first)
<1> DEFINE n == Len(blocks)
           rest == Front(blocks)
<1>1. n \in Nat /\ n # 0 /\ Len(rest) = n - 1 /\ (\A i \in 1..n - 1 : rest[i] = blocks[i])
      /\ rest \in Seq(V)
  BY DEF Front
<1>2. n = 1 <=> rest = <<>>
  <2> HIDE DEF rest
  <2> QED
    BY <1>1
<1> HIDE DEF rest
<1>3. ASSUME NEW i \in 1..n - 1
      PROVE  InPlace(rest[i]) /\ rest[i].first = IF i = 1 THEN from ELSE EndOf(rest[i - 1])
  <2>1. i \in 1..n /\ (i # 1 => i - 1 \in 1..n - 1)
    BY <1>1
  <2> QED
    BY <1>1, <2>1 DEF Continue
<1>4. blocks[n].first = IF rest = <<>> THEN from ELSE EndOf(rest[n - 1])
  <2>1. n \in 1..n /\ (n # 1 => n - 1 \in 1..n - 1)
    BY <1>1
  <2> QED
    BY <1>1, <1>2, <2>1 DEF Continue
<1> QED
  BY <1>1, <1>3, <1>4 DEF Continue, rest

\* The next serial id is the one after the last block of the chain.
ChainEndsThere ==
    dbChain \in Seq(ChainBlock) =>
        DbMaxSerial + 1 = IF dbChain = <<>> THEN 0 ELSE EndOf(dbChain[Len(dbChain)])

LEMMA ChainEnds == ChainEndsThere
<1> SUFFICES ASSUME dbChain \in Seq(ChainBlock), dbChain # <<>>
             PROVE  DbMaxSerial + 1 = EndOf(dbChain[Len(dbChain)])
  BY DEF ChainEndsThere, DbMaxSerial
<1> DEFINE b == Last(dbChain)
<1>1. b \in ChainBlock /\ b = dbChain[Len(dbChain)]
  BY ElementOfSeq DEF Last
<1>2. b.first \in Nat /\ Len(b.ops) \in Nat
  BY <1>1 DEF ChainBlock
<1> HIDE DEF b
<1> QED
  BY <1>1, <1>2 DEF DbMaxSerial, EndOf, b

-----------------------------------------------------------------------------
\* The chain.
ChainInOrder == Continue(dbChain, 0, DbMaxSerial + 1)
OpenInOrder == up => Continue(keeperOpen, DbMaxSerial + 1, keeperNext)

LEMMA ChainStaysInOrder == Types /\ OrderInv /\ Next => ChainInOrder'
<1> SUFFICES ASSUME Types, OrderInv, Next PROVE ChainInOrder'
  OBVIOUS
<1>1. dbChain \in Seq(ChainBlock) /\ keeperOpen \in Seq(Block)
      /\ Continue(dbChain, 0, DbMaxSerial + 1)
  BY DEF Types, TableTypes, OuterTypes, OrderInv
<1>2. dbChain' \in Seq(ChainBlock)
  BY TablesTyped DEF TableTypes
<1>3. ChainEndsThere'
  BY ChainEnds, PTL
<1>4. CASE UNCHANGED dbChain
  <2>1. DbMaxSerial' = DbMaxSerial
    BY <1>4 DEF DbMaxSerial
  <2> QED
    BY <1>1, <1>4, <2>1 DEF ChainInOrder, Continue, InPlace, EndOf
<1>5. CASE CommitBlock
  <2> DEFINE block == Head(keeperOpen)
             new == [first |-> block.first, ops |-> block.ops, txs |-> block.txs, before |-> dbAccounts]
  <2>1. up /\ keeperOpen # <<>> /\ dbChain' = Append(dbChain, new)
    BY <1>5 DEF CommitBlock
  <2>2. InPlace(block) /\ block.first = DbMaxSerial + 1
    BY <1>1, <2>1, ContinueTail DEF OrderInv
  <2>3. new \in ChainBlock
    <3>1. block \in Block /\ dbAccounts \in AccountTree
      BY <1>1, <2>1, HeadTailProperties DEF Types, TableTypes
    <3> QED
      BY <3>1 DEF Block, ChainBlock
  <2>4. new.first = block.first /\ new.ops = block.ops
    OBVIOUS
  <2> HIDE DEF new, block
  <2>5. InPlace(new) /\ new.first = DbMaxSerial + 1
    BY <2>2, <2>4 DEF InPlace
  <2>6. Continue(Append(dbChain, new), 0, EndOf(new))
    BY <1>1, <2>3, <2>5, ContinueAppend
  <2>7. dbChain' # <<>> /\ dbChain'[Len(dbChain')] = new
    BY <1>1, <2>1, <2>3
  <2>8. DbMaxSerial' + 1 = EndOf(new)
    BY <1>2, <1>3, <2>7 DEF ChainEndsThere, EndOf
  <2> QED
    BY <2>1, <2>6, <2>8 DEF ChainInOrder
<1>6. CASE RevertBlock
  <2> DEFINE to == dbChain[Len(dbChain)].first
  <2>1. dbChain # <<>> /\ dbChain' = Front(dbChain)
    BY <1>6 DEF RevertBlock
  <2>2. Continue(Front(dbChain), 0, to)
    BY <1>1, <2>1, ContinueFront
  <2> HIDE DEF to
  <2>3. to = IF dbChain' = <<>> THEN 0 ELSE EndOf(dbChain'[Len(dbChain')])
    BY <2>1, <2>2 DEF Continue
  <2>4. DbMaxSerial' + 1 = to
    BY <1>2, <1>3, <2>3 DEF ChainEndsThere, EndOf
  <2> QED
    BY <2>1, <2>2, <2>4 DEF ChainInOrder
<1>7. ASSUME NEW h \in Handler, TransactionsHandler(h) PROVE UNCHANGED dbChain
  BY <1>7 DEF TransactionsHandler, ReceiveTx, CheckNonce, CheckBatchSize, InsertTx, InsertTxFails,
              AddTx, ReceiveConfirmedOps, ReceiveUnconfirmedOp, ReadMaxSerial, InsertOps, OpsFail,
              AddOps, dbVars
<1>8. BlocksHandler \/ RequestBlock \/ Tick \/ Crash \/ RestoreFromDb => UNCHANGED dbChain
  BY DEF BlocksHandler, ReceiveGetBlock, ProposeNewBlock, SendBlock, SendFails, ReceiveUpdateNonces,
         UpdateAccount, UpdatesDone, RequestBlock, Tick, Crash, RestoreFromDb, dbVars
<1> QED
  BY <1>4, <1>5, <1>6, <1>7, <1>8 DEF Next, StateKeeper, Process

\* The open blocks.
LEMMA OpenStaysInOrder == Types /\ OrderInv /\ Next => OpenInOrder'
<1> SUFFICES ASSUME Types, OrderInv, Next, up' PROVE Continue(keeperOpen, DbMaxSerial + 1, keeperNext)'
  BY DEF OpenInOrder
<1>1. /\ dbChain \in Seq(ChainBlock) /\ keeperOpen \in Seq(Block) /\ proposed \in Block
      /\ up => Continue(keeperOpen, DbMaxSerial + 1, keeperNext)
  BY DEF Types, TableTypes, BlockTypes, OuterTypes, OrderInv
<1>2. CASE up /\ UNCHANGED <<dbChain, keeperOpen, keeperNext>>
  <2>1. DbMaxSerial' = DbMaxSerial
    BY <1>2 DEF DbMaxSerial
  <2> QED
    BY <1>1, <1>2, <2>1 DEF Continue, InPlace, EndOf
<1>3. CASE SendBlock
  <2>1. up /\ blocksPc = "send" /\ keeperNext' = EndOf(proposed) /\ UNCHANGED dbChain
        /\ keeperOpen' = IF proposed.ops = <<>> /\ proposed.txs = <<>> THEN keeperOpen
                         ELSE Append(keeperOpen, proposed)
    BY <1>3 DEF SendBlock, OrderInv, AskedOnce, Busy, EndOf, dbVars
  <2>2. InPlace(proposed) /\ proposed.first = keeperNext
    BY <2>1 DEF OrderInv, AskedOnce, Busy
  <2>3. DbMaxSerial' = DbMaxSerial
    BY <2>1 DEF DbMaxSerial
  <2>4. CASE proposed.ops = <<>> /\ proposed.txs = <<>>
    <3>1. Len(proposed.ops) = 0 /\ keeperNext \in Nat
      BY <2>4 DEF Types, OuterTypes
    <3>2. keeperNext' = keeperNext /\ keeperOpen' = keeperOpen
      BY <2>1, <2>2, <2>4, <3>1 DEF EndOf
    <3> QED
      BY <1>1, <2>1, <2>3, <3>2 DEF Continue, InPlace, EndOf
  <2>5. CASE ~(proposed.ops = <<>> /\ proposed.txs = <<>>)
    <3> DEFINE from == DbMaxSerial + 1
    <3>1. Continue(keeperOpen, from, keeperNext)
      BY <1>1, <2>1
    <3> HIDE DEF from
    <3>2. Continue(Append(keeperOpen, proposed), from, EndOf(proposed))
      BY <1>1, <2>2, <3>1, ContinueAppend
    <3> QED
      BY <2>1, <2>3, <2>5, <3>2 DEF from
  <2> QED
    BY <2>4, <2>5
<1>4. CASE CommitBlock
  <2> DEFINE block == Head(keeperOpen)
             new == [first |-> block.first, ops |-> block.ops, txs |-> block.txs, before |-> dbAccounts]
             from == DbMaxSerial + 1
  <2>1. up /\ keeperOpen # <<>> /\ dbChain' = Append(dbChain, new) /\ keeperOpen' = Tail(keeperOpen)
        /\ keeperNext' = keeperNext
    BY <1>4 DEF CommitBlock
  <2>2. Continue(keeperOpen, from, keeperNext)
    BY <1>1, <2>1
  <2> HIDE DEF from
  <2>3. Continue(Tail(keeperOpen), EndOf(block), keeperNext)
    BY <1>1, <2>1, <2>2, ContinueTail
  <2>4. dbChain' \in Seq(ChainBlock) /\ ChainEndsThere'
    <3>1. dbChain' \in Seq(ChainBlock)
      BY TablesTyped DEF TableTypes
    <3>2. ChainEndsThere'
      BY ChainEnds, PTL
    <3> QED
      BY <3>1, <3>2
  <2>5. new.first = block.first /\ new.ops = block.ops
    OBVIOUS
  <2> HIDE DEF new
  <2>6. dbChain' # <<>> /\ dbChain'[Len(dbChain')] = new
    BY <1>1, <2>1
  <2>7. DbMaxSerial' + 1 = EndOf(block)
    BY <2>4, <2>5, <2>6 DEF ChainEndsThere, EndOf
  <2> QED
    BY <2>1, <2>3, <2>7
<1>5. CASE RestoreFromDb
  <2>1. ~up /\ keeperNext' = DbMaxSerial + 1 /\ keeperOpen' = keeperOpen /\ dbChain' = dbChain
    BY <1>5 DEF RestoreFromDb
  <2>2. keeperOpen' = <<>> /\ Len(keeperOpen') = 0 /\ DbMaxSerial' = DbMaxSerial
    BY <2>1 DEF OrderInv, Stopped, DbMaxSerial
  <2> QED
    BY <2>1, <2>2 DEF Continue
<1>6. ASSUME NEW h \in Handler, TransactionsHandler(h) PROVE up /\ UNCHANGED <<dbChain, keeperOpen, keeperNext>>
  BY <1>6 DEF TransactionsHandler, ReceiveTx, CheckNonce, CheckBatchSize, InsertTx, InsertTxFails,
              AddTx, ReceiveConfirmedOps, ReceiveUnconfirmedOp, ReadMaxSerial, InsertOps, OpsFail,
              AddOps, dbVars, keeperVars
<1>7. (BlocksHandler /\ ~SendBlock) \/ RequestBlock \/ Tick
      => up /\ UNCHANGED <<dbChain, keeperOpen, keeperNext>>
  BY DEF BlocksHandler, ReceiveGetBlock, ProposeNewBlock, SendFails, ReceiveUpdateNonces,
         UpdateAccount, UpdatesDone, RequestBlock, Tick, dbVars, keeperVars
<1>8. Crash \/ RevertBlock => ~up'
  BY DEF Crash, RevertBlock
<1> QED
  BY <1>2, <1>3, <1>4, <1>5, <1>6, <1>7, <1>8 DEF Next, StateKeeper, Process

LEMMA NextStaysInRange == Types /\ OrderInv /\ Next => keeperNext' \in 0..MaxSerial + 1
<1> SUFFICES ASSUME Types, OrderInv, Next PROVE keeperNext' \in 0..MaxSerial + 1
  OBVIOUS
<1>1. keeperNext \in 0..MaxSerial + 1 /\ MaxSerial \in Int /\ MaxSerial >= -1
  BY SerialAssumption DEF OrderInv
<1>2. CASE SendBlock
  <2>1. InPlace(proposed) /\ proposed.ops \in Seq(SerialId) /\ keeperNext' = EndOf(proposed)
    BY <1>2 DEF SendBlock, OrderInv, AskedOnce, Busy, Types, BlockTypes, Block, EndOf
  <2> QED
    BY <2>1, EndInRange
<1>3. CASE RestoreFromDb
  <2>1. DbMaxSerial + 1 \in 0..MaxSerial + 1
    BY DbMaxSerialTyped DEF Types, OrderInv
  <2> QED
    BY <1>3, <2>1 DEF RestoreFromDb
<1>4. Crash => keeperNext' = 0
  BY DEF Crash
<1>5. ASSUME NEW h \in Handler, TransactionsHandler(h) PROVE UNCHANGED keeperNext
  BY <1>5 DEF TransactionsHandler, ReceiveTx, CheckNonce, CheckBatchSize, InsertTx, InsertTxFails,
              AddTx, ReceiveConfirmedOps, ReceiveUnconfirmedOp, ReadMaxSerial, InsertOps, OpsFail,
              AddOps, keeperVars
<1>6. (BlocksHandler /\ ~SendBlock) \/ StateKeeper \/ RevertBlock => UNCHANGED keeperNext
  BY DEF BlocksHandler, ReceiveGetBlock, ProposeNewBlock, SendFails, ReceiveUpdateNonces,
         UpdateAccount, UpdatesDone, StateKeeper, RequestBlock, Tick, CommitBlock, RevertBlock, keeperVars
<1> QED
  BY <1>1, <1>2, <1>3, <1>4, <1>5, <1>6 DEF Next, Process

\* The requests.
LEMMA AskedOnceStays == Types /\ OrderInv /\ Next => AskedOnce'
<1> SUFFICES ASSUME Types, OrderInv, Next PROVE AskedOnce'
  OBVIOUS
<1> DEFINE Request == GetBlockRequest \cup UpdateNoncesRequest
<1>1. requests \in Seq(Request) /\ proposed \in Block /\ request \in GetBlockRequest
  BY DEF Types, BlockTypes
<1>2. /\ \A i \in DOMAIN requests : requests[i].type = "GetBlock" =>
            /\ requests[i].first = keeperNext /\ blocksPc \notin Busy
            /\ \A j \in DOMAIN requests : requests[j].type = "GetBlock" => i = j
      /\ blocksPc \in Busy => request.first = keeperNext /\ proposed.first = keeperNext
      /\ blocksPc \in {"txs", "send"} => InPlace(proposed)
  BY DEF OrderInv, AskedOnce
<1> HIDE DEF Request
<1>3. ASSUME requests # <<>>
      PROVE  /\ 1 \in DOMAIN requests /\ Head(requests) = requests[1]
             /\ \A i \in DOMAIN requests' : requests' = Tail(requests) =>
                    /\ i + 1 \in DOMAIN requests /\ requests'[i] = requests[i + 1] /\ i + 1 # 1
                    /\ i \in Nat
  <2>1. Len(requests) \in Nat /\ Len(requests) # 0
    BY <1>1, <1>3
  <2> QED
    BY <1>1, <1>3, <2>1, HeadTailProperties
<1>4. CASE UNCHANGED <<blocksVars, requests, keeperNext>>
  BY <1>2, <1>4 DEF AskedOnce, blocksVars, InPlace
<1>5. CASE ReceiveGetBlock
  <2>1. /\ requests # <<>> /\ Head(requests).type = "GetBlock" /\ blocksPc' = "reverted"
        /\ request' = Head(requests) /\ requests' = Tail(requests) /\ keeperNext' = keeperNext
        /\ proposed' = [NoBlock EXCEPT !.first = request'.first]
    BY <1>5 DEF ReceiveGetBlock, keeperVars
  <2>2. request'.first = keeperNext /\ proposed'.first = keeperNext
    BY <1>2, <1>3, <2>1 DEF NoBlock
  <2>3. \A i \in DOMAIN requests' : requests'[i].type # "GetBlock"
    BY <1>2, <1>3, <2>1
  <2> QED
    BY <2>1, <2>2, <2>3 DEF AskedOnce
<1>6. CASE ProposeNewBlock
  <2>1. Selection
    BY <1>6, ProposalSelects
  <2>2. blocksPc \in Busy
    BY <1>6 DEF ProposeNewBlock, NothingReverted, SelectReverted, RevertedOpDoesNotFit,
                RevertedOpIsMissing, SelectPriorityOps, PrepareTxForBlock, Busy
  <2>3. UNCHANGED <<request, requests, keeperNext>>
    BY <1>6 DEF ProposeNewBlock, keeperVars
  <2>4. \A i \in DOMAIN requests' : requests'[i].type # "GetBlock"
    BY <1>2, <2>2, <2>3
  <2>5. proposed'.first = keeperNext /\ request.first = keeperNext /\ keeperNext \in 0..MaxSerial + 1
    BY <1>2, <2>1, <2>2 DEF Selection, OrderInv
  <2>6. ASSUME blocksPc' \in {"txs", "send"} PROVE InPlace(proposed')
    <3>1. CASE blocksPc = "txs" /\ proposed'.ops = proposed.ops
      BY <1>2, <2>2, <2>5, <3>1 DEF InPlace
    <3>2. CASE \A i \in 1..Len(proposed'.ops) : proposed'.ops[i] = request.first + i - 1
      BY <2>5, <3>2 DEF InPlace
    <3> QED
      BY <2>1, <2>6, <3>1, <3>2 DEF Selection
  <2> QED
    BY <2>3, <2>4, <2>5, <2>6 DEF AskedOnce, InPlace
<1>7. CASE SendBlock
  <2>1. blocksPc = "send" /\ blocksPc' = "idle" /\ requests' = requests
    BY <1>7 DEF SendBlock
  <2>2. \A i \in DOMAIN requests' : requests'[i].type # "GetBlock"
    BY <1>2, <2>1 DEF Busy
  <2> QED
    BY <2>1, <2>2 DEF AskedOnce, Busy
<1>8. CASE ReceiveUpdateNonces
  <2>1. /\ requests # <<>> /\ blocksPc = "idle" /\ blocksPc' = "updating" /\ requests' = Tail(requests)
        /\ keeperNext' = keeperNext
    BY <1>8 DEF ReceiveUpdateNonces, keeperVars
  <2>2. ASSUME NEW i \in DOMAIN requests', requests'[i].type = "GetBlock"
        PROVE  /\ requests'[i].first = keeperNext
               /\ \A j \in DOMAIN requests' : requests'[j].type = "GetBlock" => i = j
    <3>1. i \in Nat /\ i + 1 \in DOMAIN requests /\ requests[i + 1].type = "GetBlock"
          /\ requests'[i] = requests[i + 1]
      BY <1>3, <2>1, <2>2
    <3>2. ASSUME NEW j \in DOMAIN requests', requests'[j].type = "GetBlock" PROVE i = j
      <4>1. j \in Nat /\ j + 1 \in DOMAIN requests /\ requests[j + 1].type = "GetBlock"
        BY <1>3, <2>1, <3>2
      <4>2. i + 1 = j + 1
        BY <1>2, <3>1, <4>1
      <4> QED
        BY <3>1, <4>1, <4>2
    <3> QED
      BY <1>2, <3>1, <3>2
  <2> QED
    BY <2>1, <2>2 DEF AskedOnce, Busy
<1>9. CASE UpdateAccount
  <2>1. blocksPc = "updating" /\ UNCHANGED <<blocksPc, request, proposed, requests, keeperNext>>
    BY <1>9 DEF UpdateAccount, keeperVars
  <2> QED
    BY <1>2, <2>1 DEF AskedOnce, InPlace
<1>10. CASE UpdatesDone
  <2>1. blocksPc' = "idle" /\ UNCHANGED <<requests, keeperNext>>
    BY <1>10 DEF UpdatesDone, keeperVars
  <2> QED
    BY <1>2, <2>1 DEF AskedOnce, Busy
<1>11. ASSUME NEW r \in Request, requests' = Append(requests, r), UNCHANGED <<blocksVars, keeperNext>>,
              r.type = "GetBlock" => /\ r.first = keeperNext /\ blocksPc \notin Busy
                                     /\ \A i \in DOMAIN requests : requests[i].type # "GetBlock"
       PROVE  AskedOnce'
  <2>1. /\ DOMAIN requests = 1..Len(requests) /\ Len(requests) \in Nat
        /\ DOMAIN requests' = 1..Len(requests) + 1 /\ requests'[Len(requests) + 1] = r
        /\ \A i \in DOMAIN requests : requests'[i] = requests[i]
    BY <1>1, <1>11
  <2>2. \A i \in DOMAIN requests' : i \in DOMAIN requests \/ i = Len(requests) + 1
    BY <2>1
  <2>3. blocksPc' = blocksPc /\ request' = request /\ proposed' = proposed /\ keeperNext' = keeperNext
    BY <1>11 DEF blocksVars
  <2>4. \A i \in DOMAIN requests' : requests'[i].type = "GetBlock" =>
            /\ requests'[i].first = keeperNext /\ blocksPc \notin Busy
            /\ \A j \in DOMAIN requests' : requests'[j].type = "GetBlock" => i = j
    BY <1>2, <1>11, <2>1, <2>2
  <2> QED
    BY <1>2, <2>3, <2>4 DEF AskedOnce, InPlace
<1>12. CASE RequestBlock
  <2> DEFINE r == [type |-> "GetBlock", first |-> keeperNext, timestamp |-> clock]
  <2>1. r \in Request
    BY DEF Request, GetBlockRequest, Types, OuterTypes
  <2>2. requests' = Append(requests, r) /\ UNCHANGED <<blocksVars, keeperNext>> /\ ~GetBlockPending
    BY <1>12 DEF RequestBlock, keeperVars
  <2>3. r.first = keeperNext
    OBVIOUS
  <2> HIDE DEF r
  <2> QED
    BY <1>11, <2>1, <2>2, <2>3 DEF GetBlockPending, Busy
<1>13. CASE CommitBlock
  <2> DEFINE block == Head(keeperOpen)
             executed == Execute(block.txs, dbAccounts.nonces)
             u == executed.updates
             r == [type |-> "UpdateNonces", updates |-> u]
  <2>1. u \in Seq(AccountUpdate) /\ UNCHANGED <<blocksVars, keeperNext>>
        /\ (requests' = requests \/ requests' = Append(requests, r))
    BY <1>13, CommitExecutes DEF CommitBlock
  <2> HIDE DEF u
  <2>2. r \in Request /\ r.type # "GetBlock"
    BY <2>1 DEF Request, UpdateNoncesRequest
  <2> HIDE DEF r
  <2> QED
    BY <1>4, <1>11, <2>1, <2>2
<1>14. CASE Crash
  BY <1>14 DEF Crash, AskedOnce, Busy
<1>15. CASE RestoreFromDb
  <2>1. requests' = requests /\ requests = <<>> /\ blocksPc' = "idle"
    BY <1>15 DEF RestoreFromDb, OrderInv, Stopped, blocksVars
  <2> QED
    BY <2>1 DEF AskedOnce, Busy
<1>16. ASSUME NEW h \in Handler, TransactionsHandler(h) PROVE UNCHANGED <<blocksVars, requests, keeperNext>>
  BY <1>16 DEF TransactionsHandler, ReceiveTx, CheckNonce, CheckBatchSize, InsertTx, InsertTxFails,
               AddTx, ReceiveConfirmedOps, ReceiveUnconfirmedOp, ReadMaxSerial, InsertOps, OpsFail,
               AddOps, keeperVars
<1>17. Tick \/ RevertBlock => UNCHANGED <<blocksVars, requests, keeperNext>>
  BY DEF Tick, RevertBlock, keeperVars
<1>18. CASE SendFails
  <2>1. blocksPc = "send" /\ blocksPc' = "notSent" /\ requests' = requests
    BY <1>18 DEF SendFails
  <2>2. \A i \in DOMAIN requests' : requests'[i].type # "GetBlock"
    BY <1>2, <2>1 DEF Busy
  <2> QED
    BY <2>1, <2>2 DEF AskedOnce, Busy
<1> QED
  BY <1>4, <1>5, <1>6, <1>7, <1>8, <1>9, <1>10, <1>12, <1>13, <1>14, <1>15, <1>16, <1>17, <1>18
     DEF Next, BlocksHandler, StateKeeper, Process

LEMMA StoppedStays == OrderInv /\ Next => Stopped'
<1> SUFFICES ASSUME OrderInv, Next, ~up' PROVE Stopped'
  BY DEF Stopped
<1>1. Crash => Stopped'
  BY DEF Crash, Stopped
<1>2. CASE RevertBlock
  <2>1. ~up /\ UNCHANGED <<queueVars, handler, blocksVars, requests, keeperVars>>
    BY <1>2 DEF RevertBlock
  <2> QED
    BY <2>1 DEF OrderInv, Stopped, queueVars, txVars, blocksVars, keeperVars
<1>3. ASSUME NEW h \in Handler, TransactionsHandler(h) PROVE up'
  <2>1. up /\ UNCHANGED processVars
    BY <1>3 DEF TransactionsHandler, ReceiveTx, CheckNonce, CheckBatchSize, InsertTx, InsertTxFails,
                AddTx, ReceiveConfirmedOps, ReceiveUnconfirmedOp, ReadMaxSerial, InsertOps, OpsFail,
                AddOps
  <2> QED
    BY <2>1 DEF processVars
<1>4. BlocksHandler \/ StateKeeper \/ RestoreFromDb => up'
  BY DEF BlocksHandler, ReceiveGetBlock, ProposeNewBlock, SendBlock, SendFails, ReceiveUpdateNonces,
         UpdateAccount, UpdatesDone, StateKeeper, RequestBlock, Tick, CommitBlock, RestoreFromDb,
         processVars
<1> QED
  BY <1>1, <1>2, <1>3, <1>4 DEF Next, Process

LEMMA OrderInit == Init => OrderInv
<1> SUFFICES ASSUME Init PROVE OrderInv
  OBVIOUS
<1>1. Len(<<>>) = 0 /\ DbMaxSerial + 1 = 0 /\ 0 \in 0..MaxSerial + 1
  BY SerialAssumption DEF Init, DbMaxSerial
<1>2. Continue(dbChain, 0, DbMaxSerial + 1) /\ Continue(keeperOpen, DbMaxSerial + 1, keeperNext)
  BY <1>1 DEF Init, Continue
<1>3. AskedOnce /\ Stopped /\ keeperNext = 0
  BY DEF Init, AskedOnce, Stopped, Busy
<1> QED
  BY <1>1, <1>2, <1>3 DEF OrderInv

LEMMA OrderStep == Types /\ OrderInv /\ [Next]_vars => OrderInv'
<1> SUFFICES ASSUME Types, OrderInv, [Next]_vars PROVE OrderInv'
  OBVIOUS
<1>1. CASE Next
  BY <1>1, ChainStaysInOrder, OpenStaysInOrder, NextStaysInRange, AskedOnceStays, StoppedStays
     DEF OrderInv, ChainInOrder, OpenInOrder
<1>2. CASE UNCHANGED vars
  <2>1. UNCHANGED <<dbChain, keeperOpen, keeperNext, up, requests, updates, handler,
                    blocksPc, request, proposed, revertedTxs, readyTxs, pendingTxs>>
    BY <1>2 DEF vars, dbVars, keeperVars, processVars, blocksVars, queueVars, txVars
  <2>2. DbMaxSerial' = DbMaxSerial
    BY <2>1 DEF DbMaxSerial
  <2>3. Continue(dbChain, 0, DbMaxSerial + 1)' /\ (up' => Continue(keeperOpen, DbMaxSerial + 1, keeperNext)')
        /\ (keeperNext \in 0..MaxSerial + 1)'
    BY <2>1, <2>2 DEF OrderInv, Continue, InPlace, EndOf
  <2>4. AskedOnce' /\ Stopped'
    BY <2>1 DEF OrderInv, AskedOnce, InPlace, Stopped
  <2> QED
    BY <2>3, <2>4 DEF OrderInv
<1> QED
  BY <1>1, <1>2

(* Every variable keeps its type: in particular keeperNext never passes    *)
(* the last serial id, although the operations of a block are counted      *)
(* only when it is sent, and a handler that checks or stores a transaction *)
(* always looks at one that the variant has.                               *)
THEOREM MempoolTypes == Spec => []TypeOK
<1>1. Init => Types /\ OrderInv
  BY TypesInit, OrderInit
<1>2. Types /\ OrderInv /\ [Next]_vars => (Types /\ OrderInv)'
  BY TypesStep, OrderStep
<1>3. Types /\ OrderInv => TypeOK
  BY TypesAreTypeOK
<1> QED
  BY <1>1, <1>2, <1>3, PTL DEF Spec

-----------------------------------------------------------------------------
(* The operations of blocks that continue one another are consecutive.     *)
Brief(b) == [first |-> b.first, ops |-> b.ops]
Briefly(blocks) == [i \in DOMAIN blocks |-> Brief(blocks[i])]
BriefBlock == [first : Nat, ops : Seq(SerialId)]

LEMMA ContinueBriefly ==
    ASSUME NEW V, \A b \in V : b.first \in Nat /\ b.ops \in Seq(SerialId),
           NEW blocks \in Seq(V), NEW from, NEW to, Continue(blocks, from, to)
    PROVE  Briefly(blocks) \in Seq(BriefBlock) /\ Continue(Briefly(blocks), from, to)
<1> DEFINE new == Briefly(blocks)
           n == Len(blocks)
<1>1. n \in Nat /\ DOMAIN blocks = 1..n /\ \A i \in 1..n : blocks[i] \in V
  OBVIOUS
<1>2. \A i \in 1..n : /\ new[i] \in BriefBlock /\ new[i].first = blocks[i].first
                      /\ new[i].ops = blocks[i].ops
  BY <1>1 DEF Briefly, Brief, BriefBlock
<1>3. new = [i \in 1..n |-> new[i]]
  BY <1>1 DEF Briefly
<1>4. new \in Seq(BriefBlock) /\ Len(new) = n
  <2> HIDE DEF new
  <2> QED
    BY <1>1, <1>2, <1>3
<1>5. new = <<>> <=> blocks = <<>>
  <2> HIDE DEF new
  <2> QED
    BY <1>1, <1>4
<1> HIDE DEF new
<1>6. ASSUME NEW i \in 1..n PROVE InPlace(new[i]) /\ EndOf(new[i]) = EndOf(blocks[i])
  <2>1. InPlace(blocks[i])
    BY DEF Continue
  <2>2. new[i].first = blocks[i].first /\ new[i].ops = blocks[i].ops
    BY <1>2
  <2> QED
    BY <2>1, <2>2 DEF InPlace, EndOf
<1>7. \A i \in 1..n : new[i].first = IF i = 1 THEN from ELSE EndOf(new[i - 1])
  <2>1. \A i \in 1..n : i # 1 => i - 1 \in 1..n
    BY <1>1
  <2> QED
    BY <1>2, <1>6, <2>1 DEF Continue
<1>8. to = IF new = <<>> THEN from ELSE EndOf(new[n])
  <2>1. blocks # <<>> => n \in 1..n
    BY <1>1
  <2> QED
    BY <1>5, <1>6, <2>1 DEF Continue
<1> QED
  BY <1>4, <1>6, <1>7, <1>8 DEF Continue, new

LEMMA ContinueConcat ==
    ASSUME NEW V, NEW a \in Seq(V), NEW b \in Seq(V), NEW from, NEW mid, NEW to,
           Continue(a, from, mid), Continue(b, mid, to)
    PROVE  Continue(a \o b, from, to)
<1> DEFINE m == Len(a)
           n == Len(b)
           new == a \o b
<1>1. /\ m \in Nat /\ n \in Nat /\ Len(new) = m + n /\ new \in Seq(V)
      /\ \A i \in 1..m : new[i] = a[i]
      /\ \A i \in 1..n : new[m + i] = b[i]
  <2>1. m \in Nat /\ n \in Nat /\ Len(new) = m + n /\ new \in Seq(V)
    OBVIOUS
  <2>2. \A i \in 1..m : new[i] = a[i]
    BY <2>1
  <2>3. ASSUME NEW i \in 1..n PROVE new[m + i] = b[i]
    <3>1. m + i \in 1..m + n /\ ~(m + i <= m) /\ (m + i) - m = i
      BY <2>1
    <3> QED
      BY <2>1, <3>1
  <2> QED
    BY <2>1, <2>2, <2>3
<1>2. (a = <<>> <=> m = 0) /\ (b = <<>> <=> n = 0)
  OBVIOUS
<1>3. new = <<>> <=> m + n = 0
  <2> HIDE DEF new
  <2> QED
    BY <1>1
<1> HIDE DEF new, m, n
<1>4. m # 0 => m \in 1..m /\ mid = EndOf(a[m]) /\ EndOf(new[m]) = mid
  <2>1. m # 0 => mid = EndOf(a[m])
    BY <1>2 DEF Continue, m
  <2>2. m # 0 => m \in 1..m
    BY <1>1
  <2> QED
    BY <1>1, <2>1, <2>2
<1>5. m = 0 => mid = from
  BY <1>2 DEF Continue
<1>6. ASSUME NEW i \in 1..m + n
      PROVE  InPlace(new[i]) /\ new[i].first = IF i = 1 THEN from ELSE EndOf(new[i - 1])
  <2>1. CASE i \in 1..m
    <3>1. i # 1 => i - 1 \in 1..m
      BY <1>1, <2>1
    <3> QED
      BY <1>1, <2>1, <3>1 DEF Continue, m
  <2>2. CASE i \notin 1..m
    <3> DEFINE j == i - m
    <3>1. j \in 1..n /\ i = m + j /\ new[i] = b[j]
      <4>1. j \in 1..n /\ i = m + j
        BY <1>1, <2>2
      <4> QED
        BY <1>1, <4>1
    <3>2. InPlace(b[j]) /\ b[j].first = IF j = 1 THEN mid ELSE EndOf(b[j - 1])
      BY <3>1 DEF Continue, n
    <3>3. CASE j = 1
      <4>1. i = 1 <=> m = 0
        BY <1>1, <3>1, <3>3
      <4>2. i - 1 = m
        BY <1>1, <3>1, <3>3
      <4> QED
        BY <1>4, <1>5, <3>1, <3>2, <3>3, <4>1, <4>2
    <3>4. CASE j # 1
      <4>1. j - 1 \in 1..n /\ i # 1 /\ i - 1 = m + (j - 1)
        BY <1>1, <3>1, <3>4
      <4>2. new[i - 1] = b[j - 1]
        BY <1>1, <4>1
      <4> QED
        BY <3>1, <3>2, <3>4, <4>1, <4>2
    <3> QED
      BY <3>3, <3>4
  <2> QED
    BY <2>1, <2>2
<1>7. to = IF new = <<>> THEN from ELSE EndOf(new[m + n])
  <2>1. CASE n = 0
    <3>1. to = mid /\ m + n = m
      BY <1>1, <1>2, <2>1 DEF Continue
    <3> QED
      BY <1>1, <1>3, <1>4, <1>5, <3>1
  <2>2. CASE n # 0
    <3>1. n \in 1..n /\ m + n # 0 /\ to = EndOf(b[n])
      BY <1>1, <1>2, <2>2 DEF Continue, n
    <3> QED
      BY <1>1, <1>3, <3>1
  <2> QED
    BY <2>1, <2>2
<1> QED
  BY <1>1, <1>6, <1>7 DEF Continue, new

\* The operations of n blocks, one after the other.
Numbered(ops, n) == Len(ops) = n /\ \A i \in 1..n : ops[i] = i - 1

LEMMA FlatInOrder ==
    ASSUME NEW all \in Seq(BriefBlock), NEW to, Continue(all, 0, to)
    PROVE  \A i \in DOMAIN FlattenSeq([j \in DOMAIN all |-> all[j].ops]) :
               FlattenSeq([j \in DOMAIN all |-> all[j].ops])[i] = i - 1
<1> DEFINE s == [j \in DOMAIN all |-> all[j].ops]
           n == Len(all)
           End(k) == IF k = 0 THEN 0 ELSE EndOf(all[k])
<1>1. /\ n \in Nat /\ DOMAIN all = 1..n
      /\ \A k \in 1..n : all[k].first \in Nat /\ all[k].ops \in Seq(SerialId)
  <2>1. n \in Nat /\ DOMAIN all = 1..n /\ \A k \in 1..n : all[k] \in BriefBlock
    OBVIOUS
  <2> QED
    BY <2>1 DEF BriefBlock
<1>2. s \in Seq(Seq(SerialId)) /\ Len(s) = n /\ \A k \in 1..n : s[k] = all[k].ops
  BY <1>1
<1> HIDE DEF s
<1>3. PICK f : Flattening(f, s, SerialId)
  BY <1>2, FlatteningExists
<1>4. /\ f[0] = <<>>
      /\ \A k \in 0..n - 1 : f[k + 1] = f[k] \o s[k + 1]
      /\ \A k \in 0..n : f[k] \in Seq(SerialId)
  BY <1>2, <1>3 DEF Flattening
<1> DEFINE G == {k \in 0..n : Numbered(f[k], End(k))}
<1>5. 0 \in G
  BY <1>1, <1>4 DEF Numbered
<1>6. ASSUME NEW k \in 0..n - 1, k \in G PROVE k + 1 \in G
  <2> DEFINE ops == all[k + 1].ops
             e == End(k)
             flat == f[k]
  <2>1. k + 1 \in 1..n /\ k \in Nat /\ k + 1 # 0 /\ k + 1 - 1 = k /\ k \in 0..n /\ k + 1 \in 0..n
        /\ (k + 1 = 1 <=> k = 0)
    BY <1>1
  <2>2. /\ \A i \in 1..Len(ops) : ops[i] = all[k + 1].first + i - 1
        /\ all[k + 1].first = IF k + 1 = 1 THEN 0 ELSE EndOf(all[k + 1 - 1])
    BY <2>1 DEF Continue, InPlace
  <2>3. all[k + 1].first = e /\ e \in Nat
    BY <1>1, <2>1, <2>2
  <2>4. End(k + 1) = e + Len(ops)
    BY <2>1, <2>3 DEF EndOf
  <2>5. f[k + 1] = flat \o ops /\ Numbered(flat, e) /\ flat \in Seq(SerialId) /\ ops \in Seq(SerialId)
    BY <1>1, <1>2, <1>4, <1>6, <2>1
  <2>6. \A i \in 1..Len(ops) : ops[i] = e + i - 1
    BY <2>2, <2>3
  <2> HIDE DEF ops, e, flat
  <2>7. Len(flat \o ops) = e + Len(ops) /\ Len(ops) \in Nat /\ Len(flat) = e
    <3>1. flat \in Seq(SerialId) /\ ops \in Seq(SerialId) /\ Len(flat) = e
      BY <2>5 DEF Numbered
    <3> QED
      BY <3>1
  <2>8. ASSUME NEW i \in 1..e + Len(ops) PROVE (flat \o ops)[i] = i - 1
    <3>1. CASE i <= e
      <4>1. i \in 1..e
        BY <2>3, <2>7, <3>1
      <4>2. (flat \o ops)[i] = flat[i]
        BY <2>5, <2>7, <4>1
      <4> QED
        BY <2>5, <4>1, <4>2 DEF Numbered
    <3>2. CASE i > e
      <4> DEFINE j == i - e
      <4>1. j \in 1..Len(ops) /\ i = e + j /\ j \in Int
        BY <2>3, <2>7, <3>2
      <4>2. (flat \o ops)[i] = ops[j]
        BY <2>3, <2>5, <2>7, <3>2
      <4>3. ops[j] = e + j - 1
        BY <2>6, <4>1
      <4> QED
        BY <2>3, <4>1, <4>2, <4>3
    <3> QED
      BY <2>3, <2>7, <3>1, <3>2
  <2>9. Numbered(f[k + 1], e + Len(ops))
    BY <2>5, <2>7, <2>8 DEF Numbered
  <2> QED
    BY <2>1, <2>4, <2>9
<1> HIDE DEF G
<1>7. 0..n \subseteq G
  <2>1. 0 \in Int /\ n \in Int
    BY <1>1
  <2> HIDE DEF n
  <2> QED
    BY <1>5, <1>6, <2>1, IntervalInduction
<1>8. n \in G
  BY <1>1, <1>7
<1>9. FlattenSeq(s) = f[n] /\ FlattenSeq(s) \in Seq(SerialId)
  BY <1>2, <1>3, FlattensTo
<1>10. DOMAIN FlattenSeq(s) = 1..Len(FlattenSeq(s))
  BY <1>9
<1> QED
  BY <1>8, <1>9, <1>10 DEF G, Numbered, s

LEMMA OrderIsOpsInOrder == Types /\ OrderInv => OpsInOrder
<1> SUFFICES ASSUME Types, OrderInv PROVE OpsInOrder
  OBVIOUS
<1> DEFINE chain == [i \in DOMAIN dbChain |-> [first |-> dbChain[i].first, ops |-> dbChain[i].ops]]
           open == [i \in DOMAIN keeperOpen |-> [first |-> keeperOpen[i].first, ops |-> keeperOpen[i].ops]]
           last == IF blocksPc = "send"
                   THEN <<[first |-> proposed.first, ops |-> proposed.ops]>> ELSE <<>>
           from == DbMaxSerial + 1
<1>1. /\ dbChain \in Seq(ChainBlock) /\ keeperOpen \in Seq(Block) /\ proposed \in Block
      /\ Continue(dbChain, 0, from)
  BY DEF Types, TableTypes, BlockTypes, OuterTypes, OrderInv
<1>2. /\ \A b \in Block : b.first \in Nat /\ b.ops \in Seq(SerialId)
      /\ \A b \in ChainBlock : b.first \in Nat /\ b.ops \in Seq(SerialId)
  BY DEF Block, ChainBlock
<1>3. chain \in Seq(BriefBlock) /\ Continue(chain, 0, from)
  <2>1. chain = Briefly(dbChain)
    BY DEF Briefly, Brief
  <2> HIDE DEF from, chain
  <2> QED
    BY <1>1, <1>2, <2>1, ContinueBriefly
<1>4. \E to : open \in Seq(BriefBlock) /\ Continue(open, from, to)
              /\ (blocksPc = "send" => to = keeperNext)
  <2>1. open = Briefly(keeperOpen)
    BY DEF Briefly, Brief
  <2> HIDE DEF from, open
  <2>2. CASE up
    <3>1. Continue(keeperOpen, from, keeperNext)
      BY <2>2 DEF OrderInv, from
    <3> QED
      BY <1>1, <1>2, <2>1, <3>1, ContinueBriefly
  <2>3. CASE ~up
    <3>1. keeperOpen = <<>> /\ blocksPc # "send" /\ Len(<<>>) = 0
      BY <2>3 DEF OrderInv, Stopped
    <3>2. Continue(keeperOpen, from, from)
      BY <3>1 DEF Continue
    <3> QED
      BY <1>1, <1>2, <2>1, <3>1, <3>2, ContinueBriefly
  <2> QED
    BY <2>2, <2>3
<1>5. PICK to : open \in Seq(BriefBlock) /\ Continue(open, from, to)
                /\ (blocksPc = "send" => to = keeperNext)
  BY <1>4
<1>6. \E end : last \in Seq(BriefBlock) /\ Continue(last, to, end)
  <2>1. CASE blocksPc = "send"
    <3> DEFINE b == [first |-> proposed.first, ops |-> proposed.ops]
    <3>1. b \in BriefBlock /\ b.first = proposed.first /\ b.ops = proposed.ops
      BY <1>1 DEF Block, BriefBlock
    <3>2. InPlace(proposed) /\ proposed.first = to
      BY <1>5, <2>1 DEF OrderInv, AskedOnce, Busy
    <3>3. last = <<b>>
      BY <2>1
    <3> HIDE DEF b, last
    <3>4. InPlace(b) /\ b.first = to
      BY <3>1, <3>2 DEF InPlace
    <3>5. last \in Seq(BriefBlock) /\ Len(last) = 1 /\ last[1] = b /\ last # <<>>
      BY <3>1, <3>3
    <3>6. Continue(last, to, EndOf(b))
      BY <3>4, <3>5 DEF Continue
    <3> QED
      BY <3>5, <3>6
  <2>2. CASE blocksPc # "send"
    <3>1. last = <<>> /\ Len(<<>>) = 0 /\ <<>> \in Seq(BriefBlock)
      BY <2>2
    <3> HIDE DEF last
    <3>2. Continue(last, to, to)
      BY <3>1 DEF Continue
    <3> QED
      BY <3>1, <3>2
  <2> QED
    BY <2>1, <2>2
<1>7. PICK end : last \in Seq(BriefBlock) /\ Continue(last, to, end)
  BY <1>6
<1>8. AllBlocks = chain \o open \o last
  BY DEF AllBlocks
<1> HIDE DEF chain, open, last, from
<1>9. chain \o open \in Seq(BriefBlock) /\ Continue(chain \o open, 0, to)
  BY <1>3, <1>5, ContinueConcat
<1>10. AllBlocks \in Seq(BriefBlock) /\ Continue(AllBlocks, 0, end)
  <2> DEFINE front == chain \o open
  <2>1. front \in Seq(BriefBlock) /\ Continue(front, 0, to) /\ AllBlocks = front \o last
    BY <1>8, <1>9
  <2> HIDE DEF front
  <2> QED
    BY <1>7, <2>1, ContinueConcat
<1> QED
  BY <1>10, FlatInOrder DEF OpsInOrder

(* The priority operations are executed in the order of their serial ids   *)
(* without a gap or a repetition: the committed, open and proposed blocks  *)
(* carry operations 0, 1, 2, ..., whatever the watcher sends again,        *)
(* whichever handlers add it, and across crashes and reverts.              *)
THEOREM OpsAreInOrder == Spec => []OpsInOrder
<1>1. Init => Types /\ OrderInv
  BY TypesInit, OrderInit
<1>2. Types /\ OrderInv /\ [Next]_vars => (Types /\ OrderInv)'
  BY TypesStep, OrderStep
<1>3. Types /\ OrderInv => OpsInOrder
  BY OrderIsOpsInOrder
<1> QED
  BY <1>1, <1>2, <1>3, PTL DEF Spec
-----------------------------------------------------------------------------
(* The operations between the chain and the watcher, while no block is     *)
(* reverted and at most one request of confirmed operations is under way.  *)

NoneReverted == dbReverted = <<>> /\ revertedTxs = <<>>

\* The first operation that is in no block yet; consecutive operations.
NextUp == keeperNext + Len(proposed.ops)
Run(s, from, to) == Len(s) = to - from /\ \A i \in 1..Len(s) : s[i] = from + i - 1

\* The handler of the request under way, from its arrival to its answer.
Sends(h) == handler[h].confirmed
SendersApart ==
    /\ \A h \in Handler :
        /\ Sends(h) => handler[h].ops # {} /\ handler[h].pc \in {"readSerial", "insertOps", "addOps"}
        /\ handler[h].pc = "addOps" => Sends(h)
    /\ \A g, h \in Handler : Sends(g) /\ Sends(h) => g = h

\* The blocks handler has not met an operation that is missing or not the next.
Misplaced == blocksPc \in {"missingOp", "wrongOrder"}

\* Stored are the operations up to c, queued those up to e; the operations of a
\* block that was not sent are gone from the queue.
StoredTo(c) == DbConfirmed = 0..c - 1 /\ DbMaxSerial < c
QueuedTo(e) ==
    \/ blocksPc = "notSent" /\ keeperNext <= e
    \/ /\ blocksPc # "notSent"
       /\ Run(priorityOps, NextUp, e)
       /\ lastProcessed = NextUp - 1 \/ (lastProcessed = NextUp /\ NextUp < e)

\* The request's operations continue what is stored or, once they are stored,
\* what is queued.
Carries(h, c, e) ==
    \E lo, hi \in SerialId :
        /\ handler[h].ops = lo..hi /\ lo <= hi /\ lo <= e
        /\ \/ /\ handler[h].pc \in {"readSerial", "insertOps"}
              /\ e = c /\ (watchNext <= c \/ watchNext <= hi + 1)
           \/ /\ handler[h].pc = "addOps"
              /\ hi < c /\ (c = e \/ c = hi + 1) /\ watchNext <= c
Served(c, e) ==
    \/ (\A h \in Handler : ~Sends(h)) /\ e = c /\ watchNext <= c
    \/ \E h \in Handler : Sends(h) /\ Carries(h, c, e)

OpsTracked ==
    \E c \in 0..MaxSerial + 1 :
        /\ StoredTo(c)
        /\ up => \E e \in 0..c : QueuedTo(e) /\ Served(c, e)

SequenceInv ==
    /\ NoneReverted /\ ~Misplaced /\ SendersApart
    /\ blocksPc \notin {"txs", "send"} => proposed.ops = <<>>
    /\ OpsTracked

LEMMA SerialBounds ==
    /\ MaxSerial \in Int /\ MaxSerial >= -1 /\ 0 \in Int /\ SerialId \subseteq Int
    /\ \A s : s \in SerialId <=> s \in Int /\ 0 <= s /\ s <= MaxSerial
BY SerialAssumption DEF SerialId

\* Consecutive numbers in their order.
LEMMA AscendingRun ==
    ASSUME NEW from \in Int, NEW to \in Int, from <= to, NEW s \in Ascending(from..to - 1)
    PROVE  Run(s, from, to)
<1> DEFINE n == to - from
           Low == {i \in 1..n : s[i] >= from + i - 1}
           High == {j \in 0..n - 1 : s[n - j] <= to - 1 - j}
<1>1. n \in Nat /\ Cardinality(from..to - 1) = n
  <2> DEFINE last == to - 1
  <2>1. last \in Int /\ (from > last => n = 0) /\ (~(from > last) => n = last - from + 1)
    OBVIOUS
  <2> HIDE DEF last
  <2>2. Cardinality(from..last) = IF from > last THEN 0 ELSE last - from + 1
    BY <2>1, FS_Interval
  <2> QED
    BY <2>1, <2>2 DEF last
<1>2. /\ s \in [1..n -> from..to - 1] /\ DOMAIN s = 1..n
      /\ \A i, j \in 1..n : i < j => s[i] < s[j]
  BY <1>1 DEF Ascending, Enumerations
<1>3. Len(s) = n
  BY <1>1, <1>2
<1>4. \A i \in 1..n : s[i] \in Int /\ from <= s[i] /\ s[i] <= to - 1
  BY <1>2
<1> HIDE DEF n
<1>5. n = 0 \/ 1..n \subseteq Low
  <2>1. SUFFICES ASSUME n # 0 PROVE 1..n \subseteq Low
    OBVIOUS
  <2>2. 1 \in Low
    BY <1>1, <1>4, <2>1
  <2>3. ASSUME NEW i \in 1..n - 1, i \in Low PROVE i + 1 \in Low
    <3>1. i \in 1..n /\ i + 1 \in 1..n /\ i < i + 1
      BY <1>1
    <3>2. s[i] < s[i + 1] /\ s[i] \in Int /\ s[i + 1] \in Int /\ s[i] >= from + i - 1
      BY <1>2, <1>4, <2>3, <3>1
    <3> QED
      BY <3>1, <3>2
  <2> HIDE DEF Low
  <2> QED
    BY <1>1, <2>2, <2>3, IntervalInduction
<1>6. n = 0 \/ 0..n - 1 \subseteq High
  <2>1. SUFFICES ASSUME n # 0 PROVE 0..n - 1 \subseteq High
    OBVIOUS
  <2>2. 0 \in High
    <3>1. n \in 1..n /\ n - 0 = n
      BY <1>1, <2>1
    <3> QED
      BY <1>1, <1>4, <2>1, <3>1
  <2>3. ASSUME NEW j \in 0..n - 1 - 1, j \in High PROVE j + 1 \in High
    <3>1. n - j \in 1..n /\ n - (j + 1) \in 1..n /\ n - (j + 1) < n - j
      BY <1>1
    <3>2. s[n - (j + 1)] < s[n - j] /\ s[n - j] \in Int /\ s[n - (j + 1)] \in Int /\ s[n - j] <= to - 1 - j
      BY <1>2, <1>4, <2>3, <3>1
    <3> QED
      BY <1>1, <3>2
  <2> HIDE DEF High
  <2>4. 0 \in Int /\ n - 1 \in Int
    BY <1>1
  <2> QED
    BY <2>2, <2>3, <2>4, IntervalInduction
<1>7. ASSUME NEW i \in 1..n PROVE s[i] = from + i - 1
  <2>1. n # 0 /\ n - i \in 0..n - 1 /\ n - (n - i) = i
    BY <1>1
  <2>2. s[i] >= from + i - 1 /\ s[i] <= to - 1 - (n - i)
    BY <1>5, <1>6, <2>1
  <2>3. to - 1 - (n - i) = from + i - 1
    BY <1>1 DEF n
  <2> QED
    BY <1>4, <2>2, <2>3
<1> QED
  BY <1>3, <1>7 DEF Run, n

LEMMA RunSet ==
    ASSUME NEW s \in Seq(SerialId), NEW from \in Int, NEW to \in Int, Run(s, from, to)
    PROVE  from <= to /\ Len(s) \in Nat /\ Len(s) = to - from /\ ToSet(s) = from..to - 1
<1>1. Len(s) \in Nat /\ Len(s) = to - from /\ DOMAIN s = 1..Len(s)
  BY DEF Run
<1>2. \A i \in 1..Len(s) : s[i] = from + i - 1
  BY DEF Run
<1>3. ToSet(s) = {s[i] : i \in 1..Len(s)}
  BY <1>1 DEF ToSet
<1>4. \A x \in from..to - 1 : x - from + 1 \in 1..Len(s) /\ s[x - from + 1] = x
  BY <1>1, <1>2
<1>5. \A i \in 1..Len(s) : s[i] \in from..to - 1
  BY <1>1, <1>2
<1> QED
  BY <1>1, <1>3, <1>4, <1>5

LEMMA RunJoin ==
    ASSUME NEW s \in Seq(SerialId), NEW t \in Seq(SerialId), NEW from \in Int, NEW mid \in Int, NEW to \in Int,
           Run(s, from, mid), Run(t, mid, to)
    PROVE  Run(s \o t, from, to)
<1>1. IsSeq(s) /\ IsSeq(t) /\ Len(s) \in Nat /\ Len(t) \in Nat
  BY ElementsIn
<1>2. /\ Len(s \o t) = Len(s) + Len(t)
      /\ \A i \in 1..Len(s) : (s \o t)[i] = s[i]
      /\ \A i \in 1..Len(t) : (s \o t)[Len(s) + i] = t[i]
  BY <1>1, Joined
<1> DEFINE u == s \o t
<1> HIDE DEF u
<1>3. /\ Len(s) = mid - from /\ Len(t) = to - mid
      /\ \A i \in 1..Len(s) : s[i] = from + i - 1
      /\ \A i \in 1..Len(t) : t[i] = mid + i - 1
  BY DEF Run
<1>4. Len(u) = to - from
  BY <1>1, <1>2, <1>3 DEF u
<1>5. ASSUME NEW i \in 1..Len(u) PROVE u[i] = from + i - 1
  <2>1. CASE i \in 1..Len(s)
    BY <1>2, <1>3, <2>1 DEF u
  <2>2. CASE i \notin 1..Len(s)
    <3> DEFINE j == i - Len(s)
    <3>1. j \in 1..Len(t) /\ i = Len(s) + j
      BY <1>1, <1>3, <1>4, <2>2
    <3>2. t[j] = mid + j - 1
      BY <1>3, <3>1
    <3> HIDE DEF j
    <3>3. u[i] = t[j]
      BY <1>2, <3>1 DEF u
    <3> QED
      BY <1>1, <1>3, <3>1, <3>2, <3>3
  <2> QED
    BY <2>1, <2>2
<1> QED
  BY <1>4, <1>5 DEF Run, u

LEMMA RunDrop ==
    ASSUME NEW s \in Seq(SerialId), NEW from \in Int, NEW to \in Int, Run(s, from, to), NEW k \in 0..Len(s)
    PROVE  Run(Drop(s, k), from + k, to)
<1>1. IsSeq(s) /\ Len(s) \in Nat
  BY ElementsIn
<1>2. Len(Drop(s, k)) = Len(s) - k /\ \A i \in 1..Len(s) - k : Drop(s, k)[i] = s[k + i]
  BY <1>1, CutInTwo
<1>3. ASSUME NEW i \in 1..Len(s) - k PROVE Drop(s, k)[i] = from + k + i - 1
  <2>1. k + i \in 1..Len(s)
    BY <1>1
  <2>2. s[k + i] = from + (k + i) - 1
    BY <2>1 DEF Run
  <2> QED
    BY <1>1, <1>2, <2>2
<1>4. Len(s) - k = to - (from + k)
  BY <1>1 DEF Run
<1> QED
  BY <1>2, <1>3, <1>4 DEF Run

LEMMA NothingSends ==
    ASSUME NEW h \in Handler, handler[h] = IdleHandler
    PROVE  ~Sends(h) /\ handler[h].pc = "idle" /\ handler[h].ops = {}
BY DEF Sends, IdleHandler

LEMMA SequenceInit == Init => SequenceInv
<1> SUFFICES ASSUME Init PROVE SequenceInv
  OBVIOUS
<1>1. \A h \in Handler : ~Sends(h) /\ handler[h].pc = "idle"
  BY NothingSends DEF Init
<1>2. NoneReverted /\ ~Misplaced /\ proposed.ops = <<>>
  BY DEF Init, NoneReverted, Misplaced, NoBlock
<1>3. SendersApart
  BY <1>1 DEF SendersApart
<1>4. StoredTo(0)
  <2>1. DbConfirmed = {} /\ DbMaxSerial = -1
    BY DEF Init, DbConfirmed, DbMaxSerial
  <2> QED
    BY <2>1 DEF StoredTo
<1>5. QueuedTo(0) /\ Served(0, 0)
  <2>1. NextUp = 0 /\ Len(priorityOps) = 0 /\ lastProcessed = -1
    BY <1>2 DEF Init, NextUp
  <2> QED
    BY <1>1, <2>1 DEF Init, QueuedTo, Run, Served
<1>6. 0 \in 0..MaxSerial + 1
  BY SerialBounds
<1>7. OpsTracked
  BY <1>4, <1>5, <1>6 DEF OpsTracked
<1> QED
  BY <1>2, <1>3, <1>7 DEF SequenceInv

\* The part of the state that the steps of the handlers share.
SameQueue == UNCHANGED <<revertedTxs, lastProcessed, blocksPc, proposed, dbReverted, dbChain, keeperNext, up>>

LEMMA SendersFrame ==
    ASSUME SequenceInv, SameQueue, UNCHANGED <<priorityOps, watchNext>>, DbConfirmed' = DbConfirmed,
           NEW h \in Handler, ~Sends(h), ~handler'[h].confirmed, handler'[h].pc # "addOps",
           \A g \in Handler : g # h => handler'[g] = handler[g]
    PROVE  SequenceInv'
<1>1. /\ \A g \in Handler : g # h => handler'[g] = handler[g]
      /\ \A g \in Handler : handler'[g].confirmed <=> handler[g].confirmed
  BY DEF Sends
<1>2. SendersApart'
  BY <1>1 DEF SequenceInv, SendersApart, Sends
<1>3. NoneReverted' /\ ~Misplaced' /\ (blocksPc' \notin {"txs", "send"} => proposed'.ops = <<>>)
  BY DEF SequenceInv, SameQueue, NoneReverted, Misplaced
<1>4. PICK c \in 0..MaxSerial + 1 : StoredTo(c) /\ (up => \E e \in 0..c : QueuedTo(e) /\ Served(c, e))
  BY DEF SequenceInv, OpsTracked
<1>5. StoredTo(c)'
  BY <1>4 DEF StoredTo, DbMaxSerial, SameQueue
<1>6. ASSUME up' PROVE \E e \in 0..c : QueuedTo(e)' /\ Served(c, e)'
  <2>1. PICK e \in 0..c : QueuedTo(e) /\ Served(c, e)
    BY <1>4, <1>6 DEF SameQueue
  <2>2. QueuedTo(e)'
    BY <2>1 DEF QueuedTo, Run, NextUp, SameQueue
  <2>3. Served(c, e)'
    <3>1. CASE \A g \in Handler : ~Sends(g)
      <4>1. \A g \in Handler : ~Sends(g)'
        BY <1>1, <3>1 DEF Sends
      <4>2. e = c /\ watchNext <= c
        BY <2>1, <3>1 DEF Served
      <4> QED
        BY <4>1, <4>2 DEF Served
    <3>2. CASE \E g \in Handler : Sends(g) /\ Carries(g, c, e)
      <4>1. PICK g \in Handler : Sends(g) /\ Carries(g, c, e)
        BY <3>2
      <4>2. handler'[g] = handler[g]
        BY <1>1, <4>1
      <4>3. Sends(g)' /\ Carries(g, c, e)'
        BY <4>1, <4>2 DEF Sends, Carries
      <4> QED
        BY <4>3 DEF Served
    <3> QED
      BY <2>1, <3>1, <3>2 DEF Served
  <2> QED
    BY <2>2, <2>3
<1>7. OpsTracked'
  BY <1>4, <1>5, <1>6 DEF OpsTracked
<1> QED
  BY <1>2, <1>3, <1>7 DEF SequenceInv

\* A step of the handler that sends: what it carries, and what is stored and queued.
LEMMA SenderStep ==
    ASSUME SequenceInv, SameQueue, up, NEW h \in Handler, handler' = [handler EXCEPT ![h] = handler'[h]],
           DOMAIN handler = Handler,
           \A g \in Handler : g # h => ~Sends(g),
           NEW c \in 0..MaxSerial + 1, DbConfirmed' = 0..c - 1, DbMaxSerial < c,
           NEW e \in 0..c, QueuedTo(e)',
           \/ /\ ~handler'[h].confirmed /\ handler'[h].pc # "addOps"
              /\ e = c /\ watchNext' <= c
           \/ /\ handler'[h].confirmed /\ handler'[h].ops # {}
              /\ handler'[h].pc \in {"readSerial", "insertOps", "addOps"} /\ Carries(h, c, e)'
    PROVE  SequenceInv'
<1>1. \A g \in Handler : g # h => handler'[g] = handler[g]
  OBVIOUS
<1>2. \A g \in Handler : g # h => ~handler'[g].confirmed /\ handler'[g].pc # "addOps"
  BY <1>1 DEF SequenceInv, SendersApart, Sends
<1>3. SendersApart'
  BY <1>2 DEF SendersApart, Sends
<1>4. NoneReverted' /\ ~Misplaced' /\ (blocksPc' \notin {"txs", "send"} => proposed'.ops = <<>>)
  BY DEF SequenceInv, SameQueue, NoneReverted, Misplaced
<1>5. StoredTo(c)'
  BY DEF StoredTo, DbMaxSerial, SameQueue
<1>6. Served(c, e)'
  BY <1>2 DEF Served, Sends
<1>7. OpsTracked'
  BY <1>5, <1>6 DEF OpsTracked
<1> QED
  BY <1>3, <1>4, <1>7 DEF SequenceInv

LEMMA OthersAreQuiet ==
    ASSUME SequenceInv, NEW h \in Handler, Sends(h)
    PROVE  \A g \in Handler : g # h => ~Sends(g)
BY DEF SequenceInv, SendersApart

LEMMA InFlightOne ==
    ASSUME SequenceInv, WatchWindow <= 1, Cardinality(InFlight) < WatchWindow
    PROVE  \A h \in Handler : ~Sends(h)
<1> SUFFICES ASSUME NEW g \in Handler, Sends(g) PROVE FALSE
  OBVIOUS
<1>1. InFlight = {g}
  BY OthersAreQuiet DEF InFlight, Sends, SequenceInv, SendersApart
<1>2. Cardinality(InFlight) = 1
  BY <1>1, FS_Singleton
<1> QED
  BY <1>2, MempoolAssumption

\* What is known when the process runs.
LEMMA Tracked ==
    ASSUME SequenceInv, up
    PROVE  \E c \in 0..MaxSerial + 1 : \E e \in 0..c : StoredTo(c) /\ QueuedTo(e) /\ Served(c, e)
BY DEF SequenceInv, OpsTracked

LEMMA TransactionSteps ==
    ASSUME Types, SequenceInv, NEW h \in Handler,
           \/ \E v \in Variant : ReceiveTx(h, v)
           \/ CheckNonce(h) \/ CheckBatchSize(h) \/ InsertTx(h) \/ InsertTxFails(h) \/ AddTx(h)
    PROVE  SequenceInv'
<1>1. handler \in [Handler -> HandlerState] /\ handler[h] \in HandlerState
  BY DEF Types, HandlerTypes
<1>2. /\ SameQueue /\ UNCHANGED <<priorityOps, watchNext, dbOps>>
      /\ handler[h].pc \in {"idle", "nonce", "size", "insert", "add"}
  BY DEF SameQueue, ReceiveTx, CheckNonce, CheckBatchSize, InsertTx, InsertTxFails, AddTx, queueVars, txVars,
         opVars, blocksVars, dbVars, keeperVars, processVars
<1>3. ~Sends(h)
  BY <1>2 DEF SequenceInv, SendersApart
<1>4. \E new : /\ handler' = [handler EXCEPT ![h] = new] /\ ~new.confirmed /\ new.pc # "addOps"
  <2>1. ~IdleHandler.confirmed /\ IdleHandler.pc # "addOps"
    BY DEF IdleHandler
  <2>2. CASE handler' = [handler EXCEPT ![h] = IdleHandler]
    BY <2>1, <2>2
  <2>3. CASE \E v \in Variant : ReceiveTx(h, v)
    <3>1. PICK v \in Variant : ReceiveTx(h, v)
      BY <2>3
    <3> DEFINE new == [handler[h] EXCEPT !.pc = "nonce", !.variant = v]
    <3>2. handler' = [handler EXCEPT ![h] = new]
      BY <1>1, <3>1 DEF ReceiveTx
    <3>3. ~new.confirmed /\ new.pc # "addOps"
      BY <1>1, <1>3 DEF Sends, HandlerState
    <3> HIDE DEF new
    <3> QED
      BY <3>2, <3>3
  <2>4. CASE CheckNonce(h)
    <3> DEFINE next == [handler[h] EXCEPT !.index = @ + 1]
               checked == [handler[h] EXCEPT !.pc = NextCheck(handler[h].variant)]
    <3>1. \/ handler' = [handler EXCEPT ![h] = IdleHandler]
          \/ handler' = [handler EXCEPT ![h] = next]
          \/ handler' = [handler EXCEPT ![h] = checked]
      BY <1>1, <2>4 DEF CheckNonce, RefuseTx
    <3>2. ~next.confirmed /\ next.pc # "addOps" /\ ~checked.confirmed /\ checked.pc # "addOps"
      BY <1>1, <1>2, <1>3 DEF Sends, HandlerState, NextCheck
    <3> HIDE DEF next, checked
    <3> QED
      BY <2>2, <3>1, <3>2
  <2>5. CASE CheckBatchSize(h)
    <3> DEFINE new == [handler[h] EXCEPT !.pc = "insert"]
    <3>1. \/ handler' = [handler EXCEPT ![h] = IdleHandler]
          \/ handler' = [handler EXCEPT ![h] = new]
      BY <1>1, <2>5 DEF CheckBatchSize, RefuseTx
    <3>2. ~new.confirmed /\ new.pc # "addOps"
      BY <1>1, <1>3 DEF Sends, HandlerState
    <3> HIDE DEF new
    <3> QED
      BY <2>2, <3>1, <3>2
  <2>6. CASE InsertTx(h)
    <3> DEFINE new == [handler[h] EXCEPT !.pc = "add"]
    <3>1. handler' = [handler EXCEPT ![h] = new]
      BY <1>1, <2>6 DEF InsertTx
    <3>2. ~new.confirmed /\ new.pc # "addOps"
      BY <1>1, <1>3 DEF Sends, HandlerState
    <3> HIDE DEF new
    <3> QED
      BY <3>1, <3>2
  <2>7. CASE InsertTxFails(h) \/ AddTx(h)
    BY <2>2, <2>7 DEF InsertTxFails, RefuseTx, AddTx
  <2> QED
    BY <2>3, <2>4, <2>5, <2>6, <2>7
<1>5. PICK new : handler' = [handler EXCEPT ![h] = new] /\ ~new.confirmed /\ new.pc # "addOps"
  BY <1>4
<1>6. handler'[h] = new /\ \A g \in Handler : g # h => handler'[g] = handler[g]
  BY <1>1, <1>5
<1>7. DbConfirmed' = DbConfirmed
  BY <1>2 DEF DbConfirmed
<1> QED
  BY <1>2, <1>3, <1>5, <1>6, <1>7, SendersFrame

LEMMA ReceiveConfirmedSteps ==
    ASSUME Types, SequenceInv, WatchWindow <= 1, NEW h \in Handler, ReceiveConfirmedOps(h)
    PROVE  SequenceInv'
<1>1. handler \in [Handler -> HandlerState] /\ handler[h] \in HandlerState /\ watchNext \in Int
  BY SerialBounds DEF Types, HandlerTypes, OuterTypes
<1>2. \A g \in Handler : ~Sends(g)
  BY InFlightOne DEF ReceiveConfirmedOps
<1>3. PICK lo \in SerialId, hi \in SerialId :
        /\ lo <= watchNext /\ lo <= hi /\ watchNext' = Largest(watchNext, hi + 1)
        /\ handler' = [handler EXCEPT ![h].pc = "readSerial", ![h].ops = lo..hi, ![h].confirmed = TRUE]
  BY DEF ReceiveConfirmedOps
<1>4. up /\ SameQueue /\ UNCHANGED <<priorityOps, dbOps>>
  BY DEF ReceiveConfirmedOps, SameQueue, queueVars, txVars, opVars, blocksVars, dbVars, keeperVars, processVars
<1>5. PICK c \in 0..MaxSerial + 1 : \E e \in 0..c : StoredTo(c) /\ QueuedTo(e) /\ Served(c, e)
  BY <1>4, Tracked
<1>6. PICK e \in 0..c : StoredTo(c) /\ QueuedTo(e) /\ Served(c, e)
  BY <1>5
<1>7. e = c /\ watchNext <= c
  BY <1>2, <1>6 DEF Served
<1>8. lo \in Int /\ hi \in Int /\ c \in Int
  BY SerialBounds
<1>9. handler'[h].confirmed /\ handler'[h].ops = lo..hi /\ handler'[h].pc = "readSerial"
  BY <1>1, <1>3 DEF HandlerState
<1>10. watchNext' <= c \/ watchNext' <= hi + 1
  BY <1>1, <1>3, <1>7, <1>8 DEF Largest
<1>11. Carries(h, c, e)'
  BY <1>1, <1>3, <1>7, <1>8, <1>9, <1>10 DEF Carries
<1>12. handler'[h].ops # {}
  <2>1. lo \in lo..hi
    BY <1>3, <1>8
  <2> QED
    BY <1>9, <2>1
<1>13. handler' = [handler EXCEPT ![h] = handler'[h]] /\ DOMAIN handler = Handler
  BY <1>1, <1>3
<1>14. QueuedTo(e)'
  BY <1>4, <1>6 DEF QueuedTo, Run, NextUp, SameQueue
<1>15. DbConfirmed' = 0..c - 1 /\ DbMaxSerial < c
  BY <1>4, <1>6 DEF StoredTo, DbConfirmed
<1> QED
  BY <1>2, <1>4, <1>9, <1>11, <1>12, <1>13, <1>14, <1>15, SenderStep

\* The requests of unconfirmed operations leave the queue alone.
LEMMA UnconfirmedSteps ==
    ASSUME Types, SequenceInv, NEW h \in Handler, ~Sends(h),
           ReceiveUnconfirmedOp(h) \/ ReadMaxSerial(h) \/ InsertOps(h) \/ OpsFail(h)
    PROVE  SequenceInv'
<1>1. handler \in [Handler -> HandlerState] /\ handler[h] \in HandlerState /\ handler[h].confirmed = FALSE
  BY DEF Types, HandlerTypes, Sends, HandlerState
<1>2. SameQueue /\ UNCHANGED <<priorityOps, watchNext>>
  BY <1>1 DEF SameQueue, ReceiveUnconfirmedOp, ReadMaxSerial, InsertOps, OpsFail, queueVars, txVars,
              opVars, blocksVars, dbVars, keeperVars, processVars
<1>3. DbConfirmed' = DbConfirmed
  <2>1. CASE InsertOps(h)
    <3>1. dbOps' = [s \in SerialId |-> IF s \notin handler[h].ops \/ dbOps[s] = "confirmed" THEN dbOps[s]
                                       ELSE "unconfirmed"]
      BY <1>1, <2>1 DEF InsertOps
    <3> QED
      BY <3>1 DEF DbConfirmed
  <2>2. CASE ~InsertOps(h)
    <3>1. dbOps' = dbOps
      BY <2>2 DEF ReceiveUnconfirmedOp, ReadMaxSerial, OpsFail, dbVars
    <3> QED
      BY <3>1 DEF DbConfirmed
  <2> QED
    BY <2>1, <2>2
<1>4. \E new : /\ handler' = [handler EXCEPT ![h] = new] /\ ~new.confirmed /\ new.pc # "addOps"
  <2>1. ~IdleHandler.confirmed /\ IdleHandler.pc # "addOps"
    BY DEF IdleHandler
  <2>2. CASE handler' = [handler EXCEPT ![h] = IdleHandler]
    BY <2>1, <2>2
  <2>3. CASE ReceiveUnconfirmedOp(h)
    <3>1. PICK s \in SerialId : handler' = [handler EXCEPT ![h].pc = "readSerial", ![h].ops = {s}]
      BY <2>3 DEF ReceiveUnconfirmedOp
    <3> DEFINE new == [handler[h] EXCEPT !.pc = "readSerial", !.ops = {s}]
    <3>2. handler' = [handler EXCEPT ![h] = new]
      BY <1>1, <3>1
    <3>3. ~new.confirmed /\ new.pc # "addOps"
      BY <1>1 DEF HandlerState
    <3> HIDE DEF new
    <3> QED
      BY <3>2, <3>3
  <2>4. CASE ReadMaxSerial(h)
    <3> DEFINE kept == {s \in handler[h].ops : s > DbMaxSerial}
               new == [handler[h] EXCEPT !.pc = "insertOps", !.ops = kept]
    <3>1. \/ handler' = [handler EXCEPT ![h] = IdleHandler]
          \/ handler' = [handler EXCEPT ![h] = new]
      BY <1>1, <2>4 DEF ReadMaxSerial
    <3>2. ~new.confirmed /\ new.pc # "addOps"
      BY <1>1 DEF HandlerState
    <3> HIDE DEF new
    <3> QED
      BY <2>2, <3>1, <3>2
  <2>5. CASE InsertOps(h) \/ OpsFail(h)
    BY <1>1, <2>2, <2>5 DEF InsertOps, QueuesOps, OpsFail
  <2> QED
    BY <2>3, <2>4, <2>5
<1>5. PICK new : handler' = [handler EXCEPT ![h] = new] /\ ~new.confirmed /\ new.pc # "addOps"
  BY <1>4
<1>6. handler'[h] = new /\ \A g \in Handler : g # h => handler'[g] = handler[g]
  BY <1>1, <1>5
<1> QED
  BY <1>2, <1>3, <1>5, <1>6, SendersFrame

\* What the handler that sends knows before each of its steps.
LEMMA SenderKnows ==
    ASSUME Types, OrderInv, SequenceInv, up, NEW h \in Handler, Sends(h)
    PROVE  /\ \E c \in 0..MaxSerial + 1 : \E e \in 0..c : StoredTo(c) /\ QueuedTo(e) /\ Carries(h, c, e)
           /\ \A g \in Handler : g # h => ~Sends(g)
           /\ handler \in [Handler -> HandlerState] /\ handler[h] \in HandlerState
           /\ DbMaxSerial \in Int /\ watchNext \in Int
<1>1. PICK c \in 0..MaxSerial + 1 : \E e \in 0..c : StoredTo(c) /\ QueuedTo(e) /\ Served(c, e)
  BY Tracked
<1>2. PICK e \in 0..c : StoredTo(c) /\ QueuedTo(e) /\ Served(c, e)
  BY <1>1
<1>3. \A g \in Handler : g # h => ~Sends(g)
  BY OthersAreQuiet
<1>4. Carries(h, c, e)
  BY <1>2, <1>3 DEF Served
<1>5. /\ handler \in [Handler -> HandlerState] /\ handler[h] \in HandlerState
      /\ DbMaxSerial \in Int /\ watchNext \in Int
  <2>1. DbMaxSerial \in SerialId \cup {-1}
    BY DbMaxSerialTyped DEF Types, OrderInv
  <2> QED
    BY <2>1, SerialBounds DEF Types, HandlerTypes, OuterTypes
<1> QED
  BY <1>2, <1>3, <1>4, <1>5

LEMMA ReadMaxSerialSends ==
    ASSUME Types, OrderInv, SequenceInv, NEW h \in Handler, Sends(h), ReadMaxSerial(h)
    PROVE  SequenceInv'
<1>1. up /\ handler[h].pc = "readSerial" /\ SameQueue /\ UNCHANGED <<priorityOps, dbOps, watchNext>>
  BY DEF ReadMaxSerial, SameQueue, queueVars, txVars, opVars, blocksVars, dbVars, keeperVars, processVars
<1>2. /\ \A g \in Handler : g # h => ~Sends(g)
      /\ handler \in [Handler -> HandlerState] /\ handler[h] \in HandlerState
      /\ DbMaxSerial \in Int /\ watchNext \in Int
  BY <1>1, SenderKnows
<1>3. PICK c \in 0..MaxSerial + 1 : \E e \in 0..c : StoredTo(c) /\ QueuedTo(e) /\ Carries(h, c, e)
  BY <1>1, SenderKnows
<1>4. PICK e \in 0..c : StoredTo(c) /\ QueuedTo(e) /\ Carries(h, c, e)
  BY <1>3
<1>5. PICK lo \in SerialId, hi \in SerialId :
        /\ handler[h].ops = lo..hi /\ lo <= hi /\ lo <= e
        /\ e = c /\ (watchNext <= c \/ watchNext <= hi + 1)
  BY <1>1, <1>4 DEF Carries
<1>6. lo \in Int /\ hi \in Int /\ c \in Int
  BY SerialBounds
<1> DEFINE m == DbMaxSerial
           kept == {s \in handler[h].ops : s > DbMaxSerial}
           new == IF kept = {} THEN IdleHandler ELSE [handler[h] EXCEPT !.pc = "insertOps", !.ops = kept]
<1>7. handler' = [handler EXCEPT ![h] = new]
  BY <1>2 DEF ReadMaxSerial
<1>8. handler'[h] = new /\ handler' = [handler EXCEPT ![h] = handler'[h]] /\ DOMAIN handler = Handler
  BY <1>2, <1>7
<1>9. QueuedTo(e)' /\ DbConfirmed' = 0..c - 1 /\ DbMaxSerial < c
  BY <1>1, <1>4 DEF QueuedTo, Run, NextUp, SameQueue, StoredTo, DbConfirmed
<1>10. CASE kept = {}
  <2>1. ~handler'[h].confirmed /\ handler'[h].pc # "addOps"
    BY <1>8, <1>10 DEF IdleHandler
  <2>2. hi \notin kept /\ hi \in handler[h].ops
    BY <1>5, <1>6, <1>10
  <2>3. hi <= m
    BY <1>2, <1>6, <2>2
  <2> HIDE DEF m, kept, new
  <2>4. m < c /\ m \in Int
    BY <1>2, <1>9 DEF m
  <2>5. watchNext' <= c
    BY <1>1, <1>2, <1>5, <1>6, <2>3, <2>4
  <2> QED
    BY <1>1, <1>2, <1>5, <1>8, <1>9, <2>1, <2>5, SenderStep
<1>11. CASE kept # {}
  <2> DEFINE low == Largest(lo, m + 1)
  <2>1. /\ handler'[h].pc = "insertOps" /\ handler'[h].ops = kept /\ handler'[h].confirmed
    BY <1>2, <1>8, <1>11 DEF HandlerState, Sends
  <2>2. m \in Int /\ m < c
    BY <1>2, <1>9
  <2>3. kept = {s \in lo..hi : s > m}
    BY <1>5
  <2> HIDE DEF m, new
  <2>4. low \in Int /\ lo <= low /\ low <= e /\ (low = lo \/ low = m + 1) /\ m < low
    BY <1>5, <1>6, <2>2 DEF Largest
  <2> HIDE DEF low
  <2>5. kept = low..hi
    <3>1. \A s \in lo..hi : s > m <=> s >= low
      BY <1>6, <2>2, <2>4
    <3> QED
      BY <1>6, <2>3, <2>4, <3>1
  <2>6. low <= hi
    BY <1>6, <1>11, <2>4, <2>5
  <2>7. low \in SerialId
    BY <1>5, <1>6, <2>4, <2>6, SerialBounds
  <2>8. Carries(h, c, e)'
    BY <1>1, <1>5, <2>1, <2>4, <2>5, <2>6, <2>7 DEF Carries
  <2> QED
    BY <1>1, <1>2, <1>8, <1>9, <1>11, <2>1, <2>8, SenderStep
<1> QED
  BY <1>10, <1>11

LEMMA OpsFailSends ==
    ASSUME Types, OrderInv, SequenceInv, NEW h \in Handler, Sends(h), OpsFail(h)
    PROVE  SequenceInv'
<1>1. /\ up /\ handler[h].pc \in {"readSerial", "insertOps"} /\ SameQueue /\ UNCHANGED <<priorityOps, dbOps>>
      /\ handler' = [handler EXCEPT ![h] = IdleHandler]
  BY DEF OpsFail, SameQueue, queueVars, txVars, opVars, blocksVars, dbVars, keeperVars, processVars
<1>2. /\ \A g \in Handler : g # h => ~Sends(g)
      /\ handler \in [Handler -> HandlerState] /\ watchNext \in Int
  BY <1>1, SenderKnows
<1>3. PICK c \in 0..MaxSerial + 1 : \E e \in 0..c : StoredTo(c) /\ QueuedTo(e) /\ Carries(h, c, e)
  BY <1>1, SenderKnows
<1>4. PICK e \in 0..c : StoredTo(c) /\ QueuedTo(e) /\ Carries(h, c, e)
  BY <1>3
<1>5. PICK lo \in SerialId, hi \in SerialId : handler[h].ops = lo..hi /\ lo <= hi /\ lo <= e /\ e = c
  BY <1>1, <1>4 DEF Carries
<1>6. lo \in Int /\ hi \in Int /\ c \in Int
  BY SerialBounds
<1>7. PICK first \in handler[h].ops :
        (\A s \in handler[h].ops : first <= s) /\ watchNext' = Smallest(watchNext, first)
  BY DEF OpsFail, Sends
<1>8. watchNext' <= c
  <2>1. first \in Int /\ first <= lo
    BY <1>5, <1>6, <1>7
  <2> QED
    BY <1>2, <1>5, <1>6, <1>7, <2>1 DEF Smallest
<1>9. ~handler'[h].confirmed /\ handler'[h].pc # "addOps"
  BY <1>1, <1>2 DEF IdleHandler
<1>10. handler' = [handler EXCEPT ![h] = handler'[h]] /\ DOMAIN handler = Handler
  BY <1>1, <1>2
<1>11. QueuedTo(e)' /\ DbConfirmed' = 0..c - 1 /\ DbMaxSerial < c
  BY <1>1, <1>4 DEF QueuedTo, Run, NextUp, SameQueue, StoredTo, DbConfirmed
<1> QED
  BY <1>1, <1>2, <1>5, <1>8, <1>9, <1>10, <1>11, SenderStep

LEMMA InsertOpsSends ==
    ASSUME Types, OrderInv, SequenceInv, NEW h \in Handler, Sends(h), InsertOps(h)
    PROVE  SequenceInv'
<1>1. up /\ handler[h].pc = "insertOps" /\ SameQueue /\ UNCHANGED <<priorityOps, watchNext>>
  BY DEF InsertOps, SameQueue, queueVars, txVars, opVars, blocksVars, dbVars, keeperVars, processVars
<1>2. /\ \A g \in Handler : g # h => ~Sends(g)
      /\ handler \in [Handler -> HandlerState] /\ handler[h] \in HandlerState
      /\ DbMaxSerial \in Int /\ watchNext \in Int
  BY <1>1, SenderKnows
<1>3. PICK c \in 0..MaxSerial + 1 : \E e \in 0..c : StoredTo(c) /\ QueuedTo(e) /\ Carries(h, c, e)
  BY <1>1, SenderKnows
<1>4. PICK e \in 0..c : StoredTo(c) /\ QueuedTo(e) /\ Carries(h, c, e)
  BY <1>3
<1>5. PICK lo \in SerialId, hi \in SerialId :
        /\ handler[h].ops = lo..hi /\ lo <= hi /\ lo <= e
        /\ e = c /\ (watchNext <= c \/ watchNext <= hi + 1)
  BY <1>1, <1>4 DEF Carries
<1>6. /\ lo \in Int /\ 0 <= lo /\ hi \in Int /\ hi <= MaxSerial /\ c \in Int /\ 0 <= c
      /\ c <= MaxSerial + 1 /\ MaxSerial \in Int
  BY SerialBounds
<1> DEFINE d == Largest(c, hi + 1)
           new == [handler[h] EXCEPT !.pc = "addOps"]
<1>7. /\ d \in 0..MaxSerial + 1 /\ c <= d /\ hi < d /\ (d = c \/ d = hi + 1)
  BY <1>6 DEF Largest
<1>8. handler' = [handler EXCEPT ![h] = new]
  BY <1>2 DEF InsertOps, QueuesOps, Sends
<1>9. /\ handler'[h].pc = "addOps" /\ handler'[h].ops = lo..hi /\ handler'[h].confirmed
      /\ handler' = [handler EXCEPT ![h] = handler'[h]] /\ DOMAIN handler = Handler
  BY <1>2, <1>5, <1>8 DEF HandlerState, Sends
<1> HIDE DEF d, new
<1>10. DbConfirmed' = 0..d - 1
  <2>1. dbOps' = [s \in SerialId |-> IF s \notin handler[h].ops \/ dbOps[s] = "confirmed" THEN dbOps[s]
                                     ELSE "confirmed"]
    BY DEF InsertOps, Sends
  <2>2. DbConfirmed' = DbConfirmed \cup (SerialId \cap handler[h].ops)
    BY <2>1 DEF DbConfirmed
  <2>3. DbConfirmed' = 0..c - 1 \cup (SerialId \cap (lo..hi))
    BY <1>4, <1>5, <2>2 DEF StoredTo
  <2>4. \A s : s \in DbConfirmed' <=> s \in 0..d - 1
    BY <1>5, <1>6, <1>7, <2>3, SerialBounds
  <2> QED
    BY <2>4
<1>11. QueuedTo(e)' /\ DbMaxSerial < d /\ e \in 0..d
  <2>1. QueuedTo(e)' /\ DbMaxSerial < c
    BY <1>1, <1>4 DEF QueuedTo, Run, NextUp, SameQueue, StoredTo
  <2> QED
    BY <1>2, <1>5, <1>6, <1>7, <2>1
<1>12. Carries(h, d, e)'
  <2>1. watchNext' <= d
    BY <1>1, <1>2, <1>5, <1>6, <1>7
  <2> QED
    BY <1>5, <1>7, <1>9, <2>1 DEF Carries
<1>13. handler'[h].ops # {}
  <2>1. lo \in lo..hi
    BY <1>5, <1>6
  <2> QED
    BY <1>9, <2>1
<1> QED
  BY <1>1, <1>2, <1>7, <1>9, <1>10, <1>11, <1>12, <1>13, SenderStep

\* The operations that are added are those stored and not queued yet.
LEMMA AddOpsQueues ==
    ASSUME Types, NEW h \in Handler, AddOps(h), blocksPc # "notSent",
           NEW c \in 0..MaxSerial + 1, NEW e \in 0..c, QueuedTo(e), Carries(h, c, e)
    PROVE  QueuedTo(c)'
<1>1. handler[h].pc = "addOps" /\ SameQueue
  BY DEF AddOps, SameQueue, txVars, blocksVars, dbVars, keeperVars, processVars
<1>2. PICK lo \in SerialId, hi \in SerialId :
        /\ handler[h].ops = lo..hi /\ lo <= hi /\ lo <= e
        /\ hi < c /\ (c = e \/ c = hi + 1) /\ watchNext <= c
  BY <1>1 DEF Carries
<1>3. /\ lo \in Int /\ 0 <= lo /\ hi \in Int /\ hi <= MaxSerial /\ c \in Int /\ c <= MaxSerial + 1
      /\ MaxSerial \in Int /\ e \in Int /\ 0 <= e /\ e <= c
  BY SerialBounds
<1>4. NextUp \in Int /\ priorityOps \in Seq(SerialId) /\ Run(priorityOps, NextUp, e)
  <2>1. keeperNext \in Int /\ proposed.ops \in Seq(SerialId)
    BY DEF Types, OuterTypes, BlockTypes, Block
  <2> QED
    BY <2>1 DEF NextUp, Types, QueueTypes, QueuedTo
<1> DEFINE new == FreshOps(handler[h].ops, priorityOps, lastProcessed)
           next == NextUp
<1>5. new = e..c - 1
  <2>1. next <= e /\ ToSet(priorityOps) = next..e - 1
    BY <1>3, <1>4, RunSet
  <2>2. lastProcessed = next - 1 \/ (lastProcessed = next /\ next < e)
    BY DEF QueuedTo
  <2>3. new = {s \in lo..hi : s > lastProcessed /\ s \notin next..e - 1}
    BY <1>2, <2>1 DEF FreshOps
  <2>4. next \in Int
    BY <1>4
  <2> HIDE DEF next, new
  <2>5. \A s \in lo..hi : s > lastProcessed /\ s \notin next..e - 1 <=> s >= e
    BY <1>3, <2>1, <2>2, <2>4
  <2>6. \A s : s \in new <=> s \in e..c - 1
    BY <1>2, <1>3, <2>3, <2>5
  <2> QED
    BY <2>6
<1> HIDE DEF next
<1>6. PICK fresh \in BySerial(new) : priorityOps' = priorityOps \o fresh
  BY DEF AddOps
<1> HIDE DEF new
<1>7. fresh \in Seq(SerialId) /\ Run(fresh, e, c)
  <2>1. e..c - 1 \subseteq SerialId
    BY <1>3, SerialBounds
  <2>2. fresh \in Seq(SerialId)
    BY <1>5, <1>6, <2>1, SortedIn
  <2>3. Run(fresh, e, c)
    BY <1>3, <1>5, <1>6, AscendingRun DEF BySerial
  <2> QED
    BY <2>2, <2>3
<1>8. Run(priorityOps', NextUp, c)
  BY <1>3, <1>4, <1>6, <1>7, RunJoin
<1>9. QueuedTo(c)'
  <2>1. lastProcessed' = lastProcessed /\ NextUp' = NextUp
    BY <1>1 DEF SameQueue, NextUp
  <2>2. lastProcessed = NextUp - 1 \/ (lastProcessed = NextUp /\ NextUp < c)
    <3>1. lastProcessed = NextUp - 1 \/ (lastProcessed = NextUp /\ NextUp < e)
      BY DEF QueuedTo
    <3> QED
      BY <1>3, <1>4, <3>1
  <2> QED
    BY <1>1, <1>8, <2>1, <2>2 DEF QueuedTo, Run, SameQueue
<1> QED
  BY <1>9

LEMMA AddOpsSequence ==
    ASSUME Types, OrderInv, SequenceInv, NEW h \in Handler, AddOps(h)
    PROVE  SequenceInv'
<1>1. /\ up /\ handler[h].pc = "addOps" /\ SameQueue /\ UNCHANGED <<dbOps, watchNext>>
      /\ handler' = [handler EXCEPT ![h] = IdleHandler]
  BY DEF AddOps, SameQueue, txVars, blocksVars, dbVars, keeperVars, processVars
<1>2. Sends(h)
  BY <1>1 DEF SequenceInv, SendersApart
<1>3. /\ \A g \in Handler : g # h => ~Sends(g)
      /\ handler \in [Handler -> HandlerState] /\ watchNext \in Int
  BY <1>1, <1>2, SenderKnows
<1>4. PICK c \in 0..MaxSerial + 1 : \E e \in 0..c : StoredTo(c) /\ QueuedTo(e) /\ Carries(h, c, e)
  BY <1>1, <1>2, SenderKnows
<1>5. PICK e \in 0..c : StoredTo(c) /\ QueuedTo(e) /\ Carries(h, c, e)
  BY <1>4
<1>6. PICK lo \in SerialId, hi \in SerialId :
        /\ handler[h].ops = lo..hi /\ lo <= hi /\ lo <= e
        /\ hi < c /\ (c = e \/ c = hi + 1) /\ watchNext <= c
  BY <1>1, <1>5 DEF Carries
<1>7. /\ lo \in Int /\ 0 <= lo /\ hi \in Int /\ hi <= MaxSerial /\ c \in Int /\ c <= MaxSerial + 1
      /\ MaxSerial \in Int /\ e \in Int /\ 0 <= e /\ e <= c
  BY SerialBounds
<1>8. QueuedTo(c)'
  <2>1. CASE blocksPc = "notSent"
    <3>1. keeperNext \in Int /\ keeperNext <= e
      BY <1>5, <2>1 DEF QueuedTo, Types, OuterTypes
    <3> QED
      BY <1>1, <1>7, <2>1, <3>1 DEF QueuedTo, SameQueue
  <2> QED
    BY <1>5, <2>1, AddOpsQueues
<1>9. ~handler'[h].confirmed /\ handler'[h].pc # "addOps"
  BY <1>1, <1>3 DEF IdleHandler
<1>10. handler' = [handler EXCEPT ![h] = handler'[h]] /\ DOMAIN handler = Handler
  BY <1>1, <1>3
<1>11. DbConfirmed' = 0..c - 1 /\ DbMaxSerial < c /\ watchNext' <= c /\ c \in 0..c
  BY <1>1, <1>5, <1>6, <1>7 DEF StoredTo, DbConfirmed
<1> QED
  BY <1>1, <1>3, <1>8, <1>9, <1>10, <1>11, SenderStep

-----------------------------------------------------------------------------
(* The blocks handler, the state keeper and the process.                   *)

\* Blocks that continue one another end between the first one and the last.
LEMMA ContinueBounds ==
    ASSUME NEW blocks \in Seq(Block), NEW from \in Int, NEW to \in Int, Continue(blocks, from, to), blocks # <<>>
    PROVE  /\ EndOf(Head(blocks)) \in Int /\ from <= EndOf(Head(blocks))
           /\ \A b \in ToSet(blocks) : EndOf(Head(blocks)) <= EndOf(b) /\ EndOf(b) \in Int
           /\ EndOf(Head(blocks)) <= to
<1> DEFINE n == Len(blocks)
           S == {i \in Int : i \in 1..n => EndOf(blocks[1]) <= EndOf(blocks[i])}
<1>1. n \in Nat /\ n # 0 /\ DOMAIN blocks = 1..n /\ Head(blocks) = blocks[1] /\ 1 \in 1..n /\ n \in 1..n
  BY ElementsIn
<1>2. \A i \in 1..n : blocks[i] \in Block
  BY <1>1, ElementOfSeq
<1>3. ASSUME NEW i \in 1..n
      PROVE  blocks[i].first \in Nat /\ Len(blocks[i].ops) \in Nat /\ EndOf(blocks[i]) \in Int
             /\ blocks[i].first <= EndOf(blocks[i])
  <2>1. blocks[i].first \in Nat /\ Len(blocks[i].ops) \in Nat
    BY <1>2 DEF Block
  <2> QED
    BY <2>1 DEF EndOf
<1>4. \A i \in 1..n : i # 1 => blocks[i].first = EndOf(blocks[i - 1])
  BY DEF Continue
<1>5. blocks[1].first = from /\ to = EndOf(blocks[n])
  BY <1>1 DEF Continue
<1> HIDE DEF n
<1>6. 1 \in S
  BY <1>1, <1>3
<1>7. ASSUME NEW i \in 1..n - 1, i \in S PROVE i + 1 \in S
  <2>1. i \in 1..n /\ i + 1 \in 1..n /\ i + 1 # 1 /\ (i + 1) - 1 = i
    BY <1>1
  <2>2. blocks[i + 1].first = EndOf(blocks[i])
    BY <1>4, <2>1
  <2>3. EndOf(blocks[1]) <= EndOf(blocks[i])
    BY <1>7, <2>1
  <2>4. EndOf(blocks[1]) <= EndOf(blocks[i + 1])
    BY <1>1, <1>3, <2>1, <2>2, <2>3
  <2> QED
    BY <2>1, <2>4
<1> HIDE DEF S
<1>8. 1..n \subseteq S
  <2>1. 1 \in Int /\ n \in Int
    BY <1>1
  <2> QED
    BY <1>6, <1>7, <2>1, IntervalInduction
<1>9. \A i \in 1..n : EndOf(blocks[1]) <= EndOf(blocks[i])
  BY <1>8 DEF S
<1> QED
  BY <1>1, <1>3, <1>5, <1>9 DEF ToSet

\* A step that leaves the handlers and what is stored alone.
LEMMA QueueFrame ==
    ASSUME SequenceInv, up, UNCHANGED <<handler, dbOps, dbReverted, watchNext>>, revertedTxs' = <<>>, ~Misplaced',
           blocksPc' \notin {"txs", "send"} => proposed'.ops = <<>>,
           \A c \in 0..MaxSerial + 1 : \A e \in 0..c :
                StoredTo(c) /\ QueuedTo(e) => DbMaxSerial' < c /\ QueuedTo(e)'
    PROVE  SequenceInv'
<1>1. PICK c \in 0..MaxSerial + 1 : \E e \in 0..c : StoredTo(c) /\ QueuedTo(e) /\ Served(c, e)
  BY Tracked
<1>2. PICK e \in 0..c : StoredTo(c) /\ QueuedTo(e) /\ Served(c, e)
  BY <1>1
<1>3. DbMaxSerial' < c /\ QueuedTo(e)'
  BY <1>2
<1>4. StoredTo(c)'
  BY <1>2, <1>3 DEF StoredTo, DbConfirmed
<1>5. Served(c, e)'
  <2>1. \A h \in Handler : (Sends(h)' <=> Sends(h)) /\ (Carries(h, c, e)' <=> Carries(h, c, e))
    BY DEF Sends, Carries
  <2>2. watchNext' = watchNext
    OBVIOUS
  <2> QED
    BY <1>2, <2>1, <2>2 DEF Served
<1>6. OpsTracked'
  BY <1>3, <1>4, <1>5 DEF OpsTracked
<1>7. SendersApart' /\ NoneReverted'
  BY DEF SequenceInv, SendersApart, Sends, NoneReverted
<1> QED
  BY <1>6, <1>7 DEF SequenceInv

\* Steps that leave the queue alone, too.
LEMMA SameQueueFrame ==
    ASSUME SequenceInv, up, UNCHANGED <<handler, dbOps, dbReverted, dbChain, watchNext, revertedTxs>>,
           UNCHANGED opVars, NextUp' = NextUp, ~Misplaced',
           blocksPc = "notSent" => UNCHANGED <<blocksPc, keeperNext>>,
           blocksPc # "notSent" => blocksPc' # "notSent",
           blocksPc' \notin {"txs", "send"} => proposed'.ops = <<>>
    PROVE  SequenceInv'
<1>1. revertedTxs' = <<>> /\ DbMaxSerial' = DbMaxSerial
  BY DEF SequenceInv, NoneReverted, DbMaxSerial
<1>2. ASSUME NEW c \in 0..MaxSerial + 1, NEW e \in 0..c, StoredTo(c), QueuedTo(e)
      PROVE  DbMaxSerial' < c /\ QueuedTo(e)'
  BY <1>1, <1>2 DEF StoredTo, QueuedTo, Run, opVars
<1> QED
  BY <1>1, <1>2, QueueFrame

\* What the first k operations of the queue are, and what is left of it.
LEMMA FirstSelected ==
    ASSUME NEW q \in Seq(SerialId), NEW from \in Int, NEW to \in Int, Run(q, from, to), NEW k \in 0..Len(q),
           NEW ops \in SelectedOps(q, k, from)
    PROVE  Len(ops) = k /\ ops \in Seq(SerialId) /\ \A i \in 1..k : ops[i] = from + i - 1
<1>1. Len(q) \in Nat /\ DOMAIN q = 1..Len(q)
  BY ElementsIn
<1>2. \A i \in 1..k : q[i] = from + i - 1
  BY <1>1 DEF Run
<1>3. {i \in 1..k : q[i] >= from} = 1..k
  BY <1>1, <1>2
<1>4. ops \in Selections(q, 1..k) /\ InOrder(ops, from)
  BY <1>3 DEF SelectedOps
<1>5. PICK p \in Ascending(1..k) : ops = [j \in DOMAIN p |-> q[p[j]]]
  BY <1>4 DEF Selections
<1>6. ops \in Seq(SerialId) /\ 1..k \subseteq DOMAIN q
  <2>1. 1..k \subseteq DOMAIN q
    BY <1>1
  <2> QED
    BY <1>4, <2>1, SelectionIn
<1>7. Len(ops) = k
  <2>1. k \in Nat /\ Cardinality(1..k) = k
    <3>1. k \in Nat /\ (1 > k => k = 0) /\ k - 1 + 1 = k
      BY <1>1
    <3>2. Cardinality(1..k) = IF 1 > k THEN 0 ELSE k - 1 + 1
      BY <3>1, FS_Interval
    <3> QED
      BY <3>1, <3>2
  <2>2. DOMAIN p = 1..k
    BY <1>5, <2>1 DEF Ascending, Enumerations
  <2>3. DOMAIN ops = 1..k
    BY <1>5, <2>2
  <2> QED
    BY <1>6, <2>1, <2>3
<1>8. DOMAIN ops = 1..k
  BY <1>6, <1>7
<1> QED
  BY <1>4, <1>6, <1>7, <1>8 DEF InOrder

LEMMA SelectPriorityOpsSequence ==
    ASSUME Types, OrderInv, SequenceInv, up, SelectPriorityOps,
           UNCHANGED <<handler, dbOps, dbReverted, dbChain, watchNext, keeperNext>>
    PROVE  SequenceInv'
<1>1. /\ blocksPc = "ops" /\ revertedTxs' = revertedTxs /\ request.first = keeperNext
      /\ proposed.ops = <<>> /\ revertedTxs = <<>>
  BY DEF SelectPriorityOps, OrderInv, AskedOnce, Busy, SequenceInv, NoneReverted
<1>2. priorityOps \in Seq(SerialId) /\ keeperNext \in Int /\ proposed \in Block /\ Len(priorityOps) \in Nat
  BY DEF Types, QueueTypes, OuterTypes, BlockTypes
<1>3. NextUp = keeperNext
  BY <1>1, <1>2 DEF NextUp
<1>4. PICK k \in 0..Len(priorityOps) : \E ops \in SelectedOps(priorityOps, k, keeperNext) :
        LET next == priorityOps[k + 1] IN
        /\ proposed' = [proposed EXCEPT !.ops = ops]
        /\ \/ /\ k = Len(priorityOps)
              /\ lastProcessed' = IF k = 0 THEN lastProcessed ELSE priorityOps[k]
              /\ priorityOps' = <<>>
              /\ blocksPc' = "txs"
           \/ /\ k < Len(priorityOps)
              /\ lastProcessed' = next
              /\ priorityOps' = Drop(priorityOps, k)
              /\ blocksPc' = "txs"
           \/ /\ k < Len(priorityOps)
              /\ ~InOrder(Append(ops, next), keeperNext)
  BY <1>1 DEF SelectPriorityOps
<1>5. PICK ops \in SelectedOps(priorityOps, k, keeperNext) :
        /\ proposed' = [proposed EXCEPT !.ops = ops]
        /\ \/ /\ k = Len(priorityOps)
              /\ lastProcessed' = IF k = 0 THEN lastProcessed ELSE priorityOps[k]
              /\ priorityOps' = <<>>
              /\ blocksPc' = "txs"
           \/ /\ k < Len(priorityOps)
              /\ lastProcessed' = priorityOps[k + 1]
              /\ priorityOps' = Drop(priorityOps, k)
              /\ blocksPc' = "txs"
           \/ /\ k < Len(priorityOps)
              /\ ~InOrder(Append(ops, priorityOps[k + 1]), keeperNext)
  BY <1>4
<1>6. PICK c \in 0..MaxSerial + 1 : \E e \in 0..c : StoredTo(c) /\ QueuedTo(e) /\ Served(c, e)
  BY Tracked
<1>7. PICK d \in 0..c : QueuedTo(d)
  BY <1>6
<1>8. d \in Int /\ Run(priorityOps, keeperNext, d) /\ \A i \in 1..Len(priorityOps) : priorityOps[i] = keeperNext + i - 1
  BY <1>1, <1>3, <1>7, SerialBounds DEF QueuedTo, Run
<1>9. Len(ops) = k /\ ops \in Seq(SerialId) /\ \A i \in 1..k : ops[i] = keeperNext + i - 1
  BY <1>2, <1>8, FirstSelected
<1>10. ASSUME k < Len(priorityOps) PROVE InOrder(Append(ops, priorityOps[k + 1]), keeperNext)
  <2> DEFINE next == priorityOps[k + 1]
  <2>1. k + 1 \in 1..Len(priorityOps) /\ next = keeperNext + (k + 1) - 1
    BY <1>2, <1>8, <1>10
  <2> HIDE DEF next
  <2>2. next \in SerialId
    BY <1>2, <2>1 DEF next
  <2>3. DOMAIN Append(ops, next) = 1..k + 1 /\ Append(ops, next)[k + 1] = next
        /\ \A i \in 1..k : Append(ops, next)[i] = ops[i]
    BY <1>9, <2>2
  <2> QED
    BY <1>9, <2>1, <2>3 DEF InOrder, next
<1>11. blocksPc' = "txs" /\ proposed'.ops = ops
  BY <1>2, <1>5, <1>10 DEF Block
<1>12. NextUp' = keeperNext + k
  BY <1>9, <1>11 DEF NextUp
<1>13. priorityOps' = Drop(priorityOps, k)
  <2>1. k = Len(priorityOps) => Drop(priorityOps, k) = <<>>
    <3>1. IsSeq(priorityOps)
      BY <1>2, ElementsIn
    <3>2. IsSeq(Drop(priorityOps, k)) /\ Len(Drop(priorityOps, k)) = Len(priorityOps) - k
      BY <3>1, CutInTwo
    <3> QED
      BY <1>2, <3>2, Shape
  <2> QED
    BY <1>5, <1>10, <2>1
<1>14. ASSUME NEW e \in Int, QueuedTo(e) PROVE QueuedTo(e)'
  <2>1. /\ Run(priorityOps, keeperNext, e)
        /\ lastProcessed = keeperNext - 1 \/ (lastProcessed = keeperNext /\ keeperNext < e)
    BY <1>1, <1>3, <1>14 DEF QueuedTo
  <2>2. Run(priorityOps', keeperNext + k, e)
    BY <1>2, <1>13, <1>14, <2>1, RunDrop
  <2>3. Len(priorityOps) = e - keeperNext /\ k \in Int
    BY <1>2, <2>1 DEF Run
  <2>4. lastProcessed' = keeperNext + k - 1 \/ (lastProcessed' = keeperNext + k /\ keeperNext + k < e)
    <3>1. CASE k < Len(priorityOps)
      <4>1. lastProcessed' = priorityOps[k + 1] /\ k + 1 \in 1..Len(priorityOps)
        BY <1>2, <1>5, <1>10, <3>1
      <4>2. lastProcessed' = keeperNext + (k + 1) - 1
        BY <1>8, <4>1
      <4> QED
        BY <1>2, <1>14, <2>3, <3>1, <4>2
    <3>2. CASE k = Len(priorityOps)
      <4>1. lastProcessed' = IF k = 0 THEN lastProcessed ELSE priorityOps[k]
        BY <1>2, <1>5, <3>2
      <4>2. k # 0 => priorityOps[k] = keeperNext + k - 1
        BY <1>2, <1>8, <3>2
      <4> QED
        BY <1>2, <1>14, <2>1, <2>3, <3>2, <4>1, <4>2
    <3> QED
      BY <1>2, <3>1, <3>2
  <2>5. Run(priorityOps, NextUp, e)'
    BY <1>12, <2>2 DEF Run
  <2>6. lastProcessed' = NextUp' - 1 \/ (lastProcessed' = NextUp' /\ NextUp' < e)
    <3> DEFINE next == NextUp'
               last == lastProcessed'
    <3>1. next = keeperNext + k
      BY <1>12
    <3>2. last = keeperNext + k - 1 \/ (last = keeperNext + k /\ keeperNext + k < e)
      BY <2>4
    <3> HIDE DEF next, last
    <3>3. last = next - 1 \/ (last = next /\ next < e)
      BY <1>2, <1>14, <2>3, <3>1, <3>2
    <3> QED
      BY <3>3 DEF next, last
  <2> QED
    BY <1>11, <2>5, <2>6 DEF QueuedTo
<1>15. DbMaxSerial' = DbMaxSerial
  BY DEF DbMaxSerial
<1>16. ASSUME NEW b \in 0..MaxSerial + 1, NEW e \in 0..b, StoredTo(b), QueuedTo(e)
       PROVE  DbMaxSerial' < b /\ QueuedTo(e)'
  BY <1>14, <1>15, <1>16 DEF StoredTo
<1>17. ~Misplaced'
  BY <1>11 DEF Misplaced
<1> QED
  BY <1>1, <1>11, <1>16, <1>17, QueueFrame

LEMMA ProposalSequence ==
    ASSUME Types, OrderInv, SequenceInv, ProposeNewBlock
    PROVE  SequenceInv'
<1>1. up /\ UNCHANGED <<handler, dbOps, dbReverted, dbChain, watchNext, keeperNext>> /\ revertedTxs = <<>>
  BY DEF ProposeNewBlock, dbVars, keeperVars, SequenceInv, NoneReverted
<1>2. CASE NothingReverted
  <2>1. UNCHANGED <<revertedTxs, proposed>> /\ UNCHANGED opVars /\ blocksPc = "reverted" /\ blocksPc' = "ops"
    BY <1>2 DEF NothingReverted, queueVars
  <2>2. NextUp' = NextUp /\ ~Misplaced' /\ proposed'.ops = <<>>
    BY <1>1, <2>1 DEF NextUp, Misplaced, SequenceInv
  <2> QED
    BY <1>1, <2>1, <2>2, SameQueueFrame
<1>3. CASE SelectPriorityOps
  BY <1>1, <1>3, SelectPriorityOpsSequence
<1>4. CASE PrepareTxForBlock
  <2>1. UNCHANGED revertedTxs /\ UNCHANGED opVars /\ blocksPc = "txs" /\ blocksPc' = "send"
    BY <1>4 DEF PrepareTxForBlock
  <2>2. proposed'.ops = proposed.ops
    <3>1. \E txs : proposed' = [proposed EXCEPT !.txs = txs]
      BY <1>4 DEF PrepareTxForBlock
    <3>2. proposed \in Block
      BY DEF Types, BlockTypes
    <3> QED
      BY <3>1, <3>2 DEF Block
  <2>3. NextUp' = NextUp /\ ~Misplaced'
    BY <1>1, <2>1, <2>2 DEF NextUp, Misplaced
  <2> QED
    BY <1>1, <2>1, <2>3, SameQueueFrame
<1> QED
  BY <1>1, <1>2, <1>3, <1>4 DEF ProposeNewBlock, SelectReverted, RevertedOpDoesNotFit, RevertedOpIsMissing

LEMMA BlocksHandlerSequence ==
    ASSUME Types, OrderInv, SequenceInv, BlocksHandler \/ RequestBlock \/ Tick
    PROVE  SequenceInv'
<1>1. CASE ProposeNewBlock
  BY <1>1, ProposalSequence
<1>2. CASE SendBlock
  <2>1. /\ up /\ UNCHANGED <<handler, dbOps, dbReverted, dbChain, watchNext, revertedTxs>> /\ UNCHANGED opVars
        /\ keeperNext' = keeperNext + Len(proposed.ops) /\ proposed' = NoBlock
        /\ blocksPc = "send" /\ blocksPc' = "idle"
    BY <1>2 DEF SendBlock, dbVars, queueVars
  <2>2. keeperNext \in Int /\ Len(proposed.ops) \in Int
    BY DEF Types, OuterTypes, BlockTypes, Block
  <2>3. NextUp' = NextUp /\ ~Misplaced' /\ proposed'.ops = <<>>
    BY <2>1, <2>2 DEF NextUp, Misplaced, NoBlock
  <2> QED
    BY <2>1, <2>3, SameQueueFrame
<1>3. CASE ReceiveGetBlock
  <2>1. /\ up /\ UNCHANGED <<handler, dbOps, dbReverted, dbChain, watchNext, revertedTxs, keeperNext>>
        /\ UNCHANGED opVars
        /\ blocksPc = "idle" /\ blocksPc' = "reverted" /\ proposed' = [NoBlock EXCEPT !.first = request'.first]
    BY <1>3 DEF ReceiveGetBlock, dbVars, queueVars, keeperVars
  <2>2. proposed.ops = <<>> /\ proposed'.ops = <<>>
    BY <2>1 DEF SequenceInv, NoBlock
  <2>3. NextUp' = NextUp /\ ~Misplaced'
    BY <2>1, <2>2 DEF NextUp, Misplaced
  <2> QED
    BY <2>1, <2>2, <2>3, SameQueueFrame
<1>4. CASE ReceiveUpdateNonces \/ UpdateAccount \/ UpdatesDone \/ RequestBlock \/ Tick
  <2>1. /\ up /\ UNCHANGED <<handler, dbOps, dbReverted, dbChain, watchNext, revertedTxs, keeperNext, proposed>>
        /\ UNCHANGED opVars
        /\ blocksPc' = blocksPc \/ (blocksPc \in {"idle", "updating"} /\ blocksPc' \in {"idle", "updating"})
    BY <1>4 DEF ReceiveUpdateNonces, UpdateAccount, UpdatesDone, RequestBlock, Tick,
                dbVars, queueVars, blocksVars, keeperVars
  <2>2. NextUp' = NextUp /\ ~Misplaced' /\ (blocksPc' \notin {"txs", "send"} => proposed'.ops = <<>>)
    BY <2>1 DEF NextUp, Misplaced, SequenceInv
  <2> QED
    BY <2>1, <2>2, SameQueueFrame
<1>5. CASE SendFails
  <2>1. /\ up /\ UNCHANGED <<handler, dbOps, dbReverted, dbChain, watchNext, revertedTxs, keeperNext>>
        /\ blocksPc = "send" /\ blocksPc' = "notSent" /\ proposed' = NoBlock
    BY <1>5 DEF SendFails, dbVars, queueVars, keeperVars
  <2>2. revertedTxs' = <<>> /\ DbMaxSerial' = DbMaxSerial /\ ~Misplaced' /\ proposed'.ops = <<>>
    BY <2>1 DEF SequenceInv, NoneReverted, DbMaxSerial, Misplaced, NoBlock
  <2>3. ASSUME NEW c \in 0..MaxSerial + 1, NEW e \in 0..c, StoredTo(c), QueuedTo(e)
        PROVE  DbMaxSerial' < c /\ QueuedTo(e)'
    <3>1. keeperNext \in Int /\ proposed.ops \in Seq(SerialId) /\ priorityOps \in Seq(SerialId)
      BY DEF Types, OuterTypes, QueueTypes, BlockTypes, Block
    <3>2. keeperNext <= NextUp /\ NextUp \in Int /\ e \in Int
      BY <3>1, SerialBounds DEF NextUp
    <3>3. NextUp <= e
      BY <2>1, <2>3, <3>1, <3>2, RunSet DEF QueuedTo
    <3>4. keeperNext <= e
      BY <3>1, <3>2, <3>3
    <3> QED
      BY <2>1, <2>2, <2>3, <3>4 DEF StoredTo, QueuedTo
  <2> QED
    BY <2>1, <2>2, <2>3, QueueFrame
<1> QED
  BY <1>1, <1>2, <1>3, <1>4, <1>5 DEF BlocksHandler

LEMMA CommitBlockSequence ==
    ASSUME Types, OrderInv, SequenceInv, CommitBlock
    PROVE  SequenceInv'
<1>1. /\ up /\ up' = up
      /\ UNCHANGED <<handler, dbOps, dbReverted, watchNext, revertedTxs, keeperNext, proposed, blocksPc>>
      /\ UNCHANGED opVars
  BY DEF CommitBlock, queueVars, blocksVars, processVars
<1>2. Types' /\ OrderInv'
  BY TypesStep, OrderStep DEF Next, StateKeeper
<1>3. /\ keeperOpen' \in Seq(Block) /\ DbMaxSerial' \in Int /\ keeperNext' \in Int
      /\ Continue(keeperOpen', DbMaxSerial' + 1, keeperNext')
  <2>1. (DbMaxSerial \in SerialId \cup {-1})'
    <3>1. TableTypes' /\ Continue(dbChain', 0, DbMaxSerial' + 1)
      BY <1>2 DEF Types, OrderInv
    <3>2. TableTypes /\ Continue(dbChain, 0, DbMaxSerial + 1) => DbMaxSerial \in SerialId \cup {-1}
      BY DbMaxSerialTyped
    <3>3. (TableTypes /\ Continue(dbChain, 0, DbMaxSerial + 1) => DbMaxSerial \in SerialId \cup {-1})'
      BY DbMaxSerialTyped, PTL
    <3> QED
      BY <3>1, <3>3
  <2> QED
    BY <1>1, <1>2, <2>1, SerialBounds DEF Types, OuterTypes, OrderInv
<1>4. DbMaxSerial' + 1 <= keeperNext
  <2> DEFINE open == keeperOpen'
             from == DbMaxSerial' + 1
             to == keeperNext'
  <2>1. open \in Seq(Block) /\ from \in Int /\ to \in Int /\ Continue(open, from, to)
    BY <1>3
  <2> HIDE DEF open, from, to
  <2>2. ASSUME open = <<>> PROVE from <= to
    BY <2>1, <2>2 DEF Continue
  <2>3. ASSUME open # <<>> PROVE from <= to
    <3>1. EndOf(Head(open)) \in Int /\ from <= EndOf(Head(open)) /\ EndOf(Head(open)) <= to
      BY <2>1, <2>3, ContinueBounds
    <3> QED
      BY <2>1, <3>1
  <2>4. from <= to
    BY <2>2, <2>3
  <2> QED
    BY <1>1, <2>4 DEF from, to
<1>5. /\ NextUp' = NextUp /\ ~Misplaced' /\ revertedTxs' = <<>>
      /\ blocksPc' \notin {"txs", "send"} => proposed'.ops = <<>>
  BY <1>1 DEF NextUp, Misplaced, SequenceInv, NoneReverted
<1>6. ASSUME NEW c \in 0..MaxSerial + 1, NEW e \in 0..c, StoredTo(c), QueuedTo(e)
      PROVE  DbMaxSerial' < c /\ QueuedTo(e)'
  <2>1. QueuedTo(e)'
    BY <1>1, <1>5, <1>6 DEF QueuedTo, Run, opVars
  <2>2. keeperNext \in Int /\ proposed.ops \in Seq(SerialId) /\ priorityOps \in Seq(SerialId)
    BY DEF Types, OuterTypes, QueueTypes, BlockTypes, Block
  <2>3. keeperNext <= NextUp /\ NextUp \in Int
    BY <2>2 DEF NextUp
  <2>4. e \in Int /\ c \in Int /\ e <= c
    BY SerialBounds
  <2>5. keeperNext <= e
    <3>1. CASE blocksPc = "notSent"
      BY <1>6, <3>1 DEF QueuedTo
    <3>2. CASE blocksPc # "notSent"
      <4>1. NextUp <= e
        BY <1>6, <2>2, <2>3, <2>4, <3>2, RunSet DEF QueuedTo
      <4> QED
        BY <2>2, <2>3, <2>4, <4>1
    <3> QED
      BY <3>1, <3>2
  <2> DEFINE m == DbMaxSerial'
  <2>6. m \in Int /\ m + 1 <= keeperNext
    BY <1>3, <1>4
  <2> HIDE DEF m
  <2>7. m < c
    BY <2>2, <2>3, <2>4, <2>5, <2>6
  <2> QED
    BY <2>1, <2>7 DEF m
<1> QED
  BY <1>1, <1>5, <1>6, QueueFrame

LEMMA CrashSequence ==
    ASSUME SequenceInv, Crash
    PROVE  SequenceInv'
<1>1. /\ handler' = [h \in Handler |-> IdleHandler] /\ revertedTxs' = <<>> /\ up' = FALSE
      /\ blocksPc' = "idle" /\ proposed' = NoBlock /\ UNCHANGED <<dbOps, dbChain, dbReverted>>
  BY DEF Crash, dbVars
<1>2. \A h \in Handler : ~Sends(h)' /\ handler'[h].pc = "idle"
  BY <1>1 DEF Sends, IdleHandler
<1>3. SendersApart'
  BY <1>2 DEF SendersApart
<1>4. \A c : StoredTo(c) => StoredTo(c)'
  BY <1>1 DEF StoredTo, DbConfirmed, DbMaxSerial
<1>5. OpsTracked'
  BY <1>1, <1>4 DEF SequenceInv, OpsTracked
<1>6. NoneReverted' /\ ~Misplaced' /\ proposed'.ops = <<>>
  BY <1>1 DEF SequenceInv, NoneReverted, Misplaced, NoBlock
<1> QED
  BY <1>3, <1>5, <1>6 DEF SequenceInv

LEMMA RestoreSequence ==
    ASSUME Types, OrderInv, SequenceInv, RestoreFromDb
    PROVE  SequenceInv'
<1>1. ~up /\ UNCHANGED <<handler, blocksPc, proposed, dbOps, dbChain>>
  BY DEF RestoreFromDb, blocksVars
<1>2. blocksPc = "idle" /\ proposed = NoBlock /\ \A h \in Handler : handler[h] = IdleHandler
  BY <1>1 DEF OrderInv, Stopped
<1>3. \A h \in Handler : ~Sends(h)' /\ handler'[h].pc = "idle"
  BY <1>1, <1>2 DEF Sends, IdleHandler
<1>4. NoneReverted'
  <2>1. PICK waiting \in SUBSET DOMAIN dbReverted :
            dbReverted' \in Selections(dbReverted, waiting) /\ revertedTxs' = dbReverted'
    BY DEF RestoreFromDb
  <2>2. dbReverted = <<>> /\ DOMAIN dbReverted = {} /\ IsSeq(dbReverted)
    BY NoElements DEF SequenceInv, NoneReverted
  <2>3. IsSeq(dbReverted') /\ ToSet(dbReverted') = {}
    <3>1. IsSeq(dbReverted') /\ ToSet(dbReverted') = {dbReverted[i] : i \in waiting}
      BY <2>1, <2>2, Selected
    <3> QED
      BY <2>2, <3>1
  <2>4. dbReverted' = <<>>
    <3>1. Len(dbReverted') \in Nat /\ DOMAIN dbReverted' = 1..Len(dbReverted')
          /\ (dbReverted' = <<>> <=> Len(dbReverted') = 0)
      BY <2>3, Shape
    <3>2. DOMAIN dbReverted' = {}
      BY <2>3 DEF ToSet
    <3> QED
      BY <3>1, <3>2
  <2> QED
    BY <2>1, <2>4 DEF NoneReverted
<1>5. PICK c \in 0..MaxSerial + 1 : StoredTo(c)
  BY DEF SequenceInv, OpsTracked
<1>6. StoredTo(c)'
  BY <1>1, <1>5 DEF StoredTo, DbConfirmed, DbMaxSerial
<1> DEFINE m == DbMaxSerial
           new == FreshOps(DbConfirmed, <<>>, DbMaxSerial)
<1>7. /\ priorityOps' \in BySerial(new) /\ lastProcessed' = m /\ keeperNext' = m + 1
      /\ watchNext' \in (0..MaxSerial + 1) \ DbConfirmed /\ 0..watchNext' - 1 \subseteq DbConfirmed
  BY DEF RestoreFromDb
<1>8. m \in Int /\ -1 <= m /\ m < c /\ c \in Int /\ 0 <= c /\ c <= MaxSerial + 1 /\ MaxSerial \in Int
  <2>1. DbMaxSerial \in SerialId \cup {-1}
    BY DbMaxSerialTyped DEF Types, OrderInv
  <2> QED
    BY <1>5, <2>1, SerialBounds DEF StoredTo
<1>9. new = m + 1..c - 1
  <2>1. DbConfirmed = 0..c - 1 /\ ToSet(<<>>) = {}
    BY <1>5, NoElements DEF StoredTo
  <2>2. new = {s \in 0..c - 1 : s > m}
    BY <2>1 DEF FreshOps
  <2> HIDE DEF m, new
  <2>3. \A s : s \in new <=> s \in m + 1..c - 1
    BY <1>8, <2>2
  <2> QED
    BY <2>3
<1> HIDE DEF m, new
<1>10. Run(priorityOps', m + 1, c)
  <2>1. m + 1 \in Int /\ m + 1 <= c /\ priorityOps' \in Ascending(m + 1..c - 1)
    BY <1>7, <1>8, <1>9 DEF BySerial
  <2> QED
    BY <1>8, <2>1, AscendingRun
<1>11. NextUp' = m + 1
  <2>1. proposed'.ops = <<>>
    BY <1>1, <1>2 DEF NoBlock
  <2> QED
    BY <1>7, <1>8, <2>1 DEF NextUp
<1>12. QueuedTo(c)'
  BY <1>1, <1>2, <1>7, <1>8, <1>10, <1>11 DEF QueuedTo, Run
<1>13. watchNext' <= c
  <2>1. watchNext' \in Int /\ watchNext' - 1 \in Int
    BY <1>7, <1>8
  <2>2. 0..watchNext' - 1 \subseteq 0..c - 1
    BY <1>5, <1>7 DEF StoredTo
  <2> DEFINE w == watchNext'
  <2>3. w \in Int /\ 0..w - 1 \subseteq 0..c - 1
    BY <2>1, <2>2
  <2> HIDE DEF w
  <2>4. c \notin 0..w - 1
    <3>1. c \notin 0..c - 1
      BY <1>8
    <3> QED
      BY <2>3, <3>1
  <2>5. w <= c
    BY <1>8, <2>3, <2>4
  <2> QED
    BY <2>5 DEF w
<1>14. Served(c, c)'
  BY <1>3, <1>13 DEF Served
<1>15. OpsTracked'
  BY <1>6, <1>8, <1>12, <1>14 DEF OpsTracked
<1>16. SendersApart' /\ ~Misplaced' /\ proposed'.ops = <<>>
  BY <1>1, <1>2, <1>3 DEF SendersApart, Misplaced, NoBlock
<1> QED
  BY <1>4, <1>15, <1>16 DEF SequenceInv

LEMMA SequenceStep ==
    ASSUME MaxReverts = 0, WatchWindow <= 1, Types, OrderInv, SequenceInv, [Next]_vars
    PROVE  SequenceInv'
<1>1. ASSUME NEW h \in Handler, TransactionsHandler(h) PROVE SequenceInv'
  <2>1. CASE ReceiveUnconfirmedOp(h) /\ Sends(h)
    <3>1. handler[h].pc = "idle"
      BY <2>1 DEF ReceiveUnconfirmedOp
    <3> QED
      BY <2>1, <3>1 DEF SequenceInv, SendersApart
  <2>2. CASE ReadMaxSerial(h) \/ InsertOps(h) \/ OpsFail(h) \/ (ReceiveUnconfirmedOp(h) /\ ~Sends(h))
    BY <2>2, UnconfirmedSteps, ReadMaxSerialSends, InsertOpsSends, OpsFailSends
  <2> QED
    BY <1>1, <2>1, <2>2, TransactionSteps, ReceiveConfirmedSteps, AddOpsSequence DEF TransactionsHandler
<1>2. CASE BlocksHandler \/ StateKeeper
  BY <1>2, BlocksHandlerSequence, CommitBlockSequence DEF StateKeeper
<1>3. CASE Process
  <2>1. ~RevertBlock
    BY MempoolAssumption DEF RevertBlock, Types, OuterTypes
  <2> QED
    BY <1>3, <2>1, CrashSequence, RestoreSequence DEF Process
<1>4. CASE UNCHANGED vars
  <2>1. UNCHANGED <<revertedTxs, lastProcessed, priorityOps, handler, blocksPc, proposed, dbReverted, dbOps, dbChain,
                    keeperNext, watchNext, up>>
    BY <1>4 DEF vars, queueVars, opVars, blocksVars, dbVars, keeperVars, processVars
  <2>2. SendersApart' /\ NoneReverted' /\ ~Misplaced' /\ (blocksPc' \notin {"txs", "send"} => proposed'.ops = <<>>)
    BY <2>1 DEF SequenceInv, SendersApart, Sends, NoneReverted, Misplaced
  <2>3. \A c : StoredTo(c)' <=> StoredTo(c)
    BY <2>1 DEF StoredTo, DbConfirmed, DbMaxSerial
  <2>4. \A e : QueuedTo(e)' <=> QueuedTo(e)
    BY <2>1 DEF QueuedTo, Run, NextUp
  <2>5. \A c, e : Served(c, e)' <=> Served(c, e)
    BY <2>1 DEF Served, Sends, Carries
  <2>6. OpsTracked'
    BY <2>1, <2>3, <2>4, <2>5 DEF SequenceInv, OpsTracked
  <2> QED
    BY <2>2, <2>6 DEF SequenceInv
<1> QED
  BY <1>1, <1>2, <1>3, <1>4 DEF Next

LEMMA SequenceKeepsOps == Types /\ OrderInv /\ SequenceInv => NoOpLost
<1> SUFFICES ASSUME Types, OrderInv, SequenceInv, up, ~Panicked, NEW s \in DbConfirmed
             PROVE  \/ s < keeperNext
                    \/ s \in ToSet(priorityOps) \cup ToSet(proposed.ops)
                    \/ \E h \in Handler : handler[h].pc = "addOps" /\ s \in handler[h].ops
  BY DEF NoOpLost
<1>1. PICK c \in 0..MaxSerial + 1 : \E e \in 0..c : StoredTo(c) /\ QueuedTo(e) /\ Served(c, e)
  BY Tracked
<1>2. PICK e \in 0..c : StoredTo(c) /\ QueuedTo(e) /\ Served(c, e)
  BY <1>1
<1>3. s \in 0..c - 1 /\ s \in Int /\ c \in Int /\ e \in Int
  BY <1>2, SerialBounds DEF StoredTo
<1>4. keeperNext \in Int /\ proposed.ops \in Seq(SerialId) /\ priorityOps \in Seq(SerialId) /\ NextUp \in Int
  <2>1. keeperNext \in Int /\ proposed.ops \in Seq(SerialId) /\ priorityOps \in Seq(SerialId)
    BY DEF Types, OuterTypes, QueueTypes, BlockTypes, Block
  <2> QED
    BY <2>1 DEF NextUp
<1> SUFFICES ASSUME s >= keeperNext, s \notin ToSet(priorityOps), s \notin ToSet(proposed.ops)
             PROVE  \E h \in Handler : handler[h].pc = "addOps" /\ s \in handler[h].ops
  BY <1>3, <1>4
<1>5. s >= NextUp
  <2>1. SUFFICES ASSUME s < NextUp PROVE FALSE
    BY <1>3, <1>4
  <2> DEFINE i == s - keeperNext + 1
  <2>2. i \in 1..Len(proposed.ops)
    BY <1>3, <1>4, <2>1 DEF NextUp
  <2>3. proposed.ops # <<>>
    BY <2>2
  <2>4. InPlace(proposed) /\ proposed.first = keeperNext
    BY <2>3 DEF SequenceInv, OrderInv, AskedOnce, Busy
  <2>5. proposed.ops[i] = keeperNext + i - 1
    BY <2>2, <2>4 DEF InPlace
  <2>6. proposed.ops[i] = s /\ i \in DOMAIN proposed.ops
    BY <1>3, <1>4, <2>2, <2>5
  <2> HIDE DEF i
  <2> QED
    BY <2>6 DEF ToSet
<1>6. s >= e
  <2>1. ToSet(priorityOps) = NextUp..e - 1
    BY <1>2, <1>3, <1>4, RunSet DEF QueuedTo, Panicked
  <2> QED
    BY <1>3, <1>4, <1>5, <2>1
<1>7. PICK h \in Handler : Carries(h, c, e)
  BY <1>2, <1>3, <1>6 DEF Served
<1>8. PICK lo \in SerialId, hi \in SerialId :
        /\ handler[h].ops = lo..hi /\ lo <= e
        /\ handler[h].pc = "addOps" /\ (c = e \/ c = hi + 1)
  BY <1>3, <1>6, <1>7 DEF Carries
<1>9. s \in lo..hi
  BY <1>3, <1>6, <1>8, SerialBounds
<1> QED
  BY <1>8, <1>9

(* While no block is reverted and the watcher sends one request after the  *)
(* other, the confirmed operations continue one another from the chain     *)
(* over the block under construction and the queue to the request under    *)
(* way, and none is lost: not when a request fails between its steps, when *)
(* the watcher repeats operations, when get_max_priority_op_serial_id is   *)
(* stale by the time the operations are added, when the block is sent      *)
(* without an operation that did not fit (whose id last_processed then     *)
(* names although it is still queued), nor when the server stops and       *)
(* restores its queue (mod.rs: add_priority_ops, select_priority_ops).     *)
THEOREM NoOperationLost ==
    ASSUME MaxReverts = 0, WatchWindow <= 1
    PROVE  Spec => []NoOpLost
<1> DEFINE Inv == Types /\ OrderInv /\ SequenceInv
<1>1. Init => Inv
  BY TypesInit, OrderInit, SequenceInit
<1>2. Inv /\ [Next]_vars => Inv'
  BY TypesStep, OrderStep, SequenceStep
<1>3. Inv => NoOpLost
  BY SequenceKeepsOps
<1> HIDE DEF Inv
<1> QED
  BY <1>1, <1>2, <1>3, PTL DEF Spec

(* Then the assertion of select_priority_ops never fails: the queue starts *)
(* with the operation that the state keeper asks for and has no gap.       *)
THEOREM OperationsComeInOrder ==
    ASSUME MaxReverts = 0, WatchWindow <= 1
    PROVE  Spec => []QueueInOrder
<1> DEFINE Inv == Types /\ OrderInv /\ SequenceInv
<1>1. Init => Inv
  BY TypesInit, OrderInit, SequenceInit
<1>2. Inv /\ [Next]_vars => Inv'
  BY TypesStep, OrderStep, SequenceStep
<1>3. Inv => QueueInOrder
  BY DEF SequenceInv, Misplaced, QueueInOrder
<1> HIDE DEF Inv
<1> QED
  BY <1>1, <1>2, <1>3, PTL DEF Spec
=============================================================================
