------------------------------- MODULE Mempool -------------------------------
(***************************************************************************)
(* The zkSync mempool of Assignment 4/mod.rs: one blocks handler and       *)
(* several transaction handlers share the MempoolState behind a RwLock,    *)
(* and write to a database from which the state is restored after a crash. *)
(* An action is one critical section of the lock, one call to the database *)
(* or one message, so that the handlers interleave between their awaits.   *)
(*                                                                         *)
(* External, modelled from how mod.rs uses them: the database, the state   *)
(* keeper that requests blocks, executes and commits them, the Ethereum    *)
(* watcher that sends priority operations, the clients, and the tool that  *)
(* reverts committed blocks while the server is down.                      *)
(***************************************************************************)
EXTENDS MempoolQueue

CONSTANTS
    Handler,        \* the transaction handlers
    AccountId, IdOf,        \* [Address -> AccountId]
    NoAddress,      \* an account id without an account
    InitAccounts,   \* [Address -> Nat or Absent]: the committed nonces
    MaxBlockChunks, \* max_block_size_chunks
    NoVariant,      \* a handler that holds no transaction
    MaxTime,        \* bound on the block timestamps
    MaxCrashes, MaxReverts, \* bounds on crashes and on reverted blocks
    WatchWindow,    \* requests of confirmed operations under way at once
    DbMayFail       \* whether calls to the database may return an error

VARIABLES
    (* MempoolState and its MempoolTransactionsQueue *)
    accountNonces, accountIds,
    revertedTxs, readyTxs, pendingTxs, lastProcessed, priorityOps,
    (* MempoolTransactionsHandler, MempoolBlocksHandler *)
    handler, blocksPc, request, proposed, chunksLeft, updates, requests,
    (* the database *)
    dbTxs, dbReverted, dbOps, dbChain, dbAccounts,
    (* the state keeper, the Ethereum watcher, the clients, the process *)
    keeperNext, keeperOpen, clock, watchNext, submitted, acked,
    up, crashes, reverts

accountVars == <<accountNonces, accountIds>>
txVars == <<readyTxs, pendingTxs>>
opVars == <<lastProcessed, priorityOps>>
queueVars == <<revertedTxs, txVars, opVars>>
blocksVars == <<blocksPc, request, proposed, chunksLeft, updates>>
dbVars == <<dbTxs, dbReverted, dbOps, dbChain, dbAccounts>>
keeperVars == <<keeperNext, keeperOpen, clock>>
clientVars == <<submitted, acked>>
processVars == <<up, crashes, reverts>>
vars == <<accountVars, queueVars, handler, blocksVars, requests, dbVars,
          keeperVars, watchNext, clientVars, processVars>>

(* The maps account_nonces and account_ids; Absent and NoAddress stand for *)
(* a key that the map does not contain.                                    *)
Absent == -1
Nonces == [Address -> Nat \cup {Absent}]
Ids == [AccountId -> Address \cup {NoAddress}]
AccountTree == [nonces : Nonces, ids : Ids]

(* ProposedBlock, with the serial id the block was requested at; and a     *)
(* committed block, with the account tree it was applied to.               *)
Block == [first : Nat, ops : Seq(SerialId), txs : Seq(Variant)]
ChainBlock == [first : Nat, ops : Seq(SerialId), txs : Seq(Variant),
               before : AccountTree]

AccountUpdate == [type : {"Create", "Delete", "UpdateBalance"},
                  id : AccountId, address : Address, nonce : Nat]
GetBlockRequest == [type : {"GetBlock"}, first : Nat, timestamp : Nat]
UpdateNoncesRequest == [type : {"UpdateNonces"}, updates : Seq(AccountUpdate)]

HandlerPc == {"idle", "nonce", "size", "insert", "add",
              "readSerial", "insertOps", "addOps"}
HandlerState == [pc : HandlerPc, variant : Variant \cup {NoVariant}, index : Nat,
                 ops : SUBSET SerialId, confirmed : BOOLEAN]
BlocksPc == {"idle", "updating", "reverted", "ops", "txs", "send",
             "missingOp", "wrongOrder", "notSent"}

ASSUME MempoolAssumption ==
    /\ IdOf \in [Address -> AccountId]
    /\ \A a, b \in Address : IdOf[a] = IdOf[b] => a = b
    /\ InitAccounts \in Nonces
    /\ MaxBlockChunks \in Nat /\ MaxTime \in Nat
    /\ NoVariant \notin Variant /\ NoAddress \notin Address
    /\ MaxCrashes \in Nat /\ MaxReverts \in Nat /\ WatchWindow \in Nat
    /\ DbMayFail \in BOOLEAN

IdleHandler == [pc |-> "idle", variant |-> NoVariant, index |-> 1,
                ops |-> {}, confirmed |-> FALSE]
NoBlock == [first |-> 0, ops |-> <<>>, txs |-> <<>>]
NoRequest == [type |-> "GetBlock", first |-> 0, timestamp |-> 0]
Known(nonces) == {x \in Address : nonces[x] # Absent}
IdsOf(nonces) == [i \in AccountId |->
    IF \E x \in Known(nonces) : IdOf[x] = i
    THEN CHOOSE x \in Known(nonces) : IdOf[x] = i ELSE NoAddress]
TxsIn(blocks) == UNION {ToSet(blocks[i].txs) : i \in DOMAIN blocks}
KnownAccounts == Known(accountNonces)
Panicked == blocksPc \in {"missingOp", "wrongOrder", "notSent"}

\* get_max_priority_op_serial_id; -1 is None.
DbMaxSerial == IF dbChain = <<>> THEN -1
               ELSE Last(dbChain).first + Len(Last(dbChain).ops) - 1
DbConfirmed == {s \in SerialId : dbOps[s] = "confirmed"}

Init ==
    /\ accountNonces = InitAccounts /\ accountIds = IdsOf(InitAccounts)
    /\ revertedTxs = <<>> /\ readyTxs = <<>> /\ pendingTxs = {}
    /\ lastProcessed = -1 /\ priorityOps = <<>>
    /\ handler = [h \in Handler |-> IdleHandler]
    /\ blocksPc = "idle" /\ request = NoRequest /\ proposed = NoBlock
    /\ chunksLeft = 0 /\ updates = <<>> /\ requests = <<>>
    /\ dbTxs = {} /\ dbReverted = <<>> /\ dbChain = <<>>
    /\ dbOps = [s \in SerialId |-> "none"]
    /\ dbAccounts = [nonces |-> InitAccounts, ids |-> IdsOf(InitAccounts)]
    /\ keeperNext = 0 /\ keeperOpen = <<>> /\ clock = 0 /\ watchNext = 0
    /\ submitted = {} /\ acked = {}
    /\ up = TRUE /\ crashes = 0 /\ reverts = 0

-----------------------------------------------------------------------------
(* MempoolTransactionsHandler::add_tx and add_batch.  A single transaction *)
(* is a variant of length one that skips the size check.  A variant is one *)
(* request; the client that sends its transaction again, even if it has    *)
(* been accepted, hands in another variant with the same hash.             *)

ReceiveTx(h, v) ==
    /\ up /\ handler[h].pc = "idle" /\ v \notin submitted
    /\ submitted' = submitted \cup {v}
    /\ handler' = [handler EXCEPT ![h].pc = "nonce", ![h].variant = v]
    /\ UNCHANGED <<accountVars, queueVars, blocksVars, requests, dbVars,
                   keeperVars, watchNext, acked, processVars>>

\* The handler answers an error: the client may try again later.
RefuseTx(h) ==
    /\ submitted' = submitted \ {handler[h].variant}
    /\ handler' = [handler EXCEPT ![h] = IdleHandler]

\* Mutant: a single transaction is queued without being stored.
NextCheckSkipsInsert(v) == IF v \in Batch THEN "size" ELSE "add"
NextCheck(v) == IF v \in Batch THEN "size" ELSE "insert"

CheckNonce(h) ==
    LET v == handler[h].variant
        tx == TxsOf[v][handler[h].index]
        nonce == IF tx.account \in KnownAccounts THEN accountNonces[tx.account] ELSE 0
    IN
    /\ up /\ handler[h].pc = "nonce"
    /\ \/ tx.nonce < nonce /\ RefuseTx(h)
       \/ /\ tx.nonce >= nonce
          /\ handler[h].index < Len(TxsOf[v])
          /\ handler' = [handler EXCEPT ![h].index = @ + 1]
          /\ UNCHANGED submitted
       \/ /\ tx.nonce >= nonce
          /\ handler[h].index = Len(TxsOf[v])
          /\ handler' = [handler EXCEPT ![h].pc = NextCheck(v)]
          /\ UNCHANGED submitted
    /\ UNCHANGED <<accountVars, queueVars, blocksVars, requests, dbVars,
                   keeperVars, watchNext, acked, processVars>>

CheckBatchSize(h) ==
    /\ up /\ handler[h].pc = "size"
    /\ \/ /\ RequiredChunks(handler[h].variant, KnownAccounts) > MaxBlockChunks
          /\ RefuseTx(h)
       \/ /\ RequiredChunks(handler[h].variant, KnownAccounts) <= MaxBlockChunks
          /\ handler' = [handler EXCEPT ![h].pc = "insert"]
          /\ UNCHANGED submitted
    /\ UNCHANGED <<accountVars, queueVars, blocksVars, requests, dbVars,
                   keeperVars, watchNext, acked, processVars>>

\* insert_tx, insert_batch.
InsertTx(h) ==
    /\ up /\ handler[h].pc = "insert"
    /\ dbTxs' = dbTxs \cup {handler[h].variant}
    /\ handler' = [handler EXCEPT ![h].pc = "add"]
    /\ UNCHANGED <<accountVars, queueVars, blocksVars, requests, dbReverted,
                   dbOps, dbChain, dbAccounts, keeperVars, watchNext,
                   clientVars, processVars>>

InsertTxFails(h) ==
    /\ up /\ DbMayFail /\ handler[h].pc = "insert"
    /\ RefuseTx(h)
    /\ UNCHANGED <<accountVars, queueVars, blocksVars, requests, dbVars,
                   keeperVars, watchNext, acked, processVars>>

\* The write lock, add_tx_variant, and the answer Ok.
AddTx(h) ==
    /\ up /\ handler[h].pc = "add"
    /\ pendingTxs' = pendingTxs \cup {handler[h].variant}
    /\ acked' = acked \cup {handler[h].variant}
    /\ handler' = [handler EXCEPT ![h] = IdleHandler]
    /\ UNCHANGED <<accountVars, revertedTxs, readyTxs, opVars, blocksVars,
                   requests, dbVars, keeperVars, watchNext, submitted,
                   processVars>>

-----------------------------------------------------------------------------
(* MempoolTransactionsHandler::add_priority_ops.                           *)

Smallest(a, b) == IF a < b THEN a ELSE b
Largest(a, b) == IF a > b THEN a ELSE b

InFlight == {h \in Handler : handler[h].ops # {} /\ handler[h].confirmed}

\* The watcher sends the confirmed operations in ascending ranges; it may send
\* again what it has sent before.
ReceiveConfirmedOps(h) ==
    /\ up /\ handler[h].pc = "idle" /\ Cardinality(InFlight) < WatchWindow
    /\ \E lo, hi \in SerialId :
        /\ lo <= watchNext /\ lo <= hi
        /\ watchNext' = Largest(watchNext, hi + 1)
        /\ handler' = [handler EXCEPT ![h].pc = "readSerial", ![h].ops = lo..hi,
                                      ![h].confirmed = TRUE]
    /\ UNCHANGED <<accountVars, queueVars, blocksVars, requests, dbVars,
                   keeperVars, clientVars, processVars>>

ReceiveUnconfirmedOp(h) ==
    /\ up /\ handler[h].pc = "idle"
    /\ \E s \in SerialId :
        /\ dbOps[s] = "none" /\ s >= watchNext
        /\ handler' = [handler EXCEPT ![h].pc = "readSerial", ![h].ops = {s}]
    /\ UNCHANGED <<accountVars, queueVars, blocksVars, requests, dbVars,
                   keeperVars, watchNext, clientVars, processVars>>

\* get_max_priority_op_serial_id and retain; nothing left is an early Ok.
ReadMaxSerial(h) ==
    LET kept == {s \in handler[h].ops : s > DbMaxSerial} IN
    /\ up /\ handler[h].pc = "readSerial"
    /\ handler' = [handler EXCEPT ![h] =
                    IF kept = {} THEN IdleHandler
                    ELSE [@ EXCEPT !.pc = "insertOps", !.ops = kept]]
    /\ UNCHANGED <<accountVars, queueVars, blocksVars, requests, dbVars,
                   keeperVars, watchNext, clientVars, processVars>>

\* Mutant: unconfirmed operations are queued too.
QueuesUnconfirmed(h) == TRUE
\* "Add to queue only confirmed priority operations"
QueuesOps(h) == handler[h].confirmed

InsertOps(h) ==
    /\ up /\ handler[h].pc = "insertOps"
    /\ dbOps' = [s \in SerialId |->
                    IF s \notin handler[h].ops \/ dbOps[s] = "confirmed" THEN dbOps[s]
                    ELSE IF handler[h].confirmed THEN "confirmed" ELSE "unconfirmed"]
    /\ handler' = [handler EXCEPT ![h] =
                    IF QueuesOps(h) THEN [@ EXCEPT !.pc = "addOps"]
                    ELSE IdleHandler]
    /\ UNCHANGED <<accountVars, queueVars, blocksVars, requests, dbTxs,
                   dbReverted, dbChain, dbAccounts, keeperVars, watchNext,
                   clientVars, processVars>>

\* The watcher sends again the operations of a request that failed.
OpsFail(h) ==
    /\ up /\ DbMayFail /\ handler[h].pc \in {"readSerial", "insertOps"}
    /\ handler' = [handler EXCEPT ![h] = IdleHandler]
    /\ IF handler[h].confirmed
       THEN \E first \in handler[h].ops :
                /\ \A s \in handler[h].ops : first <= s
                /\ watchNext' = Smallest(watchNext, first)
       ELSE UNCHANGED watchNext
    /\ UNCHANGED <<accountVars, queueVars, blocksVars, requests, dbVars,
                   keeperVars, clientVars, processVars>>

AddOps(h) ==
    /\ up /\ handler[h].pc = "addOps"
    /\ \E fresh \in BySerial(FreshOps(handler[h].ops, priorityOps, lastProcessed)) :
        priorityOps' = priorityOps \o fresh
    /\ handler' = [handler EXCEPT ![h] = IdleHandler]
    /\ UNCHANGED <<accountVars, revertedTxs, txVars, lastProcessed, blocksVars,
                   requests, dbVars, keeperVars, watchNext, clientVars,
                   processVars>>

-----------------------------------------------------------------------------
(* MempoolBlocksHandler: GetBlock.  Each of the three selections takes the *)
(* write lock and releases it again.                                       *)

\* The number k of elements that a loop pops from a queue of length n while
\* what it has popped fits.
StopsAt(k, n, fits(_)) == k \in 0..n /\ fits(k) /\ (k < n => ~fits(k + 1))

ReceiveGetBlock ==
    /\ up /\ blocksPc = "idle" /\ requests # <<>>
    /\ Head(requests).type = "GetBlock"
    /\ blocksPc' = "reverted"
    /\ request' = Head(requests) /\ requests' = Tail(requests)
    /\ proposed' = [NoBlock EXCEPT !.first = request'.first]
    /\ chunksLeft' = MaxBlockChunks
    /\ UNCHANGED <<accountVars, queueVars, handler, updates, dbVars, keeperVars,
                   watchNext, clientVars, processVars>>

\* select_reverted_operations returns early: there is nothing reverted.
NothingReverted ==
    /\ blocksPc = "reverted" /\ revertedTxs = <<>>
    /\ blocksPc' = "ops"
    /\ UNCHANGED <<queueVars, proposed, chunksLeft>>

\* The priority operations that come before the first reverted transaction.
MissingOps == Largest(0, Head(revertedTxs).next - request.first)

\* Mutant: priority operations are not counted.
ChunksLeftIgnoringOps(ops) == MaxBlockChunks
ChunksLeft(ops) == MaxBlockChunks - ChunksOfOps(ops)

\* Mutant: reverted transactions are taken ahead of priority operations.
ComesNextAlways(reverted, next) == TRUE
\* "To prevent state keeper from executing priority operations out of order"
ComesNext(reverted, next) == next >= reverted.next

\* All of them are found and fit; reverted transactions follow as long as they
\* fit and no further priority operation comes first.
SelectReverted ==
    /\ blocksPc = "reverted" /\ revertedTxs # <<>>
    /\ \E k \in 0..Len(priorityOps), r \in 0..Len(revertedTxs) :
       \E ops \in FoundOps(priorityOps, k, request.first, MissingOps) :
        LET next == request.first + MissingOps
            txs(n) == [i \in 1..n |-> revertedTxs[i].tx]
            Fits(n) == /\ \A i \in 1..n : ComesNext(revertedTxs[i], next)
                       /\ ChunksOfTxs(txs(n), KnownAccounts) <= ChunksLeft(ops)
        IN
        /\ ChunksOfOps(ops) <= MaxBlockChunks
        /\ StopsAt(r, Len(revertedTxs), Fits)
        /\ priorityOps' = Drop(priorityOps, k)
        /\ lastProcessed' = IF k = 0 THEN lastProcessed ELSE priorityOps[k]
        /\ revertedTxs' = Drop(revertedTxs, r)
        /\ proposed' = [proposed EXCEPT !.ops = ops, !.txs = txs(r)]
        /\ blocksPc' = IF ops = <<>> /\ r = 0 THEN "ops" ELSE "send"
    /\ UNCHANGED <<txVars, chunksLeft>>

\* The operation after the first n is found but does not fit: the block is
\* returned without it, and it is no longer in the queue.
RevertedOpDoesNotFit ==
    /\ blocksPc = "reverted" /\ revertedTxs # <<>>
    /\ \E n \in 0..MissingOps - 1, k \in 1..Len(priorityOps) :
       \E found \in FoundOps(priorityOps, k, request.first, n + 1) :
        /\ ChunksOfOps(Take(found, n)) <= MaxBlockChunks
        /\ ChunksOfOps(found) > MaxBlockChunks
        /\ priorityOps' = Drop(priorityOps, k)
        /\ lastProcessed' = priorityOps[k]
        /\ proposed' = [proposed EXCEPT !.ops = Take(found, n)]
        /\ blocksPc' = IF n = 0 THEN "ops" ELSE "send"
    /\ UNCHANGED <<txVars, revertedTxs, chunksLeft>>

\* panic!("Operation not found in the priority queue") with the queue emptied.
RevertedOpIsMissing ==
    /\ blocksPc = "reverted" /\ revertedTxs # <<>>
    /\ \E n \in 0..MissingOps - 1, k \in 0..Len(priorityOps) :
       \E found \in FoundOps(priorityOps, k, request.first, n) :
        /\ ChunksOfOps(found) <= MaxBlockChunks
        /\ request.first + n \notin ToSet(Drop(priorityOps, k))
    /\ lastProcessed' = IF priorityOps = <<>> THEN lastProcessed
                        ELSE Last(priorityOps)
    /\ priorityOps' = <<>>
    /\ blocksPc' = "missingOp"
    /\ UNCHANGED <<txVars, revertedTxs, proposed, chunksLeft>>

\* select_priority_ops pops k operations; the next one stays in front if it
\* does not fit, and the assertion on the order fails if it is not next.
SelectPriorityOps ==
    /\ blocksPc = "ops"
    /\ \E k \in 0..Len(priorityOps) :
       \E ops \in SelectedOps(priorityOps, k, request.first) :
        LET next == priorityOps[k + 1] IN
        /\ ChunksOfOps(ops) <= MaxBlockChunks
        /\ proposed' = [proposed EXCEPT !.ops = ops]
        /\ chunksLeft' = ChunksLeft(ops)
        /\ \/ /\ k = Len(priorityOps)
              /\ lastProcessed' = IF k = 0 THEN lastProcessed ELSE priorityOps[k]
              /\ priorityOps' = <<>>
              /\ blocksPc' = "txs"
           \/ /\ k < Len(priorityOps) /\ InOrder(Append(ops, next), request.first)
              /\ ChunksOfOps(Append(ops, next)) > MaxBlockChunks
              /\ lastProcessed' = next
              /\ priorityOps' = Drop(priorityOps, k)
              /\ blocksPc' = "txs"
           \/ /\ k < Len(priorityOps) /\ next >= request.first
              /\ ~InOrder(Append(ops, next), request.first)
              /\ lastProcessed' = next
              /\ priorityOps' = Drop(priorityOps, k + 1)
              /\ blocksPc' = "wrongOrder"
    /\ UNCHANGED <<revertedTxs, txVars>>

\* prepare_tx_for_block: what became ready goes behind what already was.
PrepareTxForBlock ==
    LET ripe == Ripe(pendingTxs, request.timestamp) IN
    /\ blocksPc = "txs"
    /\ \E sorted \in ReadyOrders(ripe) :
        LET ready == readyTxs \o sorted
            Fits(k) == ChunksOfTxs(Take(ready, k), KnownAccounts) <= chunksLeft
        IN
        \E k \in 0..Len(ready) :
            /\ StopsAt(k, Len(ready), Fits)
            /\ readyTxs' = Drop(ready, k)
            /\ proposed' = [proposed EXCEPT !.txs = Take(ready, k)]
            /\ chunksLeft' = chunksLeft - ChunksOfTxs(Take(ready, k), KnownAccounts)
    /\ pendingTxs' = pendingTxs \ ripe
    /\ blocksPc' = "send"
    /\ UNCHANGED <<revertedTxs, opVars>>

ProposeNewBlock ==
    /\ up
    /\ \/ NothingReverted
       \/ SelectReverted
       \/ RevertedOpDoesNotFit
       \/ RevertedOpIsMissing
       \/ SelectPriorityOps
       \/ PrepareTxForBlock
    /\ UNCHANGED <<accountVars, handler, request, updates, requests, dbVars,
                   keeperVars, watchNext, clientVars, processVars>>

\* The state keeper executes what it receives before it asks again.
SendBlock ==
    /\ up /\ blocksPc = "send"
    /\ keeperNext' = keeperNext + Len(proposed.ops)
    /\ keeperOpen' = IF proposed.ops = <<>> /\ proposed.txs = <<>> THEN keeperOpen
                     ELSE Append(keeperOpen, proposed)
    /\ blocksPc' = "idle" /\ request' = NoRequest
    /\ proposed' = NoBlock /\ chunksLeft' = 0
    /\ UNCHANGED <<accountVars, queueVars, handler, updates, requests, dbVars,
                   clock, watchNext, clientVars, processVars>>

\* expect("mempool proposed block response send failed"): the state keeper has
\* dropped its end (one of the MaxCrashes faults), and the block is gone.  The
\* transaction handlers go on until the server notices.
SendFails ==
    /\ up /\ blocksPc = "send" /\ crashes < MaxCrashes
    /\ crashes' = crashes + 1
    /\ blocksPc' = "notSent" /\ request' = NoRequest
    /\ proposed' = NoBlock /\ chunksLeft' = 0
    /\ UNCHANGED <<accountVars, queueVars, handler, updates, requests, dbVars,
                   keeperVars, watchNext, clientVars, up, reverts>>

-----------------------------------------------------------------------------
(* MempoolBlocksHandler: UpdateNonces, one account update after the other. *)
(* Only this handler writes the account maps, so that the read lock and    *)
(* the write lock that UpdateBalance and ChangePubKeyHash take one after   *)
(* the other are one step.                                                 *)

ReceiveUpdateNonces ==
    /\ up /\ blocksPc = "idle" /\ requests # <<>>
    /\ Head(requests).type = "UpdateNonces"
    /\ blocksPc' = "updating" /\ updates' = Head(requests).updates
    /\ requests' = Tail(requests)
    /\ UNCHANGED <<accountVars, queueVars, handler, request, proposed, chunksLeft,
                   dbVars, keeperVars, watchNext, clientVars, processVars>>

CreateAccount(u) ==
    /\ u.type = "Create"
    /\ accountIds' = [accountIds EXCEPT ![u.id] = u.address]
    /\ accountNonces' = [accountNonces EXCEPT ![u.address] = u.nonce]

\* Mutant: the nonce of a deleted account stays.
DeleteAccountId(u) ==
    /\ u.type = "Delete"
    /\ accountIds' = [accountIds EXCEPT ![u.id] = NoAddress]
    /\ UNCHANGED accountNonces
DeleteAccount(u) ==
    /\ u.type = "Delete"
    /\ accountIds' = [accountIds EXCEPT ![u.id] = NoAddress]
    /\ accountNonces' = [accountNonces EXCEPT ![u.address] = Absent]

UpdateBalance(u) ==
    /\ u.type = "UpdateBalance"
    /\ accountNonces' = [x \in Address |->
                            IF x = accountIds[u.id] /\ x \in KnownAccounts
                            THEN u.nonce ELSE accountNonces[x]]
    /\ UNCHANGED accountIds

UpdateAccount ==
    /\ up /\ blocksPc = "updating" /\ updates # <<>>
    /\ LET u == Head(updates)
       IN CreateAccount(u) \/ DeleteAccount(u) \/ UpdateBalance(u)
    /\ updates' = Tail(updates)
    /\ UNCHANGED <<queueVars, handler, blocksPc, request, proposed, chunksLeft,
                   requests, dbVars, keeperVars, watchNext, clientVars,
                   processVars>>

UpdatesDone ==
    /\ up /\ blocksPc = "updating" /\ updates = <<>>
    /\ blocksPc' = "idle"
    /\ UNCHANGED <<accountVars, queueVars, handler, request, proposed, chunksLeft,
                   updates, requests, dbVars, keeperVars, watchNext, clientVars,
                   processVars>>

-----------------------------------------------------------------------------
(* The state keeper (external).                                            *)

GetBlockPending ==
    \/ blocksPc \in {"reverted", "ops", "txs", "send"}
    \/ \E i \in DOMAIN requests : requests[i].type = "GetBlock"

RequestBlock ==
    /\ up /\ ~GetBlockPending /\ ~Panicked
    /\ requests' = Append(requests, [type |-> "GetBlock", first |-> keeperNext,
                                     timestamp |-> clock])
    /\ UNCHANGED <<accountVars, queueVars, handler, blocksVars, dbVars,
                   keeperVars, watchNext, clientVars, processVars>>

Tick ==
    /\ up /\ clock < MaxTime
    /\ clock' = clock + 1
    /\ UNCHANGED <<accountVars, queueVars, handler, blocksVars, requests, dbVars,
                   keeperNext, keeperOpen, watchNext, clientVars, processVars>>

Update(type, address, nonce) ==
    [type |-> type, id |-> IdOf[address], address |-> address, nonce |-> nonce]

\* A transaction is executed if its nonce is that of its account; a transfer
\* creates its receiver, a close deletes its sender.
ExecuteTx(tx, s) ==
    LET nonces == s.nonces
        after == [nonces EXCEPT ![tx.account] = @ + 1]
    IN
    IF ~s.ok \/ nonces[tx.account] # tx.nonce
    THEN [s EXCEPT !.ok = FALSE]
    ELSE IF tx.kind = "close"
    THEN [s EXCEPT !.nonces = [nonces EXCEPT ![tx.account] = Absent],
                   !.updates = Append(@, Update("Delete", tx.account, 0))]
    ELSE [s EXCEPT
            !.nonces = IF tx.to \in Known(nonces) THEN after
                       ELSE [after EXCEPT ![tx.to] = 0],
            !.updates = @ \o <<Update("UpdateBalance", tx.account, tx.nonce + 1)>>
                          \o (IF tx.to \in Known(nonces) THEN <<>>
                              ELSE <<Update("Create", tx.to, 0)>>)]

\* A batch is executed as a whole or not at all.
ExecuteVariant(v, s) ==
    LET after == FoldLeft(LAMBDA t, tx : ExecuteTx(tx, t), s, TxsOf[v])
    IN IF after.ok THEN after ELSE s

Execute(txs, nonces) ==
    FoldLeft(LAMBDA s, v : ExecuteVariant(v, s),
             [nonces |-> nonces, updates |-> <<>>, ok |-> TRUE], txs)

\* The oldest open block is committed and the mempool told of its accounts.
CommitBlock ==
    LET block == Head(keeperOpen)
        executed == Execute(block.txs, dbAccounts.nonces)
        after == [nonces |-> executed.nonces, ids |-> IdsOf(executed.nonces)]
    IN
    /\ up /\ keeperOpen # <<>>
    /\ keeperOpen' = Tail(keeperOpen)
    /\ dbChain' = Append(dbChain, [first |-> block.first, ops |-> block.ops,
                                   txs |-> block.txs, before |-> dbAccounts])
    /\ dbAccounts' = after
    /\ requests' = IF Panicked \/ executed.updates = <<>> THEN requests
                   ELSE Append(requests, [type |-> "UpdateNonces",
                                          updates |-> executed.updates])
    /\ UNCHANGED <<accountVars, queueVars, handler, blocksVars, dbTxs, dbReverted,
                   dbOps, keeperNext, clock, watchNext, clientVars, processVars>>

-----------------------------------------------------------------------------
(* The process: everything but the database is lost when it stops, which   *)
(* it also does when the blocks handler has panicked (wait_for_tasks).     *)

Crash ==
    /\ up
    /\ \/ crashes < MaxCrashes /\ crashes' = crashes + 1
       \/ Panicked /\ UNCHANGED crashes
    /\ up' = FALSE
    /\ accountNonces' = [x \in Address |-> Absent]
    /\ accountIds' = [i \in AccountId |-> NoAddress]
    /\ revertedTxs' = <<>> /\ readyTxs' = <<>> /\ pendingTxs' = {}
    /\ lastProcessed' = -1 /\ priorityOps' = <<>>
    /\ handler' = [h \in Handler |-> IdleHandler]
    /\ blocksPc' = "idle" /\ request' = NoRequest /\ proposed' = NoBlock
    /\ chunksLeft' = 0 /\ updates' = <<>> /\ requests' = <<>>
    /\ keeperNext' = 0 /\ keeperOpen' = <<>>
    /\ UNCHANGED <<dbVars, clock, watchNext, clientVars, reverts>>

\* The revert tool (external) takes back the last committed block: its
\* transactions become reverted ones, marked with the operation after them.
RevertBlock ==
    LET block == Last(dbChain)
        next == block.first + Len(block.ops)
        txs == [i \in DOMAIN block.txs |-> [tx |-> block.txs[i], next |-> next]]
        others == {i \in DOMAIN dbReverted : dbReverted[i].tx \notin ToSet(block.txs)}
    IN
    /\ ~up /\ dbChain # <<>> /\ reverts < MaxReverts
    /\ reverts' = reverts + 1
    /\ dbChain' = Front(dbChain)
    /\ dbAccounts' = block.before
    /\ \E kept \in Selections(dbReverted, others) : dbReverted' = txs \o kept
    /\ dbTxs' = dbTxs \ ToSet(block.txs)
    /\ UNCHANGED <<accountVars, queueVars, handler, blocksVars, requests, dbOps,
                   keeperVars, watchNext, clientVars, up, crashes>>

\* Mutant: nothing is collected.
NoGarbage == {}
\* collect_garbage, by hash: the transactions that have been executed and
\* their "possible duplicates".
Garbage == {v \in Variant : \E w \in TxsIn(dbChain) : SameTx(v, w)}

\* restore_from_db: the garbage is collected before the transactions are loaded.
RestoreFromDb ==
    LET waiting == {i \in DOMAIN dbReverted : dbReverted[i].tx \notin Garbage} IN
    /\ ~up /\ up' = TRUE
    /\ accountNonces' = dbAccounts.nonces /\ accountIds' = dbAccounts.ids
    /\ dbTxs' = dbTxs \ Garbage
    /\ dbReverted' \in Selections(dbReverted, waiting)
    /\ revertedTxs' = dbReverted'
    /\ readyTxs' = <<>> /\ pendingTxs' = dbTxs'
    /\ lastProcessed' = DbMaxSerial
    /\ priorityOps' \in BySerial(FreshOps(DbConfirmed, <<>>, DbMaxSerial))
    /\ keeperNext' = DbMaxSerial + 1
    /\ watchNext' \in (0..MaxSerial + 1) \ DbConfirmed
    /\ 0..watchNext' - 1 \subseteq DbConfirmed
    /\ UNCHANGED <<handler, blocksVars, requests, dbOps, dbChain, dbAccounts,
                   keeperOpen, clock, clientVars, crashes, reverts>>

-----------------------------------------------------------------------------
TransactionsHandler(h) ==
    \/ \E v \in Variant : ReceiveTx(h, v)
    \/ CheckNonce(h) \/ CheckBatchSize(h)
    \/ InsertTx(h) \/ InsertTxFails(h) \/ AddTx(h)
    \/ ReceiveConfirmedOps(h) \/ ReceiveUnconfirmedOp(h)
    \/ ReadMaxSerial(h) \/ InsertOps(h) \/ OpsFail(h) \/ AddOps(h)

BlocksHandler ==
    \/ ReceiveGetBlock \/ ProposeNewBlock \/ SendBlock \/ SendFails
    \/ ReceiveUpdateNonces \/ UpdateAccount \/ UpdatesDone

StateKeeper == RequestBlock \/ Tick \/ CommitBlock

Process == Crash \/ RevertBlock \/ RestoreFromDb

Next ==
    \/ \E h \in Handler : TransactionsHandler(h)
    \/ BlocksHandler
    \/ StateKeeper
    \/ Process

Spec == Init /\ [][Next]_vars

(* Every task is scheduled again and again, the state keeper keeps asking  *)
(* for blocks and commits what it got, time goes on, a server whose blocks *)
(* handler has panicked stops, and a stopped one is started again.         *)
(* Nothing forces a client, the watcher, a database error, a failing send, *)
(* any other crash or a revert to happen.                                  *)
Serve(h) == \/ CheckNonce(h) \/ CheckBatchSize(h) \/ InsertTx(h) \/ AddTx(h)
            \/ ReadMaxSerial(h) \/ InsertOps(h) \/ AddOps(h)

Fairness ==
    /\ \A h \in Handler : WF_vars(Serve(h))
    /\ WF_vars(BlocksHandler)
    /\ WF_vars(RequestBlock) /\ WF_vars(Tick) /\ WF_vars(CommitBlock)
    /\ WF_vars(Panicked /\ Crash) /\ WF_vars(RestoreFromDb)

FairSpec == Spec /\ Fairness

-----------------------------------------------------------------------------
(* The type invariant.                                                     *)
TypeOK ==
    /\ accountNonces \in Nonces /\ accountIds \in Ids
    /\ revertedTxs \in Seq(RevertedTx) /\ readyTxs \in Seq(Variant)
    /\ pendingTxs \in SUBSET Variant
    /\ lastProcessed \in SerialId \cup {-1} /\ priorityOps \in Seq(SerialId)
    /\ handler \in [Handler -> HandlerState]
    /\ \A h \in Handler :
        handler[h].pc \in {"nonce", "size", "insert", "add"} =>
            /\ handler[h].variant \in Variant
            /\ handler[h].index \in DOMAIN TxsOf[handler[h].variant]
    /\ blocksPc \in BlocksPc /\ request \in GetBlockRequest /\ proposed \in Block
    /\ updates \in Seq(AccountUpdate)
    /\ requests \in Seq(GetBlockRequest \cup UpdateNoncesRequest)
    /\ dbTxs \in SUBSET Variant /\ dbReverted \in Seq(RevertedTx)
    /\ dbOps \in [SerialId -> {"none", "unconfirmed", "confirmed"}]
    /\ dbChain \in Seq(ChainBlock) /\ dbAccounts \in AccountTree
    /\ keeperNext \in Nat /\ keeperOpen \in Seq(Block) /\ clock \in 0..MaxTime
    /\ watchNext \in 0..MaxSerial + 1
    /\ submitted \in SUBSET Variant /\ acked \in SUBSET Variant
    /\ up \in BOOLEAN /\ crashes \in 0..MaxCrashes /\ reverts \in 0..MaxReverts

-----------------------------------------------------------------------------
(* Transactions.                                                           *)

RevertedIn(s) == {s[i].tx : i \in DOMAIN s}
Durable == dbTxs \cup RevertedIn(dbReverted) \cup TxsIn(dbChain)
InMemory == pendingTxs \cup ToSet(readyTxs) \cup RevertedIn(revertedTxs)
                \cup ToSet(proposed.txs) \cup TxsIn(keeperOpen)

AmongSame(v, variants) == \E w \in variants : SameTx(v, w)

(* What a client was told is in the mempool survives any crash: add_tx and *)
(* add_batch write to the database before they touch the memory pool and   *)
(* before they answer, and nothing that the blocks handler or the state    *)
(* keeper holds exists in memory only.  (The head of mod.rs says the       *)
(* contrary: "all transactions will be lost on node shutdown".)  Of a      *)
(* transaction that was sent twice, collect_garbage may keep one copy.     *)
AckedIsDurable ==
    /\ \A v \in acked : AmongSame(v, Durable)
    /\ InMemory \subseteq Durable

(* While the server runs, an accepted transaction is always somewhere: a   *)
(* queue, the block under construction, a block that the state keeper has  *)
(* not committed, or the chain.  The pops, push-backs and early returns of *)
(* the three selections lose none.  Only the send that fails does: until   *)
(* the server stops, its transactions are left in the database alone, in   *)
(* the tables that the restart loads.                                      *)
NoTxLost ==
    up => \A v \in acked :
            \/ AmongSame(v, InMemory \cup TxsIn(dbChain))
            \/ /\ blocksPc = "notSent"
               /\ AmongSame(v, dbTxs \cup RevertedIn(dbReverted))

Occurrences(v, s) == Cardinality({i \in DOMAIN s : s[i] = v})
TxsOfBlocks(blocks) == FlattenSeq([i \in DOMAIN blocks |-> blocks[i].txs])

(* What was accepted once is never in two places at once, so that a        *)
(* transaction is executed at most as often as it has been accepted: the   *)
(* garbage collection of restore_from_db and the pops of the selections    *)
(* keep the queues, the open blocks and the chain disjoint.  (Nothing      *)
(* looks for a transaction that is already queued: accepted twice, it is   *)
(* queued twice.)                                                          *)
TxAtMostOnce ==
    \A v \in Variant :
        (IF v \in pendingTxs THEN 1 ELSE 0)
        + Occurrences(v, readyTxs)
        + Cardinality({i \in DOMAIN revertedTxs : revertedTxs[i].tx = v})
        + Occurrences(v, proposed.txs)
        + Occurrences(v, TxsOfBlocks(keeperOpen))
        + (IF up THEN Occurrences(v, TxsOfBlocks(dbChain)) ELSE 0) <= 1

(* A proposed block fits max_block_size_chunks, counted with the accounts  *)
(* known when it is sent, although its parts are selected under separate   *)
(* locks.                                                                  *)
BlockFits ==
    blocksPc = "send" =>
        ChunksOfOps(proposed.ops) + ChunksOfTxs(proposed.txs, KnownAccounts)
            <= MaxBlockChunks

(* Once the UpdateNonces messages have been applied, the mempool's account *)
(* maps are the committed ones ("When block is committed, nonces of the    *)
(* account tree should be updated too").                                   *)
AccountsFollowChain ==
    up /\ updates = <<>> /\ ~Panicked
       /\ (\A i \in DOMAIN requests : requests[i].type # "UpdateNonces")
    => accountNonces = dbAccounts.nonces /\ accountIds = dbAccounts.ids

-----------------------------------------------------------------------------
(* Priority operations.                                                    *)

OpsOfBlocks(blocks) == UNION {ToSet(blocks[i].ops) : i \in DOMAIN blocks}

(* An operation is queued at most once, although the watcher sends it many *)
(* times, several handlers add it and the blocks handler pushes it back.   *)
NoOpTwice ==
    \A i, j \in DOMAIN priorityOps : priorityOps[i] = priorityOps[j] => i = j

(* The operations are executed in the order of their serial ids, without a *)
(* gap: the blocks that are committed, open and proposed continue one      *)
(* another.                                                                *)
AllBlocks == [i \in DOMAIN dbChain |-> [first |-> dbChain[i].first,
                                        ops |-> dbChain[i].ops]]
             \o [i \in DOMAIN keeperOpen |-> [first |-> keeperOpen[i].first,
                                              ops |-> keeperOpen[i].ops]]
             \o (IF blocksPc = "send"
                 THEN <<[first |-> proposed.first, ops |-> proposed.ops]>> ELSE <<>>)
OpsInOrder ==
    LET ops == FlattenSeq([i \in DOMAIN AllBlocks |-> AllBlocks[i].ops])
    IN \A i \in DOMAIN ops : ops[i] = i - 1

(* A confirmed operation that is not executed yet is never lost: it is in  *)
(* the queue, in the block under construction, or with the handler that    *)
(* has stored it and waits for the lock.                                   *)
NoOpLost ==
    up /\ ~Panicked =>
        \A s \in DbConfirmed :
            \/ s < keeperNext
            \/ s \in ToSet(priorityOps) \cup ToSet(proposed.ops)
            \/ \E h \in Handler : handler[h].pc = "addOps" /\ s \in handler[h].ops

(* The operation that comes before a reverted transaction is found in the  *)
(* queue (the panic of select_reverted_operations is not reached).         *)
RevertedOpsAreFound == blocksPc # "missingOp"

(* The operations come in the order of their serial ids (the assertion of  *)
(* select_priority_ops holds).                                             *)
QueueInOrder == blocksPc # "wrongOrder"

-----------------------------------------------------------------------------
(* Reverted blocks.                                                        *)

(* What is accepted fits an empty block whatever accounts are known, and   *)
(* so does an operation: only the size of a batch is checked on arrival.   *)
FitsAlways(v) ==
    \A known \in SUBSET Address : RequiredChunks(v, known) <= MaxBlockChunks
SizesSettled ==
    /\ \A s \in SerialId : OpChunks[s] <= MaxBlockChunks
    /\ \A v \in Variant, known \in SUBSET Address :
        v \in Batch /\ RequiredChunks(v, known) <= MaxBlockChunks => FitsAlways(v)
    /\ \A v \in Variant \ Batch : FitsAlways(v)

(* A reverted transaction is executed again behind the same priority       *)
(* operations as before.                                                   *)
RevertedInPlace ==
    blocksPc = "send" =>
        \A i \in DOMAIN dbReverted :
            dbReverted[i].tx \in ToSet(proposed.txs) =>
                proposed.first + Len(proposed.ops) = dbReverted[i].next

-----------------------------------------------------------------------------
(* The promise of the mempool: what it stores, answers and hands to the    *)
(* state keeper makes the ledger of Ledger.tla, through every interleaving *)
(* of the handlers, crash, restore and reverted block.  Only confirmed     *)
(* operations get into a block ("Add to queue only confirmed priority      *)
(* operations"), in order, and each transaction as often as it was accepted *)
(* at most.                                                                *)
LedgerBlock(b) == [first |-> b.first, ops |-> b.ops, txs |-> b.txs]
Promised == INSTANCE Ledger WITH stored <- Durable, answered <- acked,
                confirmed <- DbConfirmed,
                chain <- [i \in DOMAIN dbChain |-> LedgerBlock(dbChain[i])]
ImplementsLedger == Promised!Spec

-----------------------------------------------------------------------------
(* Progress.                                                               *)

(* Every accepted transaction is committed in the end, even at the last    *)
(* timestamp: at its valid_from a transaction is ready (the comment of the *)
(* handler says later than that).  A failing send of the block that had    *)
(* it, a crash and a restart only delay it.                                *)
AcceptedIsCommitted ==
    \A v \in Variant : v \in acked ~> AmongSame(v, TxsIn(dbChain))

(* Every confirmed operation is executed in the end.                       *)
ConfirmedIsExecuted ==
    \A s \in SerialId : dbOps[s] = "confirmed" ~> s \in OpsOfBlocks(dbChain)
=============================================================================
