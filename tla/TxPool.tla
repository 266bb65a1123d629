------------------------------- MODULE TxPool -------------------------------
(***************************************************************************)
(* The transaction pool of anvil (eth/pool/mod.rs, eth/pool/transactions.rs),*)
(* the RPCs that add and remove transactions (eth/api.rs), and the blocks   *)
(* that consume them (backend/executor.rs, Pool::on_mined_block).           *)
(*                                                                         *)
(* A transaction provides the marker <<sender, nonce>> and requires the     *)
(* marker of the nonce before it, unless the chain had already used that    *)
(* nonce when it was submitted.  It waits until every required marker is    *)
(* provided, and is then ready; ready transactions are linked to the ones   *)
(* they unlock, and a block walks those links.                              *)
(*                                                                         *)
(* The loops of the pool run under its write lock.  Each iteration is a     *)
(* step, and `job` holds what is left to do: every other operation of the   *)
(* pool waits until it is empty.  Blocks, submissions, snapshots and        *)
(* rollbacks also exclude one another by the mining mutex; the RPCs that    *)
(* drop transactions do not take part in it.                                *)
(***************************************************************************)
EXTENDS Integers, FiniteSets, Sequences

CONSTANTS
    Txs,           \* transactions, records [sender, nonce, fee]; one is one hash
    Senders,       \* accounts
    Authorities,   \* accounts whose nonce others' transactions may raise: the
                   \* signers of EIP-7702 authorizations
    MaxNonce,      \* bound on the nonces of accounts
    Order,         \* TransactionOrder: "fees" or "fifo"
    MaxHeight,     \* bound on the number of blocks mined
    MaxSnapshots,  \* bound on the snapshots held at a time
    AllowSetNonce, \* whether anvil_setNonce is called
    AllowRollback  \* whether anvil_rollback is called

Nonces == 0..MaxNonce

ASSUME PoolAssumption ==
    /\ Txs \subseteq [sender : Senders, nonce : Nonces, fee : Nat]
    /\ IsFiniteSet(Txs)
    /\ Authorities \subseteq Senders
    /\ MaxNonce \in Nat
    /\ Order \in {"fees", "fifo"}
    /\ MaxHeight \in Nat
    /\ MaxSnapshots \in Nat
    /\ AllowSetNonce \in BOOLEAN
    /\ AllowRollback \in BOOLEAN

VARIABLES
    pool,      \* PoolInner: the ready and the waiting transactions, indexed
    job,       \* what the holder of the pool's write lock still has to do
    block,     \* the block being mined, under the mining mutex
    heads,     \* account nonces after each block of the chain
    snapshots  \* snapshots of pool and chain

vars == <<pool, job, block, heads, snapshots>>

----------------------------------------------------------------------------
(* Functions as maps. *)
Without(f, S) == [x \in DOMAIN f \ S |-> f[x]]
Put(f, k, v) == [x \in DOMAIN f \cup {k} |-> IF x = k THEN v ELSE f[x]]

(* Markers. *)
Provides(t) == <<t.sender, t.nonce>>

ProvidedBy(S) == {Provides(t) : t \in S}

\* Slip: the first nonce of an account has itself for a predecessor.
WrongRequiredMarkerZero(t, onChain) ==
    LET prev == IF t.nonce = 0 THEN 0 ELSE t.nonce - 1
    IN  IF onChain > prev THEN {} ELSE {<<t.sender, prev>>}

RequiredMarker(t, onChain) ==
    LET prev == IF t.nonce = 0 THEN 0 ELSE t.nonce - 1
    IN  IF t.nonce = onChain \/ onChain > prev THEN {}
        ELSE {<<t.sender, prev>>}

Priority(t) == IF Order = "fees" THEN t.fee ELSE 0

(* ready:    ReadyTransaction by hash, what it requires, unlocks, and how   *)
(*           many of its requirements were met from outside the queue       *)
(* older:    the order of the ready transactions' ids                       *)
(* waiting:  PendingPoolTransaction by hash, what it requires, is missing   *)
EmptyPool ==
    [ready |-> <<>>, provided |-> <<>>, independent |-> {}, older |-> {},
     waiting |-> <<>>, required |-> <<>>, waitingMarkers |-> <<>>]

NoJob == [queue |-> {}, new |-> FALSE, markers |-> {}, stack |-> {}]

NoBlock == [state |-> "none", all |-> <<>>, best |-> {}, older |-> {},
            left |-> 0, yielded |-> {}, unavailable |-> {}, included |-> {},
            stale |-> {}, invalid |-> {}, nonces |-> <<>>]

Genesis == [s \in Senders |-> 0]

Head_ == heads[Len(heads)]

Init ==
    /\ pool = EmptyPool
    /\ job = NoJob
    /\ block = NoBlock
    /\ heads = <<Genesis>>
    /\ snapshots = <<>>

\* The pool's lock is free.
Unlocked == job = NoJob

\* The mining mutex is free as well.
MutexFree == Unlocked /\ block.state = "none"

InPool(t) == t \in DOMAIN pool.ready \/ t \in DOMAIN pool.waiting

----------------------------------------------------------------------------
(* PendingTransactions *)

\* The transactions that mark_and_unlock takes out of the waiting queue.
UnlockedBy(p, m) ==
    IF m \notin DOMAIN p.required THEN {}
    ELSE {t \in p.required[m] : p.waiting[t].missing \subseteq {m}}

\* PendingPoolTransaction::mark
Mark(w, m) == [w EXCEPT !.missing = @ \ {m}]

MarkAndUnlock(p, m) ==
    [p EXCEPT
        !.required = Without(@, {m}),
        !.waiting = [t \in DOMAIN @ \ UnlockedBy(p, m) |->
                        IF m \in DOMAIN p.required /\ t \in p.required[m]
                        THEN Mark(@[t], m) ELSE @[t]],
        !.waitingMarkers = Without(@, ProvidedBy(UnlockedBy(p, m)))]

\* An unlocked transaction as it enters the ready queue.
Entry(p, t) == [tx |-> t, requires |-> p.waiting[t].requires]

Entries(p, m) == {Entry(p, t) : t \in UnlockedBy(p, m)}

\* Slip: the removed transactions stay in the index of missing markers.
WrongRemoveWaiting(p, S) ==
    LET gone == S \cap DOMAIN p.waiting
    IN  [p EXCEPT !.waiting = Without(@, gone),
                  !.waitingMarkers = Without(@, ProvidedBy(gone))]

RemoveWaiting(p, S) ==
    LET gone == S \cap DOMAIN p.waiting
        rest(m) == p.required[m] \ {t \in gone : m \in p.waiting[t].missing}
    IN  [p EXCEPT
            !.waiting = Without(@, gone),
            !.waitingMarkers = Without(@, ProvidedBy(gone)),
            !.required = [m \in {n \in DOMAIN @ : rest(n) # {}} |-> rest(m)]]

\* What remove_with_dependents removes: S, whatever requires one of
\* `markers`, and in turn whatever requires what those provide.
WaitingDependents(p, S, markers) ==
    {t \in DOMAIN p.waiting :
        \A X \in SUBSET DOMAIN p.waiting :
            (\A u \in DOMAIN p.waiting :
                u \in S \/ p.waiting[u].requires
                             \cap (markers \cup ProvidedBy(X)) # {}
                    => u \in X)
            => t \in X}

\* Slip: what the ready queue already provides is not taken into account.
WrongMissingMarkers(p, requires) == requires

\* PendingPoolTransaction::new
MissingMarkers(p, requires) == requires \ DOMAIN p.provided

WaitingReplaced(p, t) ==
    IF Provides(t) \in DOMAIN p.waitingMarkers
    THEN {p.waitingMarkers[Provides(t)]} \cap DOMAIN p.waiting ELSE {}

\* PendingTransactions::add_transaction; an underpriced one is refused.
AddWaiting(p, t, requires, missing) ==
    IF \E u \in WaitingReplaced(p, t) : t.fee <= u.fee THEN p
    ELSE LET q == RemoveWaiting(p, WaitingReplaced(p, t))
             req(m) == IF m \in DOMAIN q.required THEN q.required[m] ELSE {}
         IN  [q EXCEPT
                !.waiting = Put(@, t, [requires |-> requires,
                                       missing |-> missing]),
                !.waitingMarkers = Put(@, Provides(t), t),
                !.required = [m \in DOMAIN @ \cup missing |->
                                req(m) \cup (IF m \in missing THEN {t}
                                             ELSE {})]]

----------------------------------------------------------------------------
(* ReadyTransactions *)

\* S and the ready transactions that it unlocks, transitively.
ReadyDependents(p, S) ==
    {t \in DOMAIN p.ready :
        \A X \in SUBSET DOMAIN p.ready :
            (\A u \in DOMAIN p.ready :
                u \in S \/ (\E x \in X : u \in p.ready[x].unlocks) => u \in X)
            => t \in X}

\* The links of an entry, and the requirements that have left the queue.
Unlocking(e, S) == [e EXCEPT !.unlocks = @ \cup S]
NotUnlocking(e, S) == [e EXCEPT !.unlocks = @ \ S]
OneMoreMet(e) == [e EXCEPT !.offset = @ + 1]

\* Slip: the provider keeps its link to a removed transaction.
WrongUnlink(p, gone) ==
    [p EXCEPT
        !.ready = Without(@, gone),
        !.independent = @ \ gone,
        !.older = {pair \in @ : pair[1] \notin gone /\ pair[2] \notin gone}]

\* The links and orders that are left when `gone` leaves the ready queue.
Unlink(p, gone) ==
    [p EXCEPT
        !.ready = [x \in DOMAIN @ \ gone |->
                    NotUnlocking(@[x],
                        {t \in gone : Provides(x) \in p.ready[t].requires})],
        !.independent = @ \ gone,
        !.older = {pair \in @ : pair[1] \notin gone /\ pair[2] \notin gone}]

\* remove_with_markers without a filter
RemoveReady(p, S) ==
    LET gone == ReadyDependents(p, S)
    IN  [Unlink(p, gone) EXCEPT !.provided = Without(@, ProvidedBy(gone))]

\* The transaction that t would replace.
ReadyReplaced(p, t) ==
    IF Provides(t) \in DOMAIN p.provided
    THEN {p.provided[Provides(t)]} \cap DOMAIN p.ready ELSE {}

Underpriced(p, t) == \E u \in ReadyReplaced(p, t) : t.fee <= u.fee

(* ReadyTransactions::add_transaction of an entry that is not underpriced: *)
(* what it replaces hands over the transactions it unlocks, and the        *)
(* providers of its requirements unlock it.                                *)
AddReady(p, e) ==
    LET t == e.tx
        old == ReadyReplaced(p, t)
        q == Unlink(p, old)
        inherited == UNION {p.ready[u].unlocks : u \in old}
        linked == {m \in e.requires : m \in DOMAIN q.provided}
        providers == {q.provided[m] : m \in linked}
    IN  [q EXCEPT
            !.ready = Put([x \in DOMAIN @ |->
                              IF x \in providers THEN Unlocking(@[x], {t})
                              ELSE @[x]],
                          t, [requires |-> e.requires, unlocks |-> inherited,
                              offset |-> Cardinality(e.requires \ linked)]),
            !.provided = Put(@, Provides(t), t),
            !.independent = IF linked = {} THEN @ \cup {t} ELSE @,
            !.older = @ \cup ((DOMAIN q.ready) \X {t})]

----------------------------------------------------------------------------
(* add_ready_transaction, one transaction of its queue per step.  The      *)
(* waiting transactions that the current one unlocks are taken out before  *)
(* it is known whether it is accepted: if the new transaction is refused,  *)
(* the whole operation returns.                                            *)
AddStep ==
    /\ job.markers = {} /\ job.stack = {}
    /\ \E e \in job.queue :
          LET p == MarkAndUnlock(pool, Provides(e.tx))
              queue == (job.queue \ {e}) \cup Entries(pool, Provides(e.tx))
          IN  \/ /\ Underpriced(p, e.tx)
                 /\ pool' = p
                 /\ job' = [job EXCEPT !.queue = IF job.new THEN {} ELSE queue,
                                       !.new = FALSE]
              \/ /\ ~Underpriced(p, e.tx)
                 /\ pool' = AddReady(p, e)
                 /\ job' = [job EXCEPT !.queue = queue, !.new = FALSE]
    /\ UNCHANGED <<block, heads, snapshots>>

\* Slip: a transaction is added while a block is being mined.
WrongSubmitTx(t) ==
    /\ Unlocked
    /\ t.nonce >= Head_[t.sender]
    /\ ~InPool(t)
    /\ LET requires == RequiredMarker(t, Head_[t.sender])
           missing == MissingMarkers(pool, requires)
       IN  IF missing # {}
           THEN /\ pool' = AddWaiting(pool, t, requires, missing)
                /\ UNCHANGED job
           ELSE /\ job' = [NoJob EXCEPT
                             !.queue = {[tx |-> t, requires |-> requires]},
                             !.new = TRUE]
                /\ UNCHANGED pool
    /\ UNCHANGED <<block, heads, snapshots>>

(* eth_sendTransaction: nonces the chain has used, and transactions the    *)
(* pool holds, are refused.                                                *)
SubmitTx(t) ==
    /\ MutexFree
    /\ t.nonce >= Head_[t.sender]
    /\ ~InPool(t)
    /\ LET requires == RequiredMarker(t, Head_[t.sender])
           missing == MissingMarkers(pool, requires)
       IN  IF missing # {}
           THEN /\ pool' = AddWaiting(pool, t, requires, missing)
                /\ UNCHANGED job
           ELSE /\ job' = [NoJob EXCEPT
                             !.queue = {[tx |-> t, requires |-> requires]},
                             !.new = TRUE]
                /\ UNCHANGED pool
    /\ UNCHANGED <<block, heads, snapshots>>

----------------------------------------------------------------------------
(* The RPCs that remove transactions. *)

\* anvil_dropTransaction
DropTransaction(t) ==
    /\ Unlocked
    /\ InPool(t)
    /\ LET markers == ProvidedBy(ReadyDependents(pool, {t}))
           p == RemoveReady(pool, {t})
       IN  pool' = RemoveWaiting(p, WaitingDependents(p, {t}, markers))
    /\ UNCHANGED <<job, block, heads, snapshots>>

RemoveInvalid(p, S) == RemoveWaiting(RemoveReady(p, S), S)

\* anvil_removePoolTransactions
RemoveTransactionsByAddress(s) ==
    /\ Unlocked
    /\ pool' = RemoveInvalid(pool, {t \in Txs : InPool(t) /\ t.sender = s})
    /\ UNCHANGED <<job, block, heads, snapshots>>

\* anvil_dropAllTransactions, debug_clearTxpool
Clear ==
    /\ Unlocked
    /\ pool' = EmptyPool
    /\ UNCHANGED <<job, block, heads, snapshots>>

----------------------------------------------------------------------------
(* Blocks.  TransactionsIterator works on a copy of the ready queue.        *)

\* ready_transactions().take(k), under the mining mutex
StartBlock(k) ==
    /\ MutexFree
    /\ Len(heads) <= MaxHeight
    /\ k \in 0..Cardinality(DOMAIN pool.ready)
    /\ block' = [NoBlock EXCEPT
                    !.state = "executing", !.all = pool.ready,
                    !.best = pool.independent, !.older = pool.older,
                    !.left = k, !.nonces = Head_]
    /\ UNCHANGED <<pool, job, heads, snapshots>>

\* The order of PoolTransactionRef: the higher priority, then the lower id.
Before(t, u) ==
    \/ Priority(t) > Priority(u)
    \/ Priority(t) = Priority(u) /\ <<t, u>> \in block.older

IsBest(t) ==
    /\ t \in block.best
    /\ \A u \in block.best \ {t} : Before(t, u)

\* Slip: the requirement met just now is not counted.
WrongUnlockedInBlock(t) ==
    {u \in block.all[t].unlocks \cap DOMAIN block.all :
        block.all[u].offset >= Cardinality(block.all[u].requires)}

(* What the iterator makes available once t is taken.  A transaction has   *)
(* at most one requirement, so nothing is left in `awaiting`.              *)
UnlockedInBlock(t) ==
    {u \in block.all[t].unlocks \cap DOMAIN block.all :
        block.all[u].offset + 1 >= Cardinality(block.all[u].requires)}

\* The iterator yields t.
Yield(t) ==
    [block EXCEPT !.best = (@ \ {t}) \cup UnlockedInBlock(t),
                  !.left = @ - 1,
                  !.yielded = @ \cup {t}]

DependencyUnavailable(t) ==
    block.all[t].requires \cap block.unavailable # {}

(* The nonces once t is executed: its sender's is one higher, and every    *)
(* authorization it carries, and every contract that a delegated account   *)
(* creates, raises the nonce of an account that sent nothing.              *)
NoncesAfter(t) ==
    LET own(s) == block.nonces[s] + (IF s = t.sender THEN 1 ELSE 0)
    IN  {n \in [Senders -> Nonces] :
            /\ \A s \in Senders \ Authorities : n[s] = own(s)
            /\ \A s \in Authorities : n[s] >= own(s)}

(* execute_pool_transactions, one transaction per step: it is left in the  *)
(* pool (its dependency was, it is not valid yet, a gas limit is reached,  *)
(* the database fails), stale, invalid (a nonce above the account's always *)
(* is) or included.                                                        *)
ExecuteNext ==
    /\ block.state = "executing"
    /\ block.left > 0
    /\ \E t \in DOMAIN block.all :
          /\ IsBest(t)
          /\ LET b == Yield(t)
                 nonce == block.nonces[t.sender]
             IN  \/ block' = [b EXCEPT !.unavailable = @ \cup {Provides(t)}]
                 \/ /\ ~DependencyUnavailable(t)
                    /\ t.nonce < nonce
                    /\ block' = [b EXCEPT !.stale = @ \cup {t}]
                 \/ /\ ~DependencyUnavailable(t)
                    /\ t.nonce >= nonce
                    /\ block' = [b EXCEPT !.invalid = @ \cup {t}]
                 \/ /\ ~DependencyUnavailable(t)
                    /\ t.nonce = nonce
                    /\ nonce < MaxNonce
                    /\ \E n \in NoncesAfter(t) :
                          block' = [b EXCEPT !.included = @ \cup {t},
                                             !.nonces = n]
    /\ UNCHANGED <<pool, job, heads, snapshots>>

BlockDone == block.left = 0 \/ block.best \cap DOMAIN block.all = {}

CommitBlock ==
    /\ block.state = "executing"
    /\ BlockDone
    /\ heads' = Append(heads, block.nonces)
    /\ block' = [block EXCEPT !.state = "mined"]
    /\ UNCHANGED <<pool, job, snapshots>>

\* mine_block_locked returns an error; the pool hears nothing.
FailBlock ==
    /\ block.state = "executing"
    /\ BlockDone
    /\ block' = NoBlock
    /\ UNCHANGED <<pool, job, heads, snapshots>>

(* on_mined_block removes the invalid transactions, and then, under a lock *)
(* of its own, prunes the markers of the included and stale ones.          *)
OnMinedInvalid ==
    /\ block.state = "mined"
    /\ Unlocked
    /\ pool' = RemoveInvalid(pool, block.invalid)
    /\ block' = [block EXCEPT !.state = "pruning"]
    /\ UNCHANGED <<job, heads, snapshots>>

OnMinedPrune ==
    /\ block.state = "pruning"
    /\ Unlocked
    /\ job' = [NoJob EXCEPT !.markers = ProvidedBy(block.included
                                                     \cup block.stale)]
    /\ block' = NoBlock
    /\ UNCHANGED <<pool, heads, snapshots>>

----------------------------------------------------------------------------
(* prune_markers: for each marker, unlock what waits for it, then prune its *)
(* provider; the unlocked transactions are added at the end.               *)
PruneMarker ==
    /\ job.stack = {}
    /\ \E m \in job.markers :
          /\ pool' = MarkAndUnlock(pool, m)
          /\ job' = [job EXCEPT !.markers = @ \ {m},
                                !.queue = @ \cup Entries(pool, m),
                                !.stack = {m}]
    /\ UNCHANGED <<block, heads, snapshots>>

\* Slip: the walk goes on to those that t unlocks.
WrongPrevious(p, t) == p.ready[t].unlocks \cap DOMAIN p.ready

\* The providers of t's requirements that unlock nothing once t is gone.
Previous(p, t) ==
    {u \in {p.provided[m] : m \in p.ready[t].requires \cap DOMAIN p.provided} :
        u \in DOMAIN p.ready /\ p.ready[u].unlocks \subseteq {t}}

\* One iteration of prune_tags: t, which provides the marker, leaves.
PruneReady(p, t) ==
    LET q == Unlink(p, {t})
        freed == p.ready[t].unlocks \cap DOMAIN q.ready
    IN  [q EXCEPT
            !.ready = [x \in DOMAIN @ |->
                          IF x \in freed THEN OneMoreMet(@[x]) ELSE @[x]],
            !.independent = @ \cup {x \in freed :
                p.ready[x].offset + 1 = Cardinality(p.ready[x].requires)},
            !.provided = Without(@, {Provides(t)})]

PruneTag ==
    /\ \E m \in job.stack :
          LET t == pool.provided[m]
          IN  IF m \in DOMAIN pool.provided /\ t \in DOMAIN pool.ready
              THEN /\ pool' = PruneReady(pool, t)
                   /\ job' = [job EXCEPT
                        !.stack = (@ \ {m}) \cup ProvidedBy(Previous(pool, t))]
              ELSE /\ pool' = [pool EXCEPT !.provided = Without(@, {m})]
                   /\ job' = [job EXCEPT !.stack = @ \ {m}]
    /\ UNCHANGED <<block, heads, snapshots>>

----------------------------------------------------------------------------
(* The chain's RPCs. *)

\* anvil_setNonce writes the state under the database lock a block holds.
SetNonce(s, n) ==
    /\ AllowSetNonce
    /\ block.state # "executing"
    /\ heads' = [heads EXCEPT ![Len(heads)][s] = n]
    /\ UNCHANGED <<pool, job, block, snapshots>>

(* anvil_rollback leaves the pool alone.  A snapshot whose head block is   *)
(* no longer canonical stays in the list but cannot be reverted to.        *)
Rollback(height) ==
    /\ AllowRollback
    /\ MutexFree
    /\ height \in 1..Len(heads) - 1
    /\ heads' = SubSeq(heads, 1, height)
    /\ snapshots' = [i \in DOMAIN snapshots |->
                        [snapshots[i] EXCEPT
                            !.canonical = @ /\ Len(snapshots[i].heads) <= height]]
    /\ UNCHANGED <<pool, job, block>>

\* evm_snapshot
TakeSnapshot ==
    /\ MutexFree
    /\ Len(snapshots) < MaxSnapshots
    /\ snapshots' = Append(snapshots, [pool |-> pool, heads |-> heads,
                                       canonical |-> TRUE])
    /\ UNCHANGED <<pool, job, block, heads>>

\* Slip: the chain is restored, the pool is not.
WrongRevertSnapshot(i) ==
    /\ MutexFree
    /\ i \in 1..Len(snapshots)
    /\ snapshots[i].canonical
    /\ heads' = snapshots[i].heads
    /\ snapshots' = SubSeq(snapshots, 1, i - 1)
    /\ UNCHANGED <<pool, job, block>>

\* evm_revert
RevertSnapshot(i) ==
    /\ MutexFree
    /\ i \in 1..Len(snapshots)
    /\ snapshots[i].canonical
    /\ pool' = snapshots[i].pool
    /\ heads' = snapshots[i].heads
    /\ snapshots' = SubSeq(snapshots, 1, i - 1)
    /\ UNCHANGED <<job, block>>

\* anvil_reset
Reset ==
    /\ MutexFree
    /\ pool' = EmptyPool
    /\ heads' = <<Genesis>>
    /\ snapshots' = <<>>
    /\ UNCHANGED <<job, block>>

----------------------------------------------------------------------------
PoolStep ==
    \/ \E t \in Txs : SubmitTx(t) \/ DropTransaction(t)
    \/ \E s \in Senders : RemoveTransactionsByAddress(s)
    \/ Clear
    \/ AddStep

BlockStep ==
    \/ \E k \in 0..Cardinality(Txs) : StartBlock(k)
    \/ ExecuteNext \/ CommitBlock \/ FailBlock
    \/ OnMinedInvalid \/ OnMinedPrune
    \/ PruneMarker \/ PruneTag

ChainStep ==
    \/ \E s \in Senders, n \in Nonces : SetNonce(s, n)
    \/ \E height \in 1..MaxHeight : Rollback(height)
    \/ TakeSnapshot
    \/ \E i \in 1..MaxSnapshots : RevertSnapshot(i)
    \/ Reset

Next == PoolStep \/ BlockStep \/ ChainStep

Spec == Init /\ [][Next]_vars

----------------------------------------------------------------------------
Markers == Senders \X Nonces

IsMap(f, keys, values) == /\ DOMAIN f \subseteq keys
                          /\ \A x \in DOMAIN f : f[x] \in values

ReadyEntries == [requires : SUBSET Markers, unlocks : SUBSET Txs, offset : Nat]

PoolType(p) ==
    /\ DOMAIN p = DOMAIN EmptyPool
    /\ IsMap(p.ready, Txs, ReadyEntries)
    /\ IsMap(p.provided, Markers, Txs)
    /\ p.independent \subseteq Txs
    /\ p.older \subseteq Txs \X Txs
    /\ IsMap(p.waiting, Txs, [requires : SUBSET Markers,
                              missing : (SUBSET Markers) \ {{}}])
    /\ IsMap(p.required, Markers, SUBSET Txs)
    /\ IsMap(p.waitingMarkers, Markers, Txs)

TypeOK ==
    /\ PoolType(pool)
    /\ job.queue \subseteq [tx : Txs, requires : SUBSET Markers]
    /\ job.new \in BOOLEAN
    /\ job.markers \subseteq Markers /\ job.stack \subseteq Markers
    /\ block.state \in {"none", "executing", "mined", "pruning"}
    /\ IsMap(block.all, Txs, ReadyEntries)
    /\ block.best \subseteq Txs /\ block.yielded \subseteq Txs
    /\ block.left \in Nat
    /\ heads \in Seq([Senders -> Nonces]) /\ heads # <<>>
    /\ \A i \in DOMAIN snapshots : PoolType(snapshots[i].pool)

(* The indexes of the pool describe its queues, so that no lookup through  *)
(* an index that the code takes for granted panics ("hash included;", "tx  *)
(* is included;", "transaction already included"): a marker is provided by *)
(* exactly the ready transaction of that sender and nonce, the waiting     *)
(* transactions are indexed by what they miss and by what they provide,    *)
(* and a transaction about to be added is in neither queue.                *)
IndexesAgree ==
    LET ready == DOMAIN pool.ready
        waiting == DOMAIN pool.waiting
    IN  /\ ready \cap waiting = {}
        /\ DOMAIN pool.provided = ProvidedBy(ready)
        /\ \A t \in ready : pool.provided[Provides(t)] = t
        /\ DOMAIN pool.waitingMarkers = ProvidedBy(waiting)
        /\ \A t \in waiting : pool.waitingMarkers[Provides(t)] = t
        /\ DOMAIN pool.required = UNION {pool.waiting[t].missing : t \in waiting}
        /\ \A m \in DOMAIN pool.required :
              pool.required[m] = {t \in waiting : m \in pool.waiting[t].missing}
        /\ \A e \in job.queue : ~InPool(e.tx)

(* Every ready transaction is reached by a block in exactly one way: it is *)
(* independent, or the one ready transaction that provides what it         *)
(* requires unlocks it; links into the ready queue never dangle.           *)
LinksExact ==
    \A t \in DOMAIN pool.ready :
        LET parents == {u \in DOMAIN pool.ready : t \in pool.ready[u].unlocks}
        IN  /\ pool.ready[t].unlocks \subseteq DOMAIN pool.ready
            /\ t \in pool.independent <=> parents = {}
            /\ \A u \in parents : /\ Provides(u) \in pool.ready[t].requires
                                  /\ parents = {u}
            /\ t \in pool.independent <=>
                  pool.ready[t].offset = Cardinality(pool.ready[t].requires)

(* No transaction waits for a marker that a ready transaction provides: it *)
(* was promoted when that marker appeared, whatever was replaced, dropped, *)
(* pruned or restored since.                                               *)
NoneWaitsForProvided ==
    \A t \in DOMAIN pool.waiting :
        pool.waiting[t].missing \cap DOMAIN pool.provided = {}

(* A block promotes nobody when it is pruned: whoever requires what one of *)
(* its transactions provides became ready with that transaction, is        *)
(* dropped with it, and cannot be submitted before the pruning is over.    *)
(* (prune_markers has code for promotions, where a refused one would take  *)
(* those it unlocks along.)                                                *)
PruningPromotesNobody == job.markers # {} \/ job.stack # {} => job.queue = {}

(* The iterator a block is built from yields every ready transaction of    *)
(* the moment it was created, and none twice, when it is run to its end.   *)
YieldsEachOnce ==
    block.state = "executing" =>
        /\ block.best \cap block.yielded = {}
        /\ block.best = {} => block.yielded = DOMAIN block.all

(* The next transaction of a block can be executed: its nonce is not above *)
(* the account's, unless what it depends on was left out of this block or  *)
(* was found invalid in it.  (A nonce that is too high makes a transaction *)
(* invalid and throws it out of the pool.)  And what depends on one that   *)
(* was left out is left out with it, neither executed nor thrown out.      *)
(* This needs a chain whose nonces never go back.                          *)
NextIsExecutable ==
    block.state = "executing" =>
        /\ \A t \in block.best :
              \/ t.nonce <= block.nonces[t.sender]
              \/ DependencyUnavailable(t)
              \/ \E u \in block.invalid : Provides(u) \in block.all[t].requires
        /\ \A u \in DOMAIN block.all :
              Provides(u) \in block.unavailable =>
                  block.all[u].unlocks
                      \cap (block.invalid \cup block.included) = {}

(* What waits "still _requires_ other transactions to be mined first"      *)
(* (pool/mod.rs:21): between two blocks, no waiting transaction has the    *)
(* nonce that its account is at, or an earlier one, so none of them could  *)
(* be mined.  This needs an account whose nonce changes only as its own    *)
(* transactions are mined: on_mined_block prunes the markers of what a     *)
(* block included or found stale, and an authorization that raises another *)
(* account's nonce leaves what waits for the nonces it used up waiting.    *)
PendingNeedsOthers ==
    MutexFree => \A t \in DOMAIN pool.waiting :
                    t.sender \notin Authorities => t.nonce > Head_[t.sender]

(* The same of the accounts that sign authorizations, which the code does  *)
(* not keep: the nonce of one is raised past what its transaction waits    *)
(* for, and nothing prunes the marker of that nonce.                       *)
AuthoritiesNeedOthers ==
    MutexFree => \A t \in DOMAIN pool.waiting :
                    t.sender \in Authorities => t.nonce > Head_[t.sender]

(* A refused transaction leaves the pool as it was: nothing that waited    *)
(* for its marker is taken out of the queue and lost.                      *)
RefusalHarmless ==
    [][(job.new /\ \E e \in job.queue : e.tx \notin DOMAIN pool'.ready)
          => pool' = pool]_vars

\* What the pool holds, with what it is about to add.
Held == DOMAIN pool.ready \cup DOMAIN pool.waiting \cup {e.tx : e \in job.queue}

NotAfter(u, t) == u.sender = t.sender /\ u.nonce <= t.nonce

(* Why t may leave: it was refused or replaced for one that pays as much;  *)
(* the chain has used its nonce; a block found it, or one before it,       *)
(* invalid; or somebody asked for it: for this one or one before it, for   *)
(* the account's, for the whole pool, or for another pool.                 *)
Reason(t) ==
    \/ \E u \in Held' : Provides(u) = Provides(t) /\ u.fee >= t.fee
    \/ PruneTag /\ t.nonce < Head_[t.sender]
    \/ OnMinedInvalid /\ \E u \in block.invalid : NotAfter(u, t)
    \/ \E u \in Txs : DropTransaction(u) /\ NotAfter(u, t)
    \/ RemoveTransactionsByAddress(t.sender)
    \/ Clear \/ Reset \/ \E i \in 1..MaxSnapshots : RevertSnapshot(i)

(* add_transaction, on_mined_block and the RPCs that remove transactions   *)
(* (pool/mod.rs): no transaction is lost on the way from one queue to the  *)
(* other, in a promotion that is refused or in the wake of another one.    *)
(* This needs accounts whose nonces nobody sets.                           *)
LeavesForAReason == [][\A t \in Held \ Held' : Reason(t)]_vars

(* "independent transactions that can be included directly and don't       *)
(* require other transactions" (transactions.rs:480): no independent       *)
(* transaction requires what another ready transaction provides.           *)
IndependentNeedsNothing ==
    \A t \in pool.independent :
        pool.ready[t].requires \cap DOMAIN pool.provided = {}
=============================================================================
