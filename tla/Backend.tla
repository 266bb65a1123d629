------------------------------- MODULE Backend -------------------------------
(***************************************************************************)
(* anvil's in-memory backend (crates/anvil/src/eth/backend/mem/mod.rs):    *)
(* the database, the canonical chain, the block environment, the fees of   *)
(* the next block and the next-block overrides, which mining, evm_revert,  *)
(* anvil_rollback, anvil_reorg and anvil_reset replace piece by piece, and *)
(* the requests that read several of them.                                 *)
(*                                                                         *)
(* Each piece is reduced to the block it belongs to, so that what a        *)
(* request reads is coherent when all its pieces name one block.  Changes  *)
(* of the live state at an unchanged head (anvil_setBalance and the like)  *)
(* are part of the state of the head.                                      *)
(*                                                                         *)
(* Locks.  `job` is the holder of the mining mutex.  Requests hold the     *)
(* lifecycle lock for reading, and rollback, reorg and reset for writing.  *)
(* The database has a read-write lock of its own.  A mining job holds the  *)
(* write lock on the database in the phases of Writing, and the one on the *)
(* storage in those of Publishing; a rollback holds the one on the         *)
(* database from the first piece it changes to the last.                   *)
(***************************************************************************)
EXTENDS Integers, Sequences, FiniteSets

CONSTANTS
    Blocks,       \* block hashes, as numbers in the order of their creation
    Readers,      \* requests that read the state
    Coinbases,    \* beneficiaries
    Coinbase,     \* the configured beneficiary
    MaxSnapshots, \* bound on the snapshots at any time
    MaxOverrides, \* bound on the generation of the overrides
    MaxReorg,     \* bound on the depth of a reorg
    Persistent,   \* structural sharing of states (no fork), as in BlockStates
    HistorySupported, \* is_state_history_supported: not so with --prune-history
    None          \* Rust's Option::None

ASSUME BackendAssumption ==
    /\ Blocks \subseteq Nat /\ 1 \in Blocks
    /\ Coinbase \in Coinbases
    /\ MaxSnapshots \in Nat /\ MaxOverrides \in Nat /\ MaxReorg \in Nat
    /\ Persistent \in BOOLEAN /\ HistorySupported \in BOOLEAN
    /\ None \notin Nat

VARIABLES
    storage,    \* BlockchainStorage: blocks, hashes, best_number, best_hash
    db,         \* the block whose state the live database holds
    env,        \* evm_env: the block it was left by, and the beneficiary
    fees,       \* the block the fees of the next block follow from
    overrides,  \* CheatsState::next_block, prevrandao
    snapshots,  \* active_state_snapshots with the snapshots of the database
    job,        \* the holder of the mining mutex
    readers,    \* requests inside with_database_at
    headers,    \* history: the header of every block ever built
    coinbase,   \* history: the beneficiary set last
    ledger,     \* history: the state recorded last for each block
    kept,       \* `states`, as HistoricStates describes it
    demoted     \* the blocks whose state is in the second tier

pieces == <<storage, db, env, fees>>
history == <<kept, ledger, demoted>>
vars == <<storage, db, env, fees, overrides, snapshots, job, readers,
          headers, coinbase, ledger, kept, demoted>>

allButJob == <<pieces, history, overrides, snapshots, readers, headers, coinbase>>
allButReaders == <<pieces, history, overrides, snapshots, job, headers, coinbase>>

States == INSTANCE HistoricStates WITH States <- Blocks

Restricted(f, S) == [x \in DOMAIN f \cap S |-> f[x]]
With(f, k, v) == [x \in DOMAIN f \cup {k} |-> IF x = k THEN v ELSE f[x]]

NoOverride == [value |-> None, generation |-> 0]

NoJob ==
    [kind |-> "none", phase |-> "none", parent |-> None, block |-> None,
     env |-> None, state |-> None, used |-> NoOverride, left |-> 0,
     exclusive |-> FALSE, snapshot |-> None, removed |-> {}]

Idle ==
    [phase |-> "idle", number |-> None, live |-> FALSE, guarded |-> FALSE,
     promised |-> FALSE, overlapped |-> FALSE, block |-> None, db |-> None,
     env |-> None, fees |-> None]

Writing == {"execute", "insert", "storage", "env", "fees"}
Publishing == {"env", "fees"}

\* Locks held by the job.
StorageLocked == job.kind = "mine" /\ job.phase \in Publishing
DbWriteLocked ==
    \/ job.kind = "mine" /\ job.phase \in Writing
    \/ job.kind = "rollback" /\ job.phase # "lock"

\* A request holds the lock on the database for reading.
HoldsDb(r) ==
    \/ readers[r].phase \in {"env", "fees", "parent"}
    \/ readers[r].phase \in {"block", "state"} /\ readers[r].guarded
DbFree == \A r \in Readers : ~HoldsDb(r)

\* The lifecycle lock: a rollback has it to itself, and a reorg keeps it while
\* it mines; requests share it.
Exclusive == job.exclusive
NoRequests == \A r \in Readers : readers[r].phase \in {"idle", "done"}

----------------------------------------------------------------------------
(* Mining: do_mine_block and do_mine_block_locked *)

MineJob(left, exclusive) ==
    [NoJob EXCEPT !.kind = "mine", !.phase = "begin", !.left = left,
                  !.exclusive = exclusive]

\* The mutex is taken by the miner or by a request that mines.
LockMining ==
    /\ job.kind = "none"
    /\ job' = MineJob(1, FALSE)
    /\ UNCHANGED allButJob

\* The environment, the head and the overrides are read before the database
\* is locked: setters may run in between.
MineBegin ==
    /\ job.kind = "mine" /\ job.phase = "begin"
    /\ job' = [job EXCEPT !.phase = "lock", !.parent = storage.head,
                          !.env = env, !.used = overrides]
    /\ UNCHANGED allButJob

MineLockDb ==
    /\ job.kind = "mine" /\ job.phase = "lock"
    /\ DbFree
    /\ job' = [job EXCEPT !.phase = "execute"]
    /\ UNCHANGED allButJob

\* The block cannot be executed: the locks are released, nothing changed.
MineFail ==
    /\ job.kind = "mine" /\ job.phase = "execute"
    /\ job' = NoJob
    /\ UNCHANGED allButJob

(* NextBlockOverride *)
Replace(o, value) == [value |-> value, generation |-> o.generation + 1]

\* Slip: an override set while the block was built is consumed with the one
\* the block was built with.
WrongConsume(o, used) == [o EXCEPT !.value = None]

\* Slip: the override is not consumed.
WrongConsumeNothing(o, used) == o

Consume(o, used) ==
    IF o.generation = used.generation THEN [o EXCEPT !.value = None] ELSE o

\* The execution is committed to the database.
MineCommit ==
    LET new == Cardinality(DOMAIN headers) + 1
    IN  /\ job.kind = "mine" /\ job.phase = "execute"
        /\ new \in Blocks
        /\ db' = new
        /\ headers' = With(headers, new, [parent |-> job.parent,
                                          number |-> storage.number + 1,
                                          prevrandao |-> job.used.value])
        /\ overrides' = Consume(overrides, job.used)
        /\ job' = [job EXCEPT !.phase = "insert", !.block = new, !.state = db]
        /\ UNCHANGED <<storage, env, fees, history, snapshots, readers, coinbase>>

\* InMemoryBlockStates::insert makes room and records the parent's state.
MineForget ==
    /\ job.kind = "mine" /\ job.phase = "insert"
    /\ States!ForgetOldest
    /\ demoted' = demoted \cap DOMAIN kept'
    /\ UNCHANGED <<pieces, overrides, snapshots, job, readers, headers, coinbase>>

MineDemote ==
    /\ job.kind = "mine" /\ job.phase = "insert"
    /\ \E b \in DOMAIN kept \ demoted :
          /\ \A c \in DOMAIN kept \ demoted : b <= c
          /\ demoted' = demoted \cup {b}
    /\ UNCHANGED <<pieces, kept, ledger, overrides, snapshots, job, readers,
                   headers, coinbase>>

MineInsert ==
    /\ job.kind = "mine" /\ job.phase = "insert"
    /\ IF HistorySupported
       THEN States!Record(job.parent, job.state) /\ demoted' = demoted \ {job.parent}
       ELSE UNCHANGED history
    /\ job' = [job EXCEPT !.phase = "storage"]
    /\ UNCHANGED <<pieces, overrides, snapshots, readers, headers, coinbase>>

PublishStorage ==
    /\ job.kind = "mine" /\ job.phase = "storage"
    /\ storage' = [blocks |-> storage.blocks \cup {job.block},
                   hashes |-> With(storage.hashes, storage.number + 1, job.block),
                   number |-> storage.number + 1,
                   head |-> job.block]
    /\ job' = [job EXCEPT !.phase = "env"]
    /\ UNCHANGED <<db, env, fees, history, overrides, snapshots, readers,
                   headers, coinbase>>

\* The environment read at the start comes back with the new block's values.
PublishEnv ==
    /\ job.kind = "mine" /\ job.phase = "env"
    /\ env' = [job.env EXCEPT !.at = job.block]
    /\ job' = [job EXCEPT !.phase = "fees"]
    /\ UNCHANGED <<storage, db, fees, history, overrides, snapshots, readers,
                   headers, coinbase>>

\* The last piece; the locks are released, or a reorg mines the next block.
PublishFees ==
    /\ job.kind = "mine" /\ job.phase = "fees"
    /\ fees' = job.block
    /\ job' = IF job.left > 1 THEN MineJob(job.left - 1, job.exclusive) ELSE NoJob
    /\ UNCHANGED <<storage, db, env, history, overrides, snapshots, readers,
                   headers, coinbase>>

----------------------------------------------------------------------------
(* Setters: requests that take neither the mutex nor the database lock *)

SetCoinbase(c) ==
    /\ ~Exclusive
    /\ env' = [env EXCEPT !.coinbase = c]
    /\ coinbase' = c
    /\ UNCHANGED <<storage, db, fees, history, overrides, snapshots, job,
                   readers, headers>>

\* The value set is its generation, which tells it from all others.
SetPrevRandao ==
    /\ ~Exclusive
    /\ overrides.generation < MaxOverrides
    /\ overrides' = Replace(overrides, overrides.generation + 1)
    /\ UNCHANGED <<pieces, history, snapshots, job, readers, headers, coinbase>>

----------------------------------------------------------------------------
(* evm_snapshot and evm_revert, under the mutex *)

CreateSnapshot ==
    /\ job.kind = "none"
    /\ DbFree
    /\ Len(snapshots) < MaxSnapshots
    /\ snapshots' = Append(snapshots,
            [block |-> storage.head, number |-> storage.number, db |-> db,
             fees |-> fees, override |-> overrides.value,
             hashes |-> storage.hashes])
    /\ UNCHANGED <<pieces, history, overrides, job, readers, headers, coinbase>>

\* A snapshot whose block has been rolled back is refused.
RevertBegin(i) ==
    /\ job.kind = "none"
    /\ overrides.generation < MaxOverrides
    /\ snapshots[i].block \in storage.blocks
    /\ job' = [NoJob EXCEPT !.kind = "revert", !.phase = "lock",
                            !.snapshot = snapshots[i], !.left = i]
    /\ readers' = [r \in Readers |->
                     IF readers[r].phase \in {"idle", "done"} THEN readers[r]
                     ELSE [readers[r] EXCEPT !.overlapped = TRUE]]
    /\ UNCHANGED <<pieces, history, overrides, snapshots, headers, coinbase>>

\* The database is restored with the snapshot, which goes with the later ones.
RevertDb ==
    /\ job.kind = "revert" /\ job.phase = "lock"
    /\ DbFree
    /\ db' = job.snapshot.db
    /\ snapshots' = SubSeq(snapshots, 1, job.left - 1)
    /\ job' = [job EXCEPT !.phase = "unwind"]
    /\ UNCHANGED <<storage, env, fees, history, overrides, readers, headers, coinbase>>

\* Slip: the removed blocks keep their numbers.
WrongUnwindTo(st, number, block) ==
    LET removed == {st.hashes[n] : n \in {m \in DOMAIN st.hashes : m > number}}
    IN  [st EXCEPT !.blocks = @ \ removed, !.number = number, !.head = block]

\* BlockchainStorage::unwind_to
UnwindTo(st, number, block) ==
    LET above == {n \in DOMAIN st.hashes : n > number /\ n <= st.number}
        removed == {st.hashes[n] : n \in above}
    IN  [blocks |-> st.blocks \ removed,
         hashes |-> Restricted(st.hashes, DOMAIN st.hashes \ above),
         number |-> number,
         head |-> block]

RevertStorage ==
    LET unwound == UnwindTo(storage, job.snapshot.number, job.snapshot.block)
    IN  /\ job.kind = "revert" /\ job.phase = "unwind"
        /\ storage' = unwound
        /\ job' = [job EXCEPT !.phase = "states",
                              !.removed = storage.blocks \ unwound.blocks]
        /\ UNCHANGED <<db, env, fees, history, overrides, snapshots, readers,
                       headers, coinbase>>

RemoveStates(removed) ==
    /\ kept' = Restricted(kept, Blocks \ removed)
    /\ demoted' = demoted \ removed
    /\ UNCHANGED ledger

RevertStates ==
    /\ job.kind = "revert" /\ job.phase = "states"
    /\ RemoveStates(job.removed)
    /\ job' = [job EXCEPT !.phase = "env"]
    /\ UNCHANGED <<pieces, overrides, snapshots, readers, headers, coinbase>>

\* The beneficiary is kept.
RevertEnv ==
    /\ job.kind = "revert" /\ job.phase = "env"
    /\ overrides' = Replace(overrides, job.snapshot.override)
    /\ env' = [env EXCEPT !.at = job.snapshot.block]
    /\ job' = [job EXCEPT !.phase = "fees"]
    /\ UNCHANGED <<storage, db, fees, history, snapshots, readers, headers, coinbase>>

RevertFees ==
    /\ job.kind = "revert" /\ job.phase = "fees"
    /\ fees' = job.snapshot.fees
    /\ job' = NoJob
    /\ UNCHANGED <<storage, db, env, history, overrides, snapshots, readers,
                   headers, coinbase>>

----------------------------------------------------------------------------
(* anvil_rollback, anvil_reorg and anvil_reset: alone with the mutex and   *)
(* the lifecycle lock.                                                     *)

\* Slip: the database stays at the old head.
WrongRolledBackDb(b) == db

\* A state in memory replaces the accounts of the database.  One on disk is
\* written over them once the database is cleared.  On a fork the account list
\* of such a state is empty (its data are read back beside it), and clear()
\* empties only the cache of remote state: the local accounts stay.
RolledBackDb(b) == IF Persistent \/ b \notin demoted THEN kept[b] ELSE db

\* The state of the common block is looked up before anything is changed; then
\* `again` blocks are to be mined.
RollbackBegin(b, again) ==
    /\ job.kind = "none" /\ NoRequests
    /\ overrides.generation < MaxOverrides
    /\ b \in DOMAIN kept
    /\ job' = [NoJob EXCEPT !.kind = "rollback", !.phase = "lock", !.block = b,
                            !.state = RolledBackDb(b), !.left = again,
                            !.exclusive = TRUE]
    /\ UNCHANGED allButJob

AnvilRollback(depth) ==
    /\ depth <= storage.number
    /\ RollbackBegin(storage.hashes[storage.number - depth], 0)

\* The blocks are replaced under the same locks.
AnvilReorg(depth) ==
    /\ depth <= storage.number
    /\ RollbackBegin(storage.hashes[storage.number - depth], depth)

\* "Acquire the only awaited mutation lock before publishing any part of the
\* rewind": the database is locked, and the chain is the first part.
RollbackStorage ==
    LET unwound == UnwindTo(storage, headers[job.block].number, job.block)
    IN  /\ job.kind = "rollback" /\ job.phase = "lock"
        /\ DbFree
        /\ storage' = unwound
        /\ job' = [job EXCEPT !.phase = "states",
                              !.removed = storage.blocks \ unwound.blocks]
        /\ UNCHANGED <<db, env, fees, history, overrides, snapshots, readers,
                       headers, coinbase>>

RollbackStates ==
    /\ job.kind = "rollback" /\ job.phase = "states"
    /\ RemoveStates(job.removed)
    /\ job' = [job EXCEPT !.phase = "env"]
    /\ UNCHANGED <<pieces, overrides, snapshots, readers, headers, coinbase>>

\* The overrides are dropped with the environment.
RollbackEnv ==
    /\ job.kind = "rollback" /\ job.phase = "env"
    /\ env' = [env EXCEPT !.at = job.block]
    /\ overrides' = Replace(overrides, None)
    /\ job' = [job EXCEPT !.phase = "db"]
    /\ UNCHANGED <<storage, db, fees, history, snapshots, readers, headers, coinbase>>

RollbackDb ==
    /\ job.kind = "rollback" /\ job.phase = "db"
    /\ db' = job.state
    /\ job' = IF job.left > 0 THEN MineJob(job.left, TRUE) ELSE NoJob
    /\ UNCHANGED <<storage, env, fees, history, overrides, snapshots, readers,
                   headers, coinbase>>

Genesis(b) == [blocks |-> {b}, hashes |-> [n \in {0} |-> b], number |-> 0, head |-> b]

\* commit_memory_reset
AnvilReset ==
    LET new == Cardinality(DOMAIN headers) + 1
    IN  /\ job.kind = "none" /\ NoRequests
        /\ overrides.generation < MaxOverrides
        /\ new \in Blocks
        /\ headers' = With(headers, new, [parent |-> None, number |-> 0,
                                          prevrandao |-> None])
        /\ db' = new
        /\ fees' = new
        /\ env' = [at |-> new, coinbase |-> Coinbase]
        /\ coinbase' = Coinbase
        /\ storage' = Genesis(new)
        /\ States!Clear
        /\ demoted' = {}
        /\ snapshots' = <<>>
        /\ overrides' = Replace(overrides, None)
        /\ UNCHANGED <<job, readers>>

----------------------------------------------------------------------------
(* with_database_at *)

\* A request for block n, or for the latest block when n is the head.
ReadBegin(r, n) ==
    /\ readers[r].phase = "idle"
    /\ ~Exclusive /\ ~StorageLocked
    /\ readers' = [readers EXCEPT ![r] =
            [Idle EXCEPT !.phase = "current", !.number = n,
                         !.overlapped = (job.kind = "revert")]]
    /\ UNCHANGED allButReaders

\* The request for the pending block takes the database lock at once.
ReadPending(r) ==
    /\ readers[r].phase = "idle"
    /\ ~Exclusive /\ ~DbWriteLocked
    /\ readers' = [readers EXCEPT ![r] =
            [Idle EXCEPT !.phase = "env", !.db = db,
                         !.overlapped = (job.kind = "revert")]]
    /\ UNCHANGED allButReaders

Goto(r, phase) == readers' = [readers EXCEPT ![r].phase = phase]

ReadCurrent(r) ==
    /\ readers[r].phase = "current"
    /\ ~StorageLocked
    /\ Goto(r, IF readers[r].number > storage.number THEN "done"
               ELSE IF readers[r].number = storage.number THEN "lock"
               ELSE "block")
    /\ UNCHANGED allButReaders

\* Slip: the head is not compared again once the lock is held.
WrongStillHead(q) == TRUE

\* "Serve the live state only if the requested block is still the head or no
\* state history is kept."
StillHead(q) == storage.number = q.number \/ ~HistorySupported

\* The state of the requested block is there to be looked up.
Stored(q) ==
    /\ q.number \in DOMAIN storage.hashes
    /\ storage.hashes[q.number] \in DOMAIN kept

\* Slip: the lock is released before the lookup.
WrongBehindHead(q) == [q EXCEPT !.phase = "block", !.promised = Stored(q)]

\* _head_guard
BehindHead(q) ==
    [q EXCEPT !.phase = "block", !.guarded = TRUE, !.promised = Stored(q)]

\* With the lock, the head is compared again: the live state is served, or
\* the lock is kept for the lookup of what has become an older block.
ReadLive(r) ==
    LET q == readers[r]
    IN  /\ q.phase = "lock"
        /\ ~DbWriteLocked
        /\ readers' = [readers EXCEPT ![r] =
                IF StillHead(q)
                THEN [q EXCEPT !.phase = "env", !.live = TRUE, !.db = db]
                ELSE BehindHead(q)]
        /\ UNCHANGED allButReaders

ReadEnv(r) ==
    /\ readers[r].phase = "env"
    /\ readers' = [readers EXCEPT ![r].env = env.at,
                                  ![r].phase = IF readers[r].live THEN "done" ELSE "fees"]
    /\ UNCHANGED allButReaders

ReadFees(r) ==
    /\ readers[r].phase = "fees"
    /\ readers' = [readers EXCEPT ![r].fees = fees, ![r].phase = "parent"]
    /\ UNCHANGED allButReaders

ReadParent(r) ==
    /\ readers[r].phase = "parent"
    /\ ~StorageLocked
    /\ readers' = [readers EXCEPT ![r].block = storage.head, ![r].phase = "done"]
    /\ UNCHANGED allButReaders

\* block_by_number and then the store of states; no answer when one is gone.
ReadBlock(r) ==
    LET n == readers[r].number
    IN  /\ readers[r].phase = "block"
        /\ ~StorageLocked
        /\ readers' = [readers EXCEPT ![r] =
                IF n \in DOMAIN storage.hashes
                THEN [@ EXCEPT !.phase = "state", !.block = storage.hashes[n]]
                ELSE [@ EXCEPT !.phase = "done"]]
        /\ UNCHANGED allButReaders

ReadState(r) ==
    LET b == readers[r].block
    IN  /\ readers[r].phase = "state"
        /\ readers' = [readers EXCEPT ![r] =
                IF b \in DOMAIN kept
                THEN [@ EXCEPT !.phase = "done", !.db = kept[b], !.env = b]
                ELSE [@ EXCEPT !.phase = "done"]]
        /\ UNCHANGED allButReaders

ReadEnd(r) ==
    /\ readers[r].phase = "done"
    /\ readers' = [readers EXCEPT ![r] = Idle]
    /\ UNCHANGED allButReaders

----------------------------------------------------------------------------
Init ==
    /\ storage = Genesis(1)
    /\ db = 1
    /\ env = [at |-> 1, coinbase |-> Coinbase]
    /\ fees = 1
    /\ overrides = NoOverride
    /\ snapshots = <<>>
    /\ job = NoJob
    /\ readers = [r \in Readers |-> Idle]
    /\ headers = [b \in {1} |-> [parent |-> None, number |-> 0, prevrandao |-> None]]
    /\ coinbase = Coinbase
    /\ States!Init
    /\ demoted = {}

Mine ==
    \/ LockMining \/ MineBegin \/ MineLockDb \/ MineFail \/ MineCommit
    \/ MineForget \/ MineDemote \/ MineInsert
    \/ PublishStorage \/ PublishEnv \/ PublishFees

Revert ==
    \/ \E i \in 1..Len(snapshots) : RevertBegin(i)
    \/ RevertDb \/ RevertStorage \/ RevertStates \/ RevertEnv \/ RevertFees

Rollback ==
    \/ \E depth \in 1..MaxReorg : AnvilRollback(depth) \/ AnvilReorg(depth)
    \/ RollbackStorage \/ RollbackStates \/ RollbackEnv \/ RollbackDb

Read(r) ==
    \/ \E n \in 0..storage.number : ReadBegin(r, n)
    \/ ReadPending(r) \/ ReadCurrent(r) \/ ReadLive(r) \/ ReadEnv(r)
    \/ ReadFees(r) \/ ReadParent(r) \/ ReadBlock(r) \/ ReadState(r) \/ ReadEnd(r)

Next ==
    \/ Mine
    \/ \E c \in Coinbases : SetCoinbase(c)
    \/ SetPrevRandao
    \/ CreateSnapshot
    \/ Revert
    \/ Rollback
    \/ AnvilReset
    \/ \E r \in Readers : Read(r)

Spec == Init /\ [][Next]_vars

----------------------------------------------------------------------------
(* Properties *)

(* The shape of the state; the second tier holds only states that can be   *)
(* looked up, so remove_block_states leaves none behind.                   *)
TypeOK ==
    /\ storage.blocks \subseteq Blocks /\ storage.head \in Blocks
    /\ DOMAIN storage.hashes \subseteq Nat /\ storage.number \in Nat
    /\ {db, env.at, fees} \subseteq Blocks
    /\ env.coinbase \in Coinbases
    /\ overrides.generation \in 0..(MaxOverrides + 1)
    /\ Len(snapshots) <= MaxSnapshots
    /\ demoted \subseteq DOMAIN kept

(* When nobody is mining or reverting, the database, the environment, the  *)
(* head, the chain by number and by hash and the historic states describe  *)
(* one chain, whatever mix of blocks, reverts, rollbacks and failed reorgs *)
(* came before.  The fees follow from the head, or from a block rolled     *)
(* back.                                                                   *)
HeadPartsAgree ==
    job.kind = "none" =>
        /\ db = storage.head /\ env.at = storage.head
        /\ fees = storage.head \/ fees \notin storage.blocks
        /\ DOMAIN storage.hashes = 0..storage.number
        /\ storage.hashes[storage.number] = storage.head
        /\ storage.blocks = {storage.hashes[n] : n \in DOMAIN storage.hashes}
        /\ \A n \in 1..storage.number :
              headers[storage.hashes[n]].parent = storage.hashes[n - 1]
        /\ DOMAIN kept \subseteq storage.blocks
        /\ \A b \in DOMAIN kept : kept[b] = b

Answered(r) == readers[r].phase = "done" /\ readers[r].env # None

\* One block for all that a request has read.  A request for the head that is
\* answered from the live state gets the block it asked for, or, in a node that
\* keeps no history, that one or a later head.
Coherent(r) ==
    /\ readers[r].db = readers[r].env
    /\ readers[r].live =>
          /\ readers[r].number <= headers[readers[r].env].number
          /\ HistorySupported => headers[readers[r].env].number = readers[r].number
    /\ readers[r].fees # None =>
          /\ readers[r].block = readers[r].env
          /\ readers[r].fees = readers[r].env \/ readers[r].fees \notin storage.blocks

(* A request that no evm_revert overlaps sees one block: the database, the *)
(* environment, the fees and the parent of a pending block all belong to   *)
(* it, however many blocks are mined between its steps.  With a history of *)
(* states the live block is the one asked for; without one (prune-history) *)
(* it may be a later head.                                                 *)
ReadsSeeOneBlock ==
    \A r \in Readers : Answered(r) /\ ~readers[r].overlapped => Coherent(r)

(* "Serve the live state only if the requested block is still the head":   *)
(* no exception for requests that overlap an evm_revert.                   *)
LiveReadsSeeHead == \A r \in Readers : Answered(r) => Coherent(r)

(* A request that finds its block has ceased to be the head keeps the lock *)
(* on the database, and then the state of that block cannot be pruned      *)
(* before it is looked up.                                                 *)
GuardedReadServed ==
    \A r \in Readers :
        readers[r].phase = "done" /\ readers[r].promised /\ ~readers[r].overlapped
            => Answered(r)

(* No value set for the next block is used by two blocks of the chain, in  *)
(* spite of snapshots that save and restore it.                            *)
OverrideUsedOnce ==
    \A b, c \in storage.blocks :
        headers[b].prevrandao # None /\ headers[b].prevrandao = headers[c].prevrandao
            => b = c

Unwound == job.kind \in {"revert", "rollback"}

(* A value set for the next block is gone only when a block built with it  *)
(* is committed, when another value replaces it or when the chain is       *)
(* unwound: not by a block under way when it was set, nor by a failed one. *)
OverrideNotLost ==
    [][overrides.value # None /\ overrides'.value # overrides.value =>
         \/ overrides'.value # None
         \/ db' # db /\ headers'[db'].prevrandao = overrides.value
         \/ Unwound
         \/ storage'.head = db' /\ storage'.number = 0]_vars

(* "Sets the coinbase address.": the beneficiary set last is in the        *)
(* environment once no block is under way.                                 *)
CoinbaseKept == job.kind = "none" => env.coinbase = coinbase
=============================================================================
