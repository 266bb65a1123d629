# Foundry in TLA+: the anvil node and script broadcasting

This directory holds TLA+ specifications of the parts of Foundry that behave
like concurrent or fault-tolerant systems: **anvil**, the local Ethereum node
(`src/crates/anvil`), and the broadcasting of **forge script**
(`src/crates/script`), which has to survive crashes and lost answers.

| component | source | specification | TLC instances | proofs |
|---|---|---|---|---|
| block clock | anvil `eth/backend/time.rs`, its callers in `eth/api.rs`, `eth/backend/mem/` | `TimeManager`, `TimeIncreaseHistory` | `MCTimeManager` | `TimeManagerProofs` |
| block production | anvil `service.rs`, `eth/miner.rs` | `NodeService` | `MCNodeService` | `NodeProofs` |
| transaction pool | anvil `eth/pool/`, `eth/backend/executor.rs` | `TxPool` | `MCTxPool` | `TxPoolProofs` |
| backend: head, snapshots, reads, overrides | anvil `eth/backend/mem/mod.rs`, `eth/backend/cheats.rs` | `Backend`, over `HistoricStates` | `Backend` | `BackendProofs` |
| backend: states of older blocks | anvil `eth/backend/mem/storage.rs` | `BlockStates`, implements `HistoricStates` | `MCBlockStates` | `BlockStatesProofs` |
| fork reset | anvil `eth/backend/mem/mod.rs`, `config.rs` | `ForkReset` | `ForkReset` | `ForkResetProofs` |
| locks of the requests | anvil `eth/api.rs` | `Lifecycle` | `Lifecycle` | `NodeProofs` |
| filters, subscriptions, fee history | anvil `filter.rs`, `pubsub.rs`, `eth/fees.rs` | `Notifications` | `Notifications` | `NotificationsProofs` |
| broadcast and resume | script `broadcast.rs`, `progress.rs`, `recovery.rs`, `sequence.rs` ... | `ScriptBroadcast` | `ScriptBroadcast` | `ScriptBroadcastProofs` |

`PROJECT.json` lists for every definition the lines it translates, for every
run what it checks, and the hazards the properties were chosen for. Source
paths below are relative to `src/crates/anvil/src/` unless they name a crate.

## 1. Inventory

### The repository

Foundry is a toolkit of about twenty crates. Most of it is sequential: a
compiler front end (`fmt`, `lint`, `doc`), command-line clients (`cast`,
`chisel`, `verify`), a test runner (`forge`, `evm`, `cheatcodes`) that runs
independent contracts, and shared utilities (`config`, `common`, `cli`,
`linking`). Three places keep state over time and are worth a specification:

* **anvil**, a long-running server: RPC handlers on many tasks, a block
  producer of its own, timers, snapshots and resets;
* **script**, which saves a plan of transactions to disk, broadcasts it and
  resumes it after an interruption;
* **evm/core**, the cheatcode database: several forks, journaled state,
  snapshots (sequential, but with long sequences of legal calls).

The first two are modelled, the third is planned.

### The components

| component | state | operations | hard parts | what makes it correct |
|---|---|---|---|---|
| `TimeManager` (`eth/backend/time.rs`) | offset to the wall clock, last timestamp, one-shot override, interval, explicit increases, two generation counters | time RPCs (lock-free), prepare / commit of a candidate, temporary increase and its reversal, reset, snapshot, restore | RPCs between prepare and commit, failing candidates, resets in flight, u64/i128 edges | blocks ordered; override used once; clock agrees with the head |
| `Miner` (`eth/miner.rs`) | mining mode with its timers and listener, generation, pause epoch, waker | poll, set mode, pause / resume, retry, failed candidate | wake-ups, mode replaced under a candidate, pause overtaken | nothing forgotten; a pause holds |
| `NodeService`, `BlockProducer` (`service.rs`) | the mining task, queued work | poll; spawn, finish, fail, skip a candidate | work chosen before the mining mutex is held | one candidate at a time; a sleeping service has nothing to do |
| `Pool` (`eth/pool/`) | ready and pending queues, indexes by marker, dependency links, listeners | add, replace, promote, drop, prune, iterate, snapshot | promotion chains, replacement, drops during a block, nonces changed underneath | indexes and links agree; blocks take executable transactions |
| executor (`eth/backend/executor.rs`) | the block being built | execute the selected transactions in order | left-out dependencies | dependents of a left-out transaction are left out |
| `Backend` (`eth/backend/mem/`) | database, chain storage, historic states, environment, fees, snapshots | mine, snapshot, revert, rollback, reorg, reset, load state | several locks; staging against a remote node | all parts describe one head |
| `EthApi` (`eth/api.rs`) | locks (reset, lifecycle), pool snapshots, filters | every RPC | order of locks | handlers are atomic where they claim to be |
| `FeeManager`, fee history (`eth/fees.rs`) | next base fee, cache | update after a block, follow notifications | lagging behind a reset | cache describes canonical blocks |
| `CheatsManager` (`eth/backend/cheats.rs`) | impersonated accounts, next-block overrides | set, consume, restore | same race as the timestamp override | overrides used once |
| filters, `pubsub.rs`, notifications | active filters with deadlines, channels | install, poll, evict, publish | eviction during a poll, slow subscribers | every block seen once |
| fork client, reset staging (`eth/backend/fork.rs`, `config.rs`) | remote caches, identity of the endpoint | stage, validate, publish a fork | endpoint changes between two requests, is the node itself | a published fork is of one version |
| `server/`, `tasks/` | connections, timers | serve, follow | network I/O | (outside the models) |
| `forge script --broadcast`, `--resume` (`crates/script`) | plan with attempts, pending hashes and receipts, in memory and in two files | create, load, sign, delegate, send, wait, reconcile, close | death between any two steps, half-done writes, lost answers, forgotten transactions | nothing sent twice; success means mined; resuming completes |

How they interact: an RPC handler takes the **mining mutex** for whatever
changes the head or validates against it (submission, manual mining,
snapshots, rollback, reset); the clock's and the miner's handlers and the ones
that drop transactions do not. The service task owns the miner's timers. It
selects a candidate without the mutex, and a blocking task takes the mutex
later, checks whether the candidate is still wanted, and selects again. Blocks
tell the pool what became of their transactions; the pool tells the miner about
ready transactions through a bounded channel; the miner wakes the service
through a waker that fires once.

The backend publishes a block in steps (database, historic state, block storage,
environment, fees), each under a lock of its own; requests that read several of
them rely on the lifecycle lock, on re-checking the head, or on the mining
mutex. `anvil_rollback`, `anvil_reorg` and `anvil_reset` hold the lifecycle lock
for writing. Filters, subscriptions and the fee history learn the hashes of new
blocks through channels and look the blocks up later, after the chain may have
been rewound. `forge script` is a client: it talks to a node that may be anvil
or any other, and nothing of anvil is assumed there.

## 2. The modules

### TimeManager

State: the fields of `TimeState`, plus what the clock has to agree with: the
chain, the active snapshots, the holder of the mining mutex and its candidate,
and where each mining request is (`idle`, `waiting` for the mutex, `prepared`,
`revert`: failed, with its temporary increase still to be taken back). Two
history variables, `headSynced` and `latestUsed`, serve the properties.

Actions: `IncreaseTime`, `SetTime`, `SetNextBlockTimestamp`, `SetInterval` are
the lock-free RPCs. `BeginMine` (with `anvil_mine`'s temporary increase),
`Prepare`, `Commit`, `Fail`, `RevertIncrease` are the steps of a mining
request. `Reset`, `Rollback`, `CreateSnapshot`, `RevertSnapshot` hold the mutex
and install another head; `anvil_reorg` is a rollback followed by mining. `Tick`
changes the wall clock, backwards too. Rejected requests change nothing and have
no action. u64 values live in `0..MaxU64` with saturating addition and
subtraction, and the cast of the i128 sum to u64 keeps its low bits. With
`Base = TRUE`, candidates are prepared by the Base (Denim) schedule.

`TimeIncreaseHistory` adds a ledger of the `evm_increaseTime` calls that no
committed block has taken into account.

Left out: `last_block_wall_time`, which nothing reads back; the clock's part of
`anvil_loadState` and of the fork replay at start-up, which reset it like
`Reset`. Simulated "pending" blocks prepare a timestamp and never commit it.

### NodeService

State: the mining mode (`miner`: which mode, `has_pending_txs`, the coalescing
timer, whether the block-time tick is due), the notifications in the listener's
channel, the generation and the pause epoch, whether the service is woken and
its waker registered, the mining task, the holder of the mining mutex, and the
pool as two sets of transactions. What executing a block does with each
transaction is arbitrary: it may leave the pool, be not yet valid, or stay, and
a block may promote pending transactions (more than `TxPool` allows, see
`PruningPromotesNobody`).

Actions: `SubmitTx` / `FinishSubmit` (the transaction is in the pool before the
listeners are told), `DropTxs`, `Renotify`; `ManualLock`, `ManualMine`,
`ManualFail`; `TaskLock` (with the checks of a stale or empty candidate),
`TaskMine`, `TaskFail`; `ServicePoll`, one whole poll of the service;
`IntervalTick`, `CoalesceElapsed`; `SetAutoMine`, `SetIntervalMining`,
`SetPaused` and `PauseReturns` (a pause flips the state first and then waits for
the mutex).

Abstractions: each transaction is submitted at most once; `evm_setAutomine` is
one step, although the code reads the mode, awaits the configuration and then
replaces it; a timer that fires wakes the service through the same waker as the
miner; the fee-history and filter-eviction polls of the loop are in `Notifications`.

### TxPool

State: `pool` holds the fields of both queues, maps as functions: ready
transactions with what they require and unlock and their `requires_offset`, the
markers they provide, the independent ones, and the order of their ids; pending
transactions with what they miss, and the two indexes over them. `job` is what
the holder of the pool's write lock still has to do: every iteration of a loop
of the pool (`add_ready_transaction`, `prune_markers`, `prune_tags`) is a step,
and every other operation waits until `job` is empty. `block` is the block
being mined, with the iterator's copy of the ready queue. `heads` is the account
nonces after each block, `snapshots` what `evm_snapshot` saved.

A transaction is a record of sender, nonce and fee and provides the marker
`<<sender, nonce>>`. Work queues are sets: the code's vectors have one order, so
the model has more behaviours. Ids are reduced to the relation `older`. Since a
transaction of the protocol nonce lane requires at most one marker, the
iterator's `awaiting` map stays empty, and since a provider's nonce is smaller
the cycle check of `add_ready_transaction` never applies. "Not yet valid" is one
of the ways of being left in the pool. An included transaction raises its
sender's nonce by one; the nonces of the accounts in `Authorities` may rise with
any included transaction, as they do when it carries an EIP-7702 authorization of
theirs or their delegated code creates a contract (`NoncesAfter`). Left out: the
nonce lanes of Tempo and Base EIP-8130 transactions with
`clear_transaction_type`, and an `anvil_setNonce` between the two reads of the
nonce during a submission.

### Backend

State: the pieces a head consists of, each reduced to the block it belongs to:
the live database (`db`), the block storage, the block environment with its
beneficiary, the fees of the next block, and the prevrandao override with its
generation. What older states can be had is the state of an instance of
`HistoricStates`, so the backend is composed with the promise that
`BlockStates` is shown to keep. `job` is the holder of the mining mutex with the
phase it has reached; `readers` are requests that read block and state.

Actions: the steps of mining (`LockMining`, `MineBegin`, `MineLockDb`,
`MineCommit`, `MineInsert`, `PublishStorage`, `PublishEnv`, `PublishFees`, and
`MineFail`), of `evm_revert` (`RevertDb`, `RevertStorage`, `RevertStates`,
`RevertEnv`, `RevertFees`), of a rollback, which a reorg begins with
(`RollbackBegin`, `RollbackStorage`, `RollbackStates`, `RollbackEnv`,
`RollbackDb`), the exclusive request `AnvilReset`, and the setters `SetPrevRandao`, `SetCoinbase`. A
reader takes the head, then the live state if the head is still the same or else
the historic one, then the environment and the fees. History variables record
which overrides went into blocks and what a reader was promised. With
`HistorySupported = FALSE` (`--prune-history`) no state is recorded and a reader
of a head that was overtaken is served the live state.

Changes of the live state at an unchanged head are part of the head's state.
The beacon-root override works like prevrandao and is left out, as are receipts,
transaction look-ups and `anvil_loadState`.

### BlockStates and HistoricStates

`HistoricStates` is what RPCs on older blocks may rely on: a state is the one
recorded last for its block, states are forgotten oldest first, and what was
forgotten or unwound does not come back by itself.

`BlockStates` is the store behind it: recent states in memory, older ones
demoted to files or (when states are structurally shared) kept as cheap copies,
the oldest purged. The memory limit shrinks when the memory is full and grows when
a write fails. A write that fails after the file was created leaves it there,
`Partial`, and truncates the file that an earlier write for the same block had
left; a deletion that fails leaves its file. `failed` (history) names the blocks
this has happened to. Each iteration of the loops of `enforce_limits` is a step.
`KeepsHistory` is the refinement: with `kept` mapped to what `get_state` and
`get_on_disk_state` find in any tier, every step is a step of `HistoricStates`
or leaves the look-ups unchanged.

### ForkReset

`anvil_reset` onto a fork stages a replacement in separate requests to an
endpoint that may restart, reorganise, time out or fail between any two of
them: identity, block, identity again (`stable_fork_snapshot`), opening the cache
file, the genesis of the replacement, revalidation, and only then the commit.
What a remote read returns is reduced to its version, the instance that answered
and the hash of its fork block. Files of the block cache belong to a url and are
flushed, dropped or invalidated as the code does it; those of `Leftovers` may be
there from an earlier process, whose data are of the version `Earlier`. A slow
anvil may be taken for no anvil (`Anonymous`, `anvil_nodeInfo` timed out) or for
one without an instance (`Nameless`, `anvil_metadata` did). The rollback of a
staged cache may itself fail, and with it the reset. A reset pointed at the node
itself must be recognised. Attempts are bounded by the constant the code uses.

### Lifecycle

A request is the program of its handler: the locks it takes, in order, with
what it reads or publishes in between. Locks are fair queues: a waiting reader
stands behind an earlier writer, as in tokio. `reset`, `lifecycle`, `nonce`,
`mining`, `config` and `db` are the locks. The requests are fork and memory
resets (a fork reset may be pointed at the node itself and then asks the node
for its metadata), the change of the fork url, rollback and reorg, snapshot and
revert with the pool snapshots beside them, reads, submissions that wait for
inclusion and such that do not, manual mining, and the block producer.
An incarnation is what one reset publishes; a request remembers which ones it
has seen.

### Notifications

The hash of a block is the prefix of the chain it ends. Listeners have unbounded
channels and look a block up when they reach its notification. Modelled are a
log filter of a client (with its historic part, polls, deadline and the evictor
that reads the time first and the filters later), a log subscription, and the
fee-history service with `eth_feeHistory`, which pre-reads the cache, resolves
hashes one by one, computes what is missing and warms the cache. Rollback
and revert rewind the chain and announce the removed logs; a reset announces
nothing, and a listener from before it is promised nothing. `stored` are the
blocks whose transactions are still there: with `--transaction-block-keeper` a new
block removes those of the block `Keeper` before it, and with them what
`removed_logs_since` and a late look-up can find; without the option `Keeper` is
`MaxChain`. `lost` (history) are the logs of blocks rewound in that state. To keep
the state space small, a behaviour looks at one of the three listeners.

Left out: the part of `eth_feeHistory` that a fork answers (a range at or below the
fork block, or the lower end of a range that crosses it, `eth/api.rs:1348` and
`:1391`); the rewards of an entry, which a block without its transactions no longer
has; `anvil_loadState`, which replaces the chain under the read lock and may so
change it under a fee history request.

### ScriptBroadcast

One script of `NumOps` operations from senders that may be the same or
different, with the key here or delegated to a node or wallet. The plan holds an
attempt per operation (none, prepared, unknown, signed, delegated), the hashes,
the pending transactions and the receipts. A write of the plan goes to a pending
file that is renamed over the recovery snapshot: it may fail, or the process
may die, before, between and after the two. `Load` takes the pending file first.

The phases of a run: restore (an interrupted delegated request becomes
"unknown", the operator may answer with a retry or a hash), reconcile each
operation with the chain, wait for what is pending, plan batches, and per
operation prepare (nonce check, sign, persist), send, record the hash and
checkpoint; then finish and close. `Crash` may happen anywhere. The node is
external: a transaction is unsent, in the network, known, mined, reverted or
forgotten. Every fault (crash, failed write, lost answer, failed look-up,
forgotten transaction, revert) takes one of `MaxFaults`.

Abstractions: the repeated raw sends of one signed payload are one `Send`, since
the payload is the same transaction; durations are left out, a wait ends by its
outcome; a sender is delegated in every run or in none, although `--unlocked` may
be given to one run and not to the next (the code then refuses to sign where there
is an attempt, `recovery.rs:333`). Left out: Tempo batches, sequences over several
chains, the import of plans of earlier versions, the promotion of a dry run,
starting afresh over an old plan, reorganisations that remove a mined transaction, and exports that are
never read back.

## 3. What the runs check

Every run is bounded; the bounds are constants of the modules, named in the
guards they cap, and every property has a mutant, a plausible slip in the
mapped code (the `Wrong...` operators), that violates it under the same bounds.

| run | bounds | properties |
|---|---|---|
| `time_races` | 2 miners, 2 blocks, 1 snapshot, u64 = 0..3, generations up to 3 | `TypeOK`, `HeadTimestampTracked`, `ChainOrdered`, `OverrideExactlyOnce`, `LastTimestampMonotone` |
| `service` | 2 transactions, blocks of 1, a channel of 1, started in mixed mode, generations up to 2, under `FairSpec` | `PauseHonoured`, `NoLostWakeup`, `SleepsOnlyWhenIdle`, `AutoMineProgress`, `TickTakenUp` |
| `pool_blocks` | 2 accounts, one an authority, 4 transactions, 2 blocks, 1 snapshot | `NextIsExecutable`, `PendingNeedsOthers`, `RefusalHarmless`, `LeavesForAReason` |
| `pool_indexes` | 1 account, an authority, 5 transactions, 1 block, `anvil_setNonce` and `anvil_rollback` | `IndexesAgree`, `LinksExact`, `NoneWaitsForProvided`, `YieldsEachOnce`, `PruningPromotesNobody` |
| `states` | 6 blocks, 2 states, memory limit 2 (at least 1, 3 for fast blocks, at most 4), 2 on disk | `FilesTracked`, `RecentKept`, `KeepsHistory` |
| `backend` | 4 blocks, 1 reader, 1 snapshot, reorgs of 2, 2 overrides | `HeadPartsAgree`, `ReadsSeeOneBlock`, `GuardedReadServed`, `OverrideUsedOnce`, `OverrideNotLost` |
| `fork_reset` | the upstream node and the node itself, 2 attempts, 2 instances and an earlier one, 2 hashes, 4 resets | `FailedResetHarmless`, `NeverItsOwnFork`, `ForkOfOneVersion` |
| `lifecycle` | 2 clients and the producer, 1 reset, 1 snapshot, under `LifecycleFairSpec` | deadlock freedom, `OneIncarnation`, `PoolSnapshotsPaired`, `EveryRequestEnds` |
| `notifications` | chain of 2, 3 blocks mined, 2 rewinds, transactions of 1 block kept, 3 instants, keepalive 1, fee history of 1 | `LogsConverge`, `FeeHistoryCurrent`, `FeeHistoryOneChain`, `UsedFilterKept` |
| `script` | 2 operations, 2 senders, 3 faults, under `FairSpec` | `NoDoubleSubmission`, `CompleteMeansMined`, `EventuallyComplete` |

Why the bounds are enough. Clock: u64 = 0..3 with timestamps {1, 3} reaches
wrap-around of the cast, saturation and equality in a few steps; two miners are
enough for one to hold the mutex while the other waits or takes its increase
back. Service: a channel of one message is full as soon as two notifications
meet, and blocks of one transaction leave the second behind. Pool: three nonces
with dearer replacements of two of them make chains of promotion with a
replacement in the middle, and two accounts compete for a place in the same
block. States: six blocks overrun both tiers (four states) and leave room to
unwind and build again. Backend: a snapshot at one block, another mined on top,
and a revert or reorg of two under a reader's feet need four blocks. Fork reset: two
attempts fail and succeed on retry; a second instance lets the endpoint change
during either, and a file of a third is there from before. Lifecycle: a reader, a writer and a third request in the queue
between them is the shape of every deadlock that fair read-write locks allow.
Notifications: a block is mined, rewound, and mined again as the same or as
another one, with a notification of the first still queued, and a second block
takes the transactions of the first. Script: a fault
during the run, one during the resume and one more on the operation of the other
sender. What bounds cannot show, the theorems of section 5 do, for every property
but the liveness properties.

Some properties need a premise, and it is part of their statement:
`ChainOrdered` speaks of blocks prepared while `last_timestamp` was their
parent's (`evm_setTime` may deliberately break that link), `NextIsExecutable`
and `PendingNeedsOthers` are checked where nonces only change by mining or by
restoring a snapshot together with its pool, and `PendingNeedsOthers` of accounts
that sign no authorizations; `LeavesForAReason` is checked where nobody sets
a nonce. `ReadsSeeOneBlock` promises the very block asked for only if the node
keeps a history. `ForkOfOneVersion` excepts what an earlier process left in the
cache file of the same block, until the endpoint is found to be another instance
than at the reset before, and speaks of endpoints that tell their instance.
`NeverItsOwnFork` is checked for a node that answers itself in time. `FilesTracked`
excepts the files of failed writes and deletions, which the code never removes
(they go with the temporary directory). `LogsConverge` excepts logs whose
transactions were dropped, and `EventuallyComplete` excepts
what resuming cannot mend: a transaction that reverted, or a wallet's
transaction that every node has forgotten. `fork_reset` does not check
deadlock: after the last of the bounded resets nothing has to happen.

Configurations beside the runs that pass on larger or other instances:
`MCTimeManager_Blocks` (three blocks, increments of 0, 3.0 million states),
`MCTimeManager_Base` (the Base schedule, `BaseChainOrdered`),
`MCNodeService_Safety` (started in every mode, generations up to 4),
`ScriptBroadcast_Three` (three operations, two faults),
`Backend_Pruned` (the properties of `backend` for a node without a history),
`Notifications_NoKeeper` (all transactions are kept: `LogsExact`, the listeners
have exactly the logs of the canonical blocks).

Fairness.
* `NodeService!FairSpec`. The tokio runtime polls a woken task, runs spawned
  tasks and fires timers, so `ServicePoll`, `Renotify`, `CoalesceElapsed` and
  the holders of the mutex (`FinishSubmit`, `ManualMine` or `ManualFail`,
  `TaskMine` or `TaskFail`) are weakly fair. Tokio's mutex is first come first
  served, so a waiting mining task is not overtaken for ever by submissions and
  manual blocks: `TaskLock` is strongly fair. Nobody is obliged to call an RPC,
  to let a block succeed or to let a tick come due.
* `Lifecycle!LifecycleFairSpec`. A request that can go on is polled again: each request's
  step is weakly fair. Weak fairness is enough because the lock queues
  themselves are modelled. Starting a request is not fair.
* `ScriptBroadcast!FairSpec`. A live process runs on and a dead one is started
  again by its user (weakly fair); a transaction on its way arrives and one that
  can be mined is mined (weakly fair each); the operator answers a question, or
  interrupts a run that hangs, in one of the runs that offer it (strongly fair,
  as the opportunity comes and goes with the runs). Faults are bounded and never
  obliged to happen.

## 4. Where code and documentation differ

Two runs state what a comment says and show a behaviour that differs. The
details are in `PROJECT.json` under `findings`.

* `rollback_on_fork`: on a fork, a rollback to a block whose state was demoted to
  disk rewinds blocks, storage and environment and leaves the live accounts at
  the old head (`eth/backend/mem/mod.rs:7704`, against the comment at `:7680`).
* `script_order`: with several senders the script sends one transaction at a
  time, yet a signed transaction the endpoint does not show is taken off the
  pending list without an error, and the next sender's is sent ahead of it
  (`crates/script/src/progress.rs:291`, against `broadcast.rs:923`).

Further configurations reproduce disagreements of the same kind; each checks one
property and TLC reports it violated:

| configuration | property | behaviour |
|---|---|---|
| `MCTimeManager_NextTimestampHonoured` | `NextTimestampHonoured` | `evm_setNextBlockTimestamp` compares with a last timestamp that a block in flight is about to raise; the accepted timestamp is then clamped (`time.rs:180`) |
| `TimeIncreaseHistory` | `IncreaseNotLost` | a failed `anvil_mine` takes its increase back even if another block has consumed it, and an `evm_increaseTime` made since is lost (`time.rs:170`) |
| `MCNodeService_AutoMineDisabled` | `AutoMineDisabled` | `evm_setAutomine(false)` does nothing in mixed mode (`eth/api.rs:310`) |
| `MCTxPool_IndependentNeedsNothing` | `IndependentNeedsNothing` | after `anvil_rollback` and re-submission, the successor of a mined transaction is still independent of it (`transactions.rs:609`) |
| `MCTxPool_PendingNeedsOthers` | `PendingNeedsOthers` | after `anvil_setNonce` an executable transaction stays pending (`eth/pool/mod.rs:21`) |
| `ForkReset_OtherUrl` | `ForkOfOneVersion` | only the last fork url's identity is remembered: going to another url and back serves a stale cache file (`eth/backend/mem/mod.rs:5346`) |
| `MCTxPool_AuthoritiesNeedOthers` | `AuthoritiesNeedOthers` | a block that uses an authorization raises the nonce of an account that has a transaction waiting; no marker of that nonce is pruned and the transaction stays pending although it could be mined (`eth/pool/mod.rs:259`) |
| `ForkReset_Leftover` | `InheritsNothing` | a fresh node has no previous source to compare with: its first reset onto an anvil opens the cache file that an earlier process left for a block of the same hash (`eth/backend/mem/mod.rs:5048`) |
| `ForkReset_SlowSelf` | `NeverItsOwnFork` | a node that answers its own identity request too late is taken for another endpoint and forked from (`config.rs:142`) |
| `Notifications_Keeper` | `LogsExact` | with `--transaction-block-keeper` the logs of a rewound block are not announced as removed once its transactions are gone, and a block looked up too late gives none (`eth/backend/mem/mod.rs:5663`) |
| `Backend_LiveReads` | `LiveReadsSeeHead` | `evm_revert` does not exclude readers: a live read can mix two blocks (`eth/backend/mem/mod.rs:7096`) |
| `Backend_Coinbase` | `CoinbaseKept` | `anvil_setCoinbase` during a block is overwritten when the block is published (`eth/backend/mem/mod.rs:6519`) |
| `Notifications_Historic` | `HistoricComplete` | a block mined between the look-up of the historic logs and the listener's registration is in neither (`eth/api.rs:3988`) |
| `ScriptBroadcast_Hang` | `WaitsCanEnd` | a failed receipt look-up does not stop polling, and a run can wait for ever for a later nonce behind a forgotten transaction (`crates/script/src/progress.rs`) |

## 5. What is proved

Every safety invariant and action property that a passing run checks is a theorem, for
every value of the constants that satisfies the named assumption of its module.
The assumptions are `BoundsAssumption`, `InputsAssumption`, `NoneAssumption`
(clock), `MiningAssumption` (service), `LifecycleAssumption` (locks),
`PoolAssumption`, `BackendAssumption`, `HistoryAssumption`,
`ForkResetAssumption`, `NotificationsAssumption` and `ScriptAssumption`; they say
of which kind a constant is (numbers, Booleans, a `None` that is no value) and

* `HistoryAssumption`: 0 < `MinLimit` <= `MemoryLimit` and `MinLimit` <
  `FastLimit`. In the code the first is the smaller of the limit the store is made
  with and `MIN_HISTORY_LIMIT` = 10, and the last is `DEFAULT_HISTORY_LIMIT * 3` =
  1500; a store made with the limit 0 is not covered;
* `PoolAssumption`: the transactions that are ever submitted are finitely many;
* `LifecycleAssumption`: the tasks that run requests are finitely many, and the
  block producer is not one of them;
* `NotificationsAssumption`: `fee_history_limit` is not 0, so an entry just
  inserted is kept.

Nine theorems have a hypothesis of their own, given with them below: it says
where the promise of the code ends.

`TimeManagerProofs`
* `TypeCorrect`: the typing conjuncts are inductive together with the fact that
  the mutex has a holder exactly while there is a candidate, and that the holder
  is the one request in state `prepared`.
* `HeadTracked`: `HeadTimestampTracked` is not inductive. It also has to hold of
  every snapshot (its chain, its last timestamp and its own `headSynced`), and
  the candidate's generation has to tell whether the clock was reset since it
  was prepared.
* `TimestampsOrdered`, `BaseTimestampsOrdered`: the candidate's timestamp is at
  least that of the head it will be appended to; chains in snapshots are ordered
  as well, and rollbacks and restores keep prefixes.
* `OverrideUsedOnce`: generations grow, so an installed override with the
  candidate's generation is the one the candidate has read.
* `LastTimestampOnlyResetBack`: an action property; a commit moves the last
  timestamp only if the clock was not reset, and then not back.

`NodeProofs`, of block production (`NodeService`)
* `TypeCorrect`.
* `PauseIsHonoured`, from `PauseInv`: a task that builds a block either carries
  the current pause epoch or holds the mutex since before the pause request
  could return; the epoch is odd while mining is paused, and no candidate is
  selected with an odd one.
* `NeverOversleeps`, from `SleepInv`: after every step the service is woken or
  its waker is registered, and each step that makes work selectable wakes it.
* `WakeupsAreKept`, from `WakeupInv`, under `MaxTransactions > 0` (with 0 the
  miner selects nothing and forgets): a candidate in flight that will be skipped
  as stale belongs to a pause epoch whose resumption has already asked the miner
  to select again.

`NodeProofs`, of the locks of the requests (`Lifecycle`), from `LifecycleInv`. A
handler is a sequence of instructions, and the lock that instruction k took is
`Kept` at a later one if its guard is neither a temporary nor dropped in between.
What has to be known of the twelve handlers is read off their programs once:
`Sound` (a lock is taken only above all that are kept; parts of the node are seen
only under the first lock taken, the lifecycle lock or the mining mutex, which is
kept to the end) and `InPlace` (where a program publishes, saves and restores, and
what it keeps there). The rest speaks of any program with these facts.
* `LocksExclude`. `QueueInv`: every entry of a queue is `Rightful`, that is, of a
  running request at that lock or one that keeps it; an idle task is in no queue.
  `HoldInv`: whoever keeps a lock stands at the front of its queue, a writer as
  the first and a reader with only readers before it. The steps that disturb a
  queue are of one form, one request leaving it or going to its end (`Undisturbed`), and such a step changes
  nothing for the others.
* `RequestsSeeOneNode`. `NodeInv` says of the parts of the node which are of the
  new incarnation at each instruction of a reset (database, chain, instance, pool,
  in this order), and that they agree when no reset is published; `SeenInv` that
  all a request has seen is of the present incarnation. Publishing happens under
  the lifecycle lock and the mining mutex; a request that sees more than one part
  keeps one of the two, the block producer the mutex and all others the lifecycle
  lock, so by mutual exclusion none has seen anything while a part is published.
* `SnapshotsStayPaired`. `PairInv` says what the holder of the mining mutex still
  owes: the pool of a state just saved, the removal of pools whose states were
  reverted or dropped, ids above the last one given out being in neither map.
  Two snapshots cannot cross although both only read the lifecycle lock, because
  the mutex covers both halves.
* `RequestsNeverDeadlock`, the part of `EveryRequestEnds` that is a safety
  property: whenever a request runs, one is not at a lock or has its turn. Locks
  that are kept are taken in the order reset, lifecycle, nonce, mining,
  configuration, database (`Rank`); a guard dropped at once may be above later
  ones (a reset glances at configuration, database and lifecycle lock while it
  keeps only the reset lock). Of those who wait take one at the greatest lock;
  the first of its queue goes on, or waits at a greater one. That a fair lock
  makes a reader wait behind a writer is covered: who is first counts, not who
  excludes whom.
* `LifecycleTypeCorrect`: the bounds need `CountInv`, that the incarnation and the
  resets under way together do not exceed the bound on the resets, and likewise
  for the snapshots; `Cardinality` of the running requests changes with a start
  and an end only.
* `Without` (a request leaves a queue) is a local recursive function; what remains
  of the queue, and in which order, is proved by well-ordering.

`TxPoolProofs`, from `TxPoolInv`: `PoolInv` (of the pool and of every pool in a
snapshot), `JobOK`, `BlockTyped`, `BlockOK`. Every iteration of a loop of the
pool is a step, so the invariant has to hold in the middle of a promotion: what
`add_ready_transaction` still has to add is in neither queue, and what it
requires is provided.
* `PoolIsTyped`, `IndexesDescribeQueues`, `LinksAreExact`,
  `NobodyWaitsForProvided`. The links need the most: `unlocks` names exactly the
  ready transactions whose requirement the entry provides, except those that
  became independent when their provider was mined, and `requires_offset`
  counts what they no longer wait for.
* `PruningAddsNobody`: no marker of the block being mined, or still to be
  pruned, is one that somebody waits for, because no submission gets between
  the copy of the queue and the prune.
* `IteratorIsExact`: a transaction is offered or yielded exactly if all that
  unlock it were yielded. That none is left over is an argument by a least
  counterexample: of those left over, one with the least nonce has a provider
  with a smaller one.
* `RefusalIsHarmless`, an action property.
* `NobodyIsLost`, an action property, under `~AllowSetNonce`: of every step, why
  the transactions that it takes out of the pool leave it. The queues and what a
  promotion is about to add count as one pool, so that a transaction on its way
  from one to the other is not lost. What goes with a removed transaction is of
  the same account and comes later, since links and requirements lead from one
  nonce to the next (the dependents are a least set, and those after the removed
  one are a set of the kind); what is pruned has a nonce the chain has used
  (`SpentInv`), the providers that the pruning walks back to included.
* `WaitingNeedsOthers`, `BlockOffersExecutable`, under `~AllowSetNonce` and
  `~AllowRollback` (that is, nonces change by blocks, or come back together
  with the pool; `MCTxPool_PendingNeedsOthers` shows the other case). `NonceInv`
  adds: what waits is above its account's nonce, if the account signs no
  authorizations, and what is independent is not above it, in the pool, in every
  snapshot and during the block against the nonces so far. That a block raises
  other accounts' nonces disturbs only the former. `BlockOffersExecutable` also
  says that the dependents of a transaction that was left out are neither included
  nor thrown out by the same block: they are not offered before it was yielded,
  and then its marker is unavailable.

`BackendProofs`, from `BackendInv`
* `HeadIsOneBlock` for a node without a fork (`Persistent`; `rollback_on_fork`
  shows why): phase by phase of the holder of the mining mutex, which pieces are
  already of the new head (`MiningOK`, `RevertOK`, `RollbackOK`); of each snapshot, that its
  block, its database and its fees are of the chain it remembers. The part that
  holds on a fork too is `ForkChainAgrees`.
* `RequestsSeeOneBlock` (`Persistent`) and `GuardedReadsServed`: what a request
  has read by each of its phases is of one block, and while it holds a read lock
  of the database no block is being written (`Locked`, `Sees`). In a node without
  a history the block may be a later head than the one asked for, never an earlier
  one.
* `OverridesUsedOnce`, `OverridesNotLost`: an override value never comes back
  once a block has used it, although snapshots save the pending one: a value in
  a snapshot was used by no block of that snapshot's chain.
* `BackendTyped`.

`BlockStatesProofs`
* `StoreTyped`, `CacheFilesTracked`, from `StatesInv`: the states of a tier are
  those its queue names, both queues are sorted and the disk tier is the older,
  also between two iterations of `enforce_limits`. A `Partial` file is of a block
  whose state is in memory or that is not listed (`Placed`).
* `StoreImplementsHistory`: `BlockStates` implements `HistoricStates`. Initial
  states map to initial states, and each step to a step or a stutter: a demotion
  is the abstract demotion, a purge forgets the oldest state, and the step of a
  failed write keeps the state in memory.
* `RecentStatesKept`, from `RecentInv`: the two queues together are the end of
  the list of recorded blocks (`Lined`), and as long as one is shorter than its
  limit nothing was dropped behind it (`MemoryFilled`, `DiskFilled`).
* `Retain` (`VecDeque::retain`) is a local recursive function; what the proofs
  need of it (order and membership of what is left) is proved by well-ordering,
  from the least index at which it would fail.

`ForkResetProofs`
* `TypingHolds`, and `FailedResetLeavesNothing` from `FilesLive`: a file on disk
  was written for the live fork, at every step of a reset and of its rollback.
* `NoForkOfItself`, if the node answers itself in time (`"self" \notin
  SlowUrls`): identities of the own endpoint are the own instance id, so a reset
  that has passed its check is not of it.
* `PublishedForkOfOneVersion`, an action property, for one endpoint
  (`OneEndpoint`; `ForkReset_OtherUrl` shows the case of two) and any files of
  earlier processes (`ForkReset_Leftover` shows what the exception is for). `VersionInv`
  speaks of the past: the instance of the endpoint only grows, and its fork
  block while the instance stays; an answer is of a version that was the
  endpoint's at some time between the two identity checks, and what was read at
  another time is found out by the second.

`NotificationsProofs`, from `NotificationsInv`
* `ListenersConverge`, for any `Keeper`, and `ListenersExact`, if all transactions
  are kept (`Keeper >= MaxChain`): the properties speak of an empty queue, the invariant
  (`Tracks`) of any queue, with what the miner has yet to announce behind it. A
  log of the chain that the client was or will be told of it either has, and no
  queued note removes it, or will be given by a note that no later one undoes;
  and a log it has is on the chain or will be removed. A block mined again with
  the same content has the same hash, hence the "later". Reading a note late is
  harmless because a note of a block that is off the chain brings nothing. A log
  whose transactions were dropped may be missed, and one that was delivered before
  may stay after its block went (`lost`); without a keeper there are none.
* `FeeEntriesWereCanonical`, `FeeAnswerIsOfOneChain`, from `QueryFits`: without a
  revert the entries so far are prefixes of the present chain, since a rollback
  or reset waits for the request and mining only extends; a cached entry is
  compared with the canonical hash before it is used.
* `FilterInUseSurvives`, an action property: a deadline is the last use plus the
  keepalive, and the evictor's instant is never in the future.
* `NotificationsAreTyped`, with the limit of the fee history cache: of a finite
  set of numbers at most `FeeLimit` are its newest.

`ScriptBroadcastProofs`, from `ScriptInv`
* `SubmittedOnce`: write-ahead. Whatever plan a crash leaves to be loaded has
  for every submitted transaction an attempt that tells of it (`Covers`), and
  while the process runs the attempts in memory are those on disk. A key here
  and a delegated one differ: the former signs the same payload again, the
  latter is never asked twice (`FlightOK`).
* `CompleteIsMined`: no operation is dropped between the batches (`Batching`),
  and receipts, in outdated plans too, are of mined transactions.
* `ScriptTyped`.

Only model-checked:
* liveness: `AutoMineProgress`, `TickTakenUp`, `EveryRequestEnds`,
  `EventuallyComplete`. Fairness and ENABLED are beyond the prover;
* what the configurations of section 4 show, which is the existence of a
  behaviour.

## 6. Not modelled

By lines, nearly all of the repository: the models cover the code whose state
outlives a call and is shared, or has to survive a fault. What is left is

* sequential transformations of their input, for which a state machine says
  nothing a unit test does not: `fmt`, `lint`, `doc`, the debugger and chisel
  front ends, trace decoding, coverage, linking, configuration, formatting and
  the command-line clients;
* EVM execution and the cheatcodes, several hundred independent functions on EVM
  state; gas, receipts and the base-fee arithmetic in anvil;
* the test runner and the fuzzing and invariant drivers: independent contracts
  in parallel, random inputs, no shared protocol;
* transport and plain I/O: the JSON-RPC server, fetching remote state, the
  verification services, periodic dumps, fork-block following;
* read-only RPCs beyond the reads of `Backend` and `Lifecycle`.

`PROJECT.json` gives the reason for each component.

## 7. Plan

1. Done: the modules of section 2 with their runs; the theorems of section 5.
2. An abstract pool, the set that `NobodyIsLost` speaks of, of which both
   `TxPool` and the sets of `NodeService` would be implementations.
3. The multi-fork backend of `evm/core`; the base-fee rule as a pure operator
   over bounded headers; the pool's other nonce lanes.
