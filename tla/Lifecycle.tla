------------------------------ MODULE Lifecycle ------------------------------
(***************************************************************************)
(* The locks of an anvil node's requests (crates/anvil/src/eth/api.rs):    *)
(* reset_lock, the lifecycle lock, a sender's nonce lock, the mining mutex *)
(* and the locks of the configuration and the database.  tokio's locks are *)
(* fair: a request that waits goes behind those that wait already, a       *)
(* reader too behind a writer; a request that reads the lifecycle lock     *)
(* twice, or waits for a request that waits for it, would wait for ever.   *)
(*                                                                         *)
(* A request is the program of its handler: the locks it takes, in order,  *)
(* and what it does to the node in between.  It drops its locks when it    *)
(* ends.  A fork reset may be pointed at the node itself: asking who the   *)
(* endpoint is then is a request to this node.                             *)
(***************************************************************************)
EXTENDS Integers, Sequences, FiniteSets

CONSTANTS
    Clients,      \* tasks that run requests, one after the other
    Producer,     \* the task of the block producer
    MaxResets,    \* bound on the resets
    MaxSnapshots  \* bound on the snapshots between two resets

ASSUME LifecycleAssumption ==
    /\ MaxResets \in Nat /\ MaxSnapshots \in Nat
    /\ IsFiniteSet(Clients) /\ Producer \notin Clients

VARIABLES
    queues,    \* per lock, those who hold it and behind them those who wait
    requests,  \* per task, the request it runs
    node,      \* per part of the node, the incarnation it belongs to
    next,      \* the last snapshot id the database gave out
    states,    \* ids of active_state_snapshots
    pools      \* pool_snapshots: by id, the incarnation of the pool saved

Requests == Clients \cup {Producer}

lifecycleVars == <<queues, requests, node, next, states, pools>>

Locks == {"reset", "lifecycle", "nonce", "mining", "config", "db"}
Parts == {"db", "chain", "instance", "pool"}  \* chain: with the environment

----------------------------------------------------------------------------
(* Programs: an instruction is an operation and its argument. *)

Lock(l, mode, keep) == [op |-> "lock", arg |-> l, mode |-> mode, keep |-> keep]
Read(l) == Lock(l, "read", TRUE)
Write(l) == Lock(l, "write", TRUE)
Glance(l) == Lock(l, "read", FALSE)  \* a guard dropped at once
Touch(l) == Lock(l, "write", FALSE)
Unlock(l) == [op |-> "unlock", arg |-> l]
See(p) == [op |-> "see", arg |-> p]
Publish(p) == [op |-> "publish", arg |-> p]
Do(effect) == [op |-> "do", arg |-> effect]

\* The live cache is flushed; the endpoint is asked who it is.
PrepareForkReset ==
    << Glance("config"), Touch("db"), Glance("config"), Glance("lifecycle"),
       Do("may_fail") >>

\* commit_fork_reset and commit_memory_reset: a cache may fail to be flushed.
CommitReset ==
    << Write("config"), Write("db"), Do("may_fail"), Publish("db"),
       Publish("chain"), Do("drop_states"), Unlock("db"), Unlock("config"),
       Publish("instance") >>

\* Slip: the snapshots of the pool survive the reset.
WrongClearPool == << Publish("pool") >>

ClearPool == << Publish("pool"), Do("drop_pools") >>

ForkResetProgram ==
    << Write("reset") >> \o PrepareForkReset \o
    << Write("lifecycle"), Write("mining") >> \o CommitReset \o ClearPool

MemoryResetProgram ==
    << Write("reset"), Write("lifecycle"), Write("mining"),
       Glance("config"), Do("may_fail") >> \o CommitReset \o ClearPool

SetRpcUrlProgram ==
    << Write("reset"), Glance("config"), Glance("lifecycle"), Do("may_fail"),
       Write("lifecycle"), Write("mining"), Write("config") >>

\* anvil_rollback and anvil_reorg
RewindProgram ==
    << Write("lifecycle"), Write("mining"), See("chain"), Do("may_fail"),
       Write("db"), See("db") >>

SnapshotProgram ==
    << Read("lifecycle"), Write("mining"), Do("copy_pool"), Write("db"),
       Do("save_state"), Unlock("db"), Do("save_pool") >>

\* Slip: execute takes the lifecycle lock for evm_revert too.
WrongRevertProgram ==
    << Read("lifecycle"), Read("lifecycle"), Write("mining"), Do("may_fail"),
       Write("db"), Do("revert_state"), Unlock("db"), Do("restore_pool") >>

\* An unknown snapshot, or one whose block is gone, is refused at once.
RevertProgram ==
    << Read("lifecycle"), Write("mining"), Do("may_fail"), Write("db"),
       Do("revert_state"), Unlock("db"), Do("restore_pool") >>

\* Slip: a request is executed without the lifecycle lock.
WrongReadProgram == << See("chain"), Read("db"), See("db") >>

\* execute, for a request that reads the state
ReadProgram == << Read("lifecycle"), See("chain"), Read("db"), See("db") >>

\* anvil_metadata and anvil_nodeInfo
MetadataProgram == << Read("lifecycle"), See("chain"), See("instance") >>

\* The nonce is read and the transaction enters the pool, under both locks,
\* if the account as it is by then accepts it.
SendProgram ==
    << Read("lifecycle"), Write("nonce"), Read("db"), See("db"), Unlock("db"),
       Write("mining"), Glance("db"), Do("may_fail"), See("pool") >>

\* A transaction with its own nonce, and the wait for its receipt, which ends
\* with the receipt or at the timeout.
SendSyncProgram ==
    << Read("lifecycle"), Write("mining"), Glance("db"), Do("may_fail"),
       Unlock("mining"), Do("await_inclusion") >>

\* do_mine_block; the block producer calls it without the lifecycle lock.
ProduceProgram ==
    << Write("mining"), See("chain"), Write("db"), See("db") >>

MineProgram == << Read("lifecycle") >> \o ProduceProgram

Program ==
    [ fork_reset |-> ForkResetProgram,
      memory_reset |-> MemoryResetProgram,
      set_rpc_url |-> SetRpcUrlProgram,
      rewind |-> RewindProgram,
      snapshot |-> SnapshotProgram,
      revert |-> RevertProgram,
      read |-> ReadProgram,
      metadata |-> MetadataProgram,
      send |-> SendProgram,
      send_sync |-> SendSyncProgram,
      mine |-> MineProgram,
      produce |-> ProduceProgram ]

----------------------------------------------------------------------------
(* Requests and their locks *)

\* seen: the incarnations of what the request used; id: of its snapshot;
\* copy: the incarnation of the pool it copied.
Idle == [kind |-> "idle", pc |-> 0, seen |-> {}, id |-> 0, copy |-> 0]

\* What a task runs: blocks, or the requests of its clients.
KindsOf(r) == IF r = Producer THEN {"produce"} ELSE DOMAIN Program \ {"produce"}

Instruction(r) == Program[requests[r].kind][requests[r].pc]
Argument(r) == Instruction(r).arg
At(r, op) == Instruction(r).op = op
DoesNow(r, effect) == At(r, "do") /\ Argument(r) = effect

\* What r asks for with the instruction it is at.
Entry(r) == [who |-> r, pc |-> requests[r].pc, mode |-> Instruction(r).mode]

\* The first entry holds the lock, and the readers that follow a first reader.
Holding(q, e) ==
    \E i \in 1..Len(q) :
        /\ q[i] = e
        /\ i = 1 \/ \A j \in 1..i : q[j].mode = "read"

Queued(q, e) == \E i \in 1..Len(q) : q[i] = e
Behind(q, e) == IF Queued(q, e) THEN q ELSE Append(q, e)

\* The queue once r has dropped its guards and its place in it.
Without(q, r) ==
    LET upTo[i \in 0..Len(q)] ==
            IF i = 0 THEN <<>>
            ELSE IF q[i].who = r THEN upTo[i-1] ELSE Append(upTo[i-1], q[i])
    IN  upTo[Len(q)]

Released(q, r) == [l \in Locks |-> Without(q[l], r)]

\* The request ends, with success or with an error.
End(r) ==
    /\ requests' = [requests EXCEPT ![r] = Idle]
    /\ queues' = Released(queues, r)

\* The request r, now req, goes on to its next instruction, if it has one.
Proceed(r, req, q) ==
    LET more == req.pc < Len(Program[req.kind]) IN
    /\ requests' = [requests EXCEPT ![r] =
                      IF more THEN [req EXCEPT !.pc = @ + 1] ELSE Idle]
    /\ queues' = IF more THEN q ELSE Released(q, r)

Continue(r) == Proceed(r, requests[r], queues)

Resets == {"fork_reset", "memory_reset"}
Running(kinds) == {r \in Requests : requests[r].kind \in kinds}

Start(r, kind) ==
    /\ requests[r].kind = "idle"
    /\ kind \in Resets =>
          node.instance + Cardinality(Running(Resets)) < MaxResets
    /\ kind = "snapshot" =>
          next + Cardinality(Running({kind})) < MaxSnapshots
    /\ requests' = [requests EXCEPT ![r] = [Idle EXCEPT !.kind = kind, !.pc = 1]]
    /\ UNCHANGED <<queues, node, next, states, pools>>

\* The lock is not free: the request goes behind those that wait.
Wait(r) ==
    /\ At(r, "lock")
    /\ LET l == Argument(r)
           q == Append(queues[l], Entry(r))
       IN  /\ ~Queued(queues[l], Entry(r))
           /\ ~Holding(q, Entry(r))
           /\ queues' = [queues EXCEPT ![l] = q]
    /\ UNCHANGED <<requests, node, next, states, pools>>

Acquire(r) ==
    /\ At(r, "lock")
    /\ LET l == Argument(r)
           q == Behind(queues[l], Entry(r))
       IN  /\ Holding(q, Entry(r))
           /\ Proceed(r, requests[r], [queues EXCEPT ![l] =
                                          IF Instruction(r).keep THEN q ELSE Without(q, r)])
    /\ UNCHANGED <<node, next, states, pools>>

Drop(r) ==
    /\ At(r, "unlock")
    /\ Proceed(r, requests[r], [queues EXCEPT ![Argument(r)] = Without(@, r)])
    /\ UNCHANGED <<node, next, states, pools>>

----------------------------------------------------------------------------
(* What requests do between their locks *)

Observe(r) ==
    /\ At(r, "see")
    /\ Proceed(r, [requests[r] EXCEPT !.seen = @ \cup {node[Argument(r)]}], queues)
    /\ UNCHANGED <<node, next, states, pools>>

\* A new database counts its snapshots from the start.
PublishPart(r) ==
    /\ At(r, "publish")
    /\ node' = [node EXCEPT ![Argument(r)] = @ + 1]
    /\ next' = IF Argument(r) = "db" THEN 0 ELSE next
    /\ Continue(r)
    /\ UNCHANGED <<states, pools>>

\* A remote call, a flush or a check: it succeeds, or the request fails.
Outcome(r) ==
    /\ DoesNow(r, "may_fail")
    /\ Continue(r) \/ End(r)
    /\ UNCHANGED <<node, next, states, pools>>

AwaitInclusion(r) ==
    /\ DoesNow(r, "await_inclusion")
    /\ Continue(r)
    /\ UNCHANGED <<node, next, states, pools>>

DropStates(r) ==
    /\ DoesNow(r, "drop_states")
    /\ states' = {}
    /\ Continue(r)
    /\ UNCHANGED <<node, next, pools>>

DropPools(r) ==
    /\ DoesNow(r, "drop_pools")
    /\ pools' = <<>>
    /\ Continue(r)
    /\ UNCHANGED <<node, next, states>>

CopyPool(r) ==
    /\ DoesNow(r, "copy_pool")
    /\ Proceed(r, [requests[r] EXCEPT !.copy = node.pool], queues)
    /\ UNCHANGED <<node, next, states, pools>>

SaveState(r) ==
    /\ DoesNow(r, "save_state")
    /\ next' = next + 1
    /\ states' = states \cup {next'}
    /\ Proceed(r, [requests[r] EXCEPT !.id = next'], queues)
    /\ UNCHANGED <<node, pools>>

SavePool(r) ==
    /\ DoesNow(r, "save_pool")
    /\ pools' = [i \in DOMAIN pools \cup {requests[r].id} |->
                   IF i = requests[r].id THEN requests[r].copy ELSE pools[i]]
    /\ Continue(r)
    /\ UNCHANGED <<node, next, states>>

\* The snapshots after the one reverted to go with it.
RevertState(r) ==
    /\ DoesNow(r, "revert_state")
    /\ \/ \E id \in states :
              /\ states' = {i \in states : i < id}
              /\ Proceed(r, [requests[r] EXCEPT !.id = id], queues)
       \/ /\ End(r)
          /\ UNCHANGED states
    /\ UNCHANGED <<node, next, pools>>

\* The pool becomes the one saved with the snapshot, if there is one.
RestorePool(r) ==
    LET id == requests[r].id IN
    /\ DoesNow(r, "restore_pool")
    /\ node' = IF id \in DOMAIN pools THEN [node EXCEPT !.pool = pools[id]] ELSE node
    /\ pools' = [i \in {j \in DOMAIN pools : j < id} |-> pools[i]]
    /\ Continue(r)
    /\ UNCHANGED <<next, states>>

----------------------------------------------------------------------------
LifecycleInit ==
    /\ queues = [l \in Locks |-> <<>>]
    /\ requests = [r \in Requests |-> Idle]
    /\ node = [p \in Parts |-> 0]
    /\ next = 0 /\ states = {} /\ pools = <<>>

Step(r) ==
    /\ requests[r].kind # "idle"
    /\ \/ Wait(r) \/ Acquire(r) \/ Drop(r) \/ Observe(r) \/ PublishPart(r)
       \/ Outcome(r) \/ AwaitInclusion(r) \/ DropStates(r) \/ DropPools(r)
       \/ CopyPool(r) \/ SaveState(r) \/ SavePool(r)
       \/ RevertState(r) \/ RestorePool(r)

LifecycleNext ==
    \E r \in Requests : Step(r) \/ \E kind \in KindsOf(r) : Start(r, kind)

LifecycleSpec == LifecycleInit /\ [][LifecycleNext]_lifecycleVars

\* The runtime polls a task that can go on.
LifecycleFairSpec ==
    LifecycleSpec /\ \A r \in Requests : WF_lifecycleVars(Step(r))

----------------------------------------------------------------------------
(* Properties *)

\* The shape of the state; and only running requests hold or wait for locks:
\* the guards of a handler are dropped on every way out of it.
LifecycleTypeOK ==
    /\ node \in [Parts -> 0..MaxResets]
    /\ next \in 0..MaxSnapshots /\ states \subseteq 1..MaxSnapshots
    /\ \A r \in Requests :
          /\ requests[r].kind \in KindsOf(r) \cup {"idle"}
          /\ requests[r].seen \subseteq 0..MaxResets
    /\ \A l \in Locks : \A i \in 1..Len(queues[l]) :
          requests[queues[l][i].who].kind # "idle"

\* execute (api.rs:2132) and do_mine_block: everything a request sees of the
\* node belongs to one incarnation of it, whatever resets run beside it.
OneIncarnation ==
    \A r \in Requests :
        requests[r].kind # "idle" /\ At(r, "see")
            => requests[r].seen \subseteq {node[Argument(r)]}

\* evm_snapshot, evm_revert and anvil_reset (api.rs:611, 886, 854): while no
\* request holds the mining mutex, every snapshot of the state has its
\* snapshot of the pool, none is left over, and both are of this incarnation:
\* the ids start again with a reset, so a left-over pool would be restored
\* with the snapshot of another chain.
PoolSnapshotsPaired ==
    queues["mining"] = <<>> =>
        /\ DOMAIN pools = states
        /\ \A id \in DOMAIN pools : pools[id] = node.db

\* anvil_reset, anvil_setRpcUrl, execute (api.rs:684, 854, 2132): every
\* request ends, though requests wait for one another's locks and a fork
\* reset may ask this very node for its identity.
EveryRequestEnds ==
    \A r \in Requests : (requests[r].kind # "idle") ~> (requests[r].kind = "idle")
=============================================================================
