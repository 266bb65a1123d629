---------------------------- MODULE BlockStates ----------------------------
(***************************************************************************)
(* InMemoryBlockStates (crates/anvil/src/eth/backend/mem/storage.rs): the  *)
(* states of older blocks, the recent ones in memory, the ones before them *)
(* in a second tier on disk, the oldest dropped.                           *)
(*                                                                         *)
(* Every operation runs under the write lock of Backend::states.  Each     *)
(* iteration of the loops of enforce_limits is a step, and `op` is what    *)
(* the holder of the lock still has to do.                                 *)
(***************************************************************************)
EXTENDS Integers, Sequences, FiniteSets

CONSTANTS
    Blocks,       \* block hashes, as numbers in the order of their creation
    States,       \* states of the database
    MemoryLimit,  \* in_memory_limit at start
    MinLimit,     \* min_in_memory_limit
    FastLimit,    \* DEFAULT_HISTORY_LIMIT * 3, for block times up to 2s
    DiskLimit,    \* max_on_disk_limit, 0 when memory only
    MaxLimit,     \* bound on in_memory_limit, which failed writes raise
    Persistent,   \* whether states are structurally shared (no fork) or not
    Partial,      \* content of a file whose writing was cut short
    None          \* Rust's Option::None

ASSUME HistoryAssumption ==
    /\ Blocks \subseteq Nat /\ 1 \in Blocks
    /\ MemoryLimit \in Nat /\ MinLimit \in Nat /\ FastLimit \in Nat
    /\ DiskLimit \in Nat /\ MaxLimit \in Nat
    /\ 0 < MinLimit /\ MinLimit <= MemoryLimit /\ MinLimit < FastLimit
    /\ Persistent \in BOOLEAN
    /\ None \notin States /\ None \notin Blocks /\ Partial \notin States

VARIABLES
    store,    \* the fields of InMemoryBlockStates
    op,       \* what the holder of the write lock is doing
    chain,    \* the canonical blocks
    mined,    \* number of blocks built so far
    recorded, \* history: the blocks recorded since the chain was unwound
    ledger    \* history: the state recorded last for each block

statesVars == <<store, op>>
vars == <<store, op, chain, mined, recorded, ledger>>

MemoryOnly == DiskLimit = 0

Without(f, S) == [x \in DOMAIN f \ S |-> f[x]]
Put(f, k, v) == [x \in DOMAIN f \cup {k} |-> IF x = k THEN v ELSE f[x]]

\* VecDeque::retain
Retain(seq, S) ==
    LET upTo[i \in 0..Len(seq)] ==
            IF i = 0 THEN <<>>
            ELSE IF seq[i] \in S THEN Append(upTo[i-1], seq[i]) ELSE upTo[i-1]
    IN  upTo[Len(seq)]

(* states:   states in memory                                              *)
(* onDisk:   on_disk_states; None stands for an object whose data are in   *)
(*           the cache file                                                *)
(* files:    the files of DiskStateCache, complete or Partial              *)
(* failed:   history: the blocks whose file could once not be written or   *)
(*           not be deleted                                                *)
(* present:  the order in which states leave the memory                    *)
(* oldest:   oldest_on_disk, the order in which they leave the disk        *)
EmptyStore ==
    [states |-> <<>>, onDisk |-> <<>>, files |-> <<>>, failed |-> {},
     present |-> <<>>, oldest |-> <<>>, limit |-> MemoryLimit]

\* The states of on_disk_states whose data are in a file.
Listed(st) == {b \in DOMAIN st.onDisk : st.onDisk[b] = None}

NoOp == [phase |-> "none", block |-> None, state |-> None]

InitStates == store = EmptyStore /\ op = NoOp

----------------------------------------------------------------------------
(* insert and enforce_limits *)

Shrunk(st) ==
    IF ~MemoryOnly /\ Len(st.present) >= st.limit
    THEN [st EXCEPT !.limit = IF @ - 1 < MinLimit THEN MinLimit ELSE @ - 1]
    ELSE st

Insert(b, s) ==
    /\ op = NoOp
    /\ store' = Shrunk(store)
    /\ op' = [phase |-> "memory", block |-> b, state |-> s]

\* update_interval_mine_block_time, for a block time of at most 2 seconds
FastBlocks ==
    /\ op = NoOp
    /\ ~MemoryOnly
    /\ store' = [store EXCEPT !.limit = FastLimit]
    /\ op' = [NoOp EXCEPT !.phase = "memory"]

\* The oldest state in memory is popped; its tier decides what becomes of it.
Popped(st) == [st EXCEPT !.present = Tail(@), !.states = Without(@, {Head(st.present)})]

\* Slip: an older version of the state stays on disk and in its file.
WrongDemoted(st, b) ==
    IF b \in DOMAIN st.onDisk THEN st
    ELSE [st EXCEPT
            !.onDisk = Put(@, b, IF Persistent THEN st.states[b] ELSE None),
            !.files = IF Persistent THEN @ ELSE Put(@, b, st.states[b]),
            !.oldest = Append(@, b)]

Demoted(st, b) ==
    [st EXCEPT
        !.onDisk = Put(@, b, IF Persistent THEN st.states[b] ELSE None),
        !.files = IF Persistent THEN @ ELSE Put(@, b, st.states[b]),
        !.oldest = Append(@, b)]

EvictOldest ==
    LET b == Head(store.present)
    IN  /\ op.phase = "memory"
        /\ Len(store.present) >= store.limit
        /\ store' = IF b \in DOMAIN store.states /\ ~MemoryOnly
                    THEN Popped(Demoted(store, b))
                    ELSE Popped(store)
        /\ UNCHANGED op

\* Slip: the state that could not be written is not put back.
WrongKeptInMemory(st, created) ==
    [Popped(st) EXCEPT !.limit = @ + 1,
        !.files = IF created THEN Put(@, Head(st.present), Partial) ELSE @,
        !.failed = IF created THEN @ \cup {Head(st.present)} ELSE @]

KeptInMemory(st, created) ==
    [st EXCEPT !.limit = @ + 1,
        !.files = IF created THEN Put(@, Head(st.present), Partial) ELSE @,
        !.failed = IF created THEN @ \cup {Head(st.present)} ELSE @]

\* The file cannot be created, or it is (an older one is truncated) and then
\* not written to its end: the state stays in memory and the loop ends.
WriteFails ==
    /\ op.phase = "memory"
    /\ Len(store.present) >= store.limit
    /\ Head(store.present) \in DOMAIN store.states
    /\ ~MemoryOnly /\ ~Persistent
    /\ store.limit < MaxLimit
    /\ \E created \in BOOLEAN : store' = KeptInMemory(store, created)
    /\ op' = [op EXCEPT !.phase = "disk"]

MemoryEnforced ==
    /\ op.phase = "memory"
    /\ Len(store.present) < store.limit
    /\ op' = [op EXCEPT !.phase = "disk"]
    /\ UNCHANGED store

DiskFull(st) == ~MemoryOnly /\ Len(st.oldest) >= DiskLimit

\* DiskStateCache::remove for the listed states of S; the deletion of those
\* in stuck fails, which is logged and ignored.
FilesRemoved(st, S, stuck) == Without(st.files, (S \cap Listed(st)) \ stuck)

\* Slip: the file of a purged state is left behind.
WrongPurged(st, stuck) ==
    [st EXCEPT !.oldest = Tail(@), !.onDisk = Without(@, {Head(st.oldest)}),
               !.failed = @ \cup stuck]

Purged(st, stuck) ==
    [st EXCEPT !.oldest = Tail(@), !.onDisk = Without(@, {Head(st.oldest)}),
               !.files = FilesRemoved(st, {Head(st.oldest)}, stuck),
               !.failed = @ \cup stuck]

PurgeOldest ==
    /\ op.phase = "disk"
    /\ DiskFull(store)
    /\ \E stuck \in SUBSET ({Head(store.oldest)} \cap Listed(store)) :
            store' = Purged(store, stuck)
    /\ UNCHANGED op

\* The limits are enforced; insert stores the new state.
Finish ==
    /\ op.phase = "disk"
    /\ ~DiskFull(store)
    /\ store' = IF op.block = None THEN store
                ELSE [store EXCEPT !.states = Put(@, op.block, op.state),
                                   !.present = Append(@, op.block)]
    /\ op' = NoOp

StatesStep ==
    \/ EvictOldest \/ WriteFails \/ MemoryEnforced \/ PurgeOldest \/ Finish

----------------------------------------------------------------------------
(* remove_block_states and clear *)

RemoveBlockStates(st, S, stuck) ==
    [st EXCEPT !.states = Without(@, S), !.onDisk = Without(@, S),
               !.files = FilesRemoved(st, S, stuck), !.failed = @ \cup stuck,
               !.present = Retain(@, Blocks \ S),
               !.oldest = Retain(@, Blocks \ S)]

\* The memory limit survives, and so do files no state on disk lists.
Cleared(st, stuck) ==
    [EmptyStore EXCEPT !.limit = st.limit, !.failed = st.failed \cup stuck,
                       !.files = FilesRemoved(st, Listed(st), stuck)]

(* get_state, get_on_disk_state: a Partial file is not read. *)
Available(st) ==
    DOMAIN st.states \cup
    {b \in DOMAIN st.onDisk :
        st.onDisk[b] # None \/ (b \in DOMAIN st.files /\ st.files[b] # Partial)}

Lookup(st, b) ==
    IF b \in DOMAIN st.states THEN st.states[b]
    ELSE IF st.onDisk[b] # None THEN st.onDisk[b]
    ELSE st.files[b]

----------------------------------------------------------------------------
(* The chain that uses the store: mining records the state the head has    *)
(* left (do_mine_block_locked), evm_revert and anvil_rollback unwind to a  *)
(* block of the chain, anvil_reset starts another one.                     *)

Tracked(st) ==
    {st.present[i] : i \in 1..Len(st.present)} \cup
    {st.oldest[i] : i \in 1..Len(st.oldest)}

Head_ == CHOOSE b \in chain : \A c \in chain : c <= b

\* A child of the head is mined; it gets the next number.
Mine(s) ==
    /\ mined + 1 \in Blocks
    /\ Insert(Head_, s)
    /\ mined' = mined + 1
    /\ chain' = chain \cup {mined + 1}
    /\ recorded' = IF Head_ \in Tracked(store) THEN <<>>
                   ELSE Append(recorded, Head_)
    /\ UNCHANGED ledger

Enforce ==
    /\ StatesStep
    /\ ledger' = IF op' = NoOp /\ op.block # None
                 THEN Put(ledger, op.block, op.state) ELSE ledger
    /\ UNCHANGED <<chain, mined, recorded>>

SetFastBlocks == FastBlocks /\ UNCHANGED <<chain, mined, recorded, ledger>>

Unwind(b) ==
    LET removed == {c \in chain : c > b}
    IN  /\ op = NoOp
        /\ \E stuck \in SUBSET (removed \cap Listed(store)) :
                store' = RemoveBlockStates(store, removed, stuck)
        /\ chain' = chain \ removed
        /\ recorded' = <<>>
        /\ UNCHANGED <<op, mined, ledger>>

Reset ==
    /\ op = NoOp
    /\ mined + 1 \in Blocks
    /\ \E stuck \in SUBSET Listed(store) : store' = Cleared(store, stuck)
    /\ mined' = mined + 1
    /\ chain' = {mined + 1}
    /\ recorded' = <<>>
    /\ UNCHANGED <<op, ledger>>

Init ==
    /\ InitStates
    /\ mined = 1
    /\ chain = {1}
    /\ recorded = <<>>
    /\ ledger = <<>>

Next ==
    \/ \E s \in States : Mine(s)
    \/ Enforce
    \/ SetFastBlocks
    \/ \E b \in chain : Unwind(b)
    \/ Reset

Spec == Init /\ [][Next]_vars

----------------------------------------------------------------------------
(* Properties *)

\* A partial function from blocks to S.
MapsTo(f, S) == DOMAIN f \subseteq Blocks /\ \A b \in DOMAIN f : f[b] \in S

(* The shape of the state; in_memory_limit never falls below its minimum,  *)
(* so that enforce_limits leaves room for the block to be recorded.        *)
TypeOK ==
    /\ MapsTo(store.states, States)
    /\ MapsTo(store.onDisk, States \cup {None})
    /\ MapsTo(store.files, States \cup {Partial}) /\ store.failed \subseteq Blocks
    /\ store.present \in Seq(Blocks)
    /\ store.oldest \in Seq(Blocks)
    /\ store.limit \in Nat /\ store.limit >= MinLimit
    /\ op.phase \in {"none", "memory", "disk"}
    /\ op.block \in Blocks \cup {None}
    /\ chain \subseteq 1..mined /\ chain # {} /\ mined \in Blocks

(* The store keeps the promise of HistoricStates: whatever tier a state is *)
(* in, a lookup gives the one recorded last for the block, never an older  *)
(* version that was still on disk when its block became the head again;    *)
(* the oldest goes first, and a failed write loses nothing else.           *)
History == INSTANCE HistoricStates
    WITH kept <- [b \in Available(store) |-> Lookup(store, b)]

KeepsHistory == History!Spec

(* A listed state can be read back: its file is complete, unless it was    *)
(* truncated by a failed write of a newer version, which is then still in  *)
(* memory.  And enforce_limits, remove_block_states and clear leave no     *)
(* other file behind than those of a write or a deletion that failed, so   *)
(* that max_on_disk_limit bounds anvil's temporary directory as long as    *)
(* none does.                                                              *)
FilesTracked ==
    /\ \A b \in Listed(store) :
          /\ b \in DOMAIN store.files
          /\ store.files[b] = Partial => b \in DOMAIN store.states
    /\ DOMAIN store.files \subseteq Listed(store) \cup store.failed

Capacity == IF MemoryOnly THEN MemoryLimit ELSE MinLimit + DiskLimit - 1

(* enforce_limits drops no state early: since the last time the chain was  *)
(* unwound, the states of the Capacity blocks recorded last are there,     *)
(* however often the limit was raised, shrunk or overrun by failed writes. *)
RecentKept ==
    op = NoOp =>
        \A i \in 1..Len(recorded) :
            Len(recorded) - i < Capacity => recorded[i] \in Available(store)
=============================================================================
