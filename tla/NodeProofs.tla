----------------------------- MODULE NodeProofs -----------------------------
(***************************************************************************)
(* Proofs about the tasks of a node: the locks of the requests             *)
(* (Lifecycle), for any finite set of clients and any number of resets and *)
(* snapshots, and block production (NodeService), for any set of           *)
(* transactions, any limits and any number of mode switches and pauses.    *)
(* The two modules have no name in common; each theorem is about one.      *)
(***************************************************************************)
EXTENDS NodeService, Lifecycle, FiniteSetTheorems, SequenceTheorems,
        WellFoundedInduction, TLAPS

(***************************************************************************)
(* The locks of the requests (Lifecycle).                                  *)
(***************************************************************************)

Kinds == DOMAIN Program
LockModes == {"read", "write"}

\* The lock that instruction k took is still held at pc.
Kept(kind, k, pc) ==
    /\ k \in 1..(pc - 1)
    /\ Program[kind][k].op = "lock" /\ Program[kind][k].keep
    /\ \A j \in (k + 1)..(pc - 1) :
          ~(/\ Program[kind][j].op = "unlock"
            /\ Program[kind][j].arg = Program[kind][k].arg)

KeptBy(r, k) == Kept(requests[r].kind, k, requests[r].pc)
EntryAt(r, k) ==
    [who |-> r, pc |-> k, mode |-> Program[requests[r].kind][k].mode]

IsRunning(r) == requests[r].kind # "idle"

\* The order in which every request takes its locks.
Rank == [reset |-> 1, lifecycle |-> 2, nonce |-> 3, mining |-> 4,
         config |-> 5, db |-> 6]

Entries == [who : Requests, pc : Nat, mode : LockModes]
RequestStates == [kind : Kinds \cup {"idle"}, pc : Nat, seen : SUBSET Nat,
                  id : Nat, copy : Nat]

QueuesType == queues \in [Locks -> Seq(Entries)]
RequestsType == requests \in [Requests -> RequestStates]
NodeType == node \in [Parts -> Nat]
SnapshotsType == next \in Nat /\ states \subseteq Nat

\* A task is idle, or at an instruction of one of its programs.
RunInv ==
    \A r \in Requests :
        IF IsRunning(r)
        THEN /\ requests[r].kind \in KindsOf(r)
             /\ requests[r].pc \in 1..Len(Program[requests[r].kind])
        ELSE requests[r] = Idle

\* An entry in the queue of a lock is that of a request that took the lock
\* and keeps it, or that is at the instruction that takes it.
Rightful(l, e) ==
    LET req == requests[e.who] IN
    /\ req.kind # "idle"
    /\ e.pc \in 1..req.pc
    /\ Program[req.kind][e.pc].op = "lock"
    /\ Program[req.kind][e.pc].arg = l
    /\ Program[req.kind][e.pc].mode = e.mode
    /\ e.pc = req.pc \/ Kept(req.kind, e.pc, req.pc)

QueueInv == \A l \in Locks : \A i \in 1..Len(queues[l]) : Rightful(l, queues[l][i])

\* A lock that a request keeps is its own: its entry holds it.
HoldInv ==
    \A r \in Requests : IsRunning(r) =>
        \A k \in 1..(requests[r].pc - 1) : KeptBy(r, k) =>
            Holding(queues[Program[requests[r].kind][k].arg], EntryAt(r, k))

----------------------------------------------------------------------------
(* What the holders of the mining mutex do to the node *)

\* How far a reset is with what it publishes: at 1 with the database, at 8
\* with the pools that it drops.
Base(kind) == IF kind = "fork_reset" THEN 11 ELSE 8
Stage(r) == requests[r].pc - Base(requests[r].kind)
Commits(r) == requests[r].kind \in Resets /\ Stage(r) \in 2..8

Ahead(p, stage) == IF stage > p THEN 0 ELSE 1
Uniform == \A p \in Parts : node[p] = node.db

\* Parts of the node of one incarnation, but for those a reset has not come to.
NodeInv ==
    /\ (\A r \in Requests : ~Commits(r)) => Uniform
    /\ \A r \in Requests : Commits(r) =>
          /\ node.db = node.chain + Ahead(2, Stage(r))
          /\ node.db = node.instance + Ahead(6, Stage(r))
          /\ node.db = node.pool + Ahead(7, Stage(r))

Unshielded == Resets \cup {"set_rpc_url"}
SeenInv ==
    \A r \in Requests : requests[r].seen # {} =>
        /\ requests[r].kind \in Kinds \ Unshielded /\ requests[r].pc > 1
        /\ requests[r].seen \subseteq {node.db}

Saves(r) == requests[r].kind = "snapshot" /\ requests[r].pc \in {6, 7}
Restores(r) == requests[r].kind = "revert" /\ requests[r].pc \in {6, 7}
Copied(r) == requests[r].kind = "snapshot" /\ requests[r].pc > 3
Busy(r) == Commits(r) \/ Saves(r) \/ Restores(r)

Bounded == DOMAIN pools \subseteq 1..next /\ states \subseteq 1..next
ThisPool == \A i \in DOMAIN pools : pools[i] = node.db

PairInv ==
    /\ (\A r \in Requests : ~Busy(r)) => DOMAIN pools = states
    /\ (\A r \in Requests : ~Commits(r)) => Bounded /\ ThisPool
    /\ \A r \in Requests :
          /\ Commits(r) => next = 0
          /\ Commits(r) /\ Stage(r) > 3 => states = {}
          /\ Saves(r) => /\ states = DOMAIN pools \cup {requests[r].id}
                         /\ requests[r].id = next
                         /\ next \notin DOMAIN pools
          /\ Restores(r) => /\ requests[r].id \in DOMAIN pools
                            /\ states = {i \in DOMAIN pools : i < requests[r].id}
          /\ Copied(r) => requests[r].copy = node.db

----------------------------------------------------------------------------
(* The programs, instruction by instruction *)

LEMMA ForkResetTable ==
    LET P == Program["fork_reset"] IN
    /\ Len(P) = 19
    /\ P[1] = Write("reset")             /\ P[2] = Glance("config")
    /\ P[3] = Touch("db")                /\ P[4] = Glance("config")
    /\ P[5] = Glance("lifecycle")        /\ P[6] = Do("may_fail")
    /\ P[7] = Write("lifecycle")         /\ P[8] = Write("mining")
    /\ P[9] = Write("config")            /\ P[10] = Write("db")
    /\ P[11] = Do("may_fail")            /\ P[12] = Publish("db")
    /\ P[13] = Publish("chain")          /\ P[14] = Do("drop_states")
    /\ P[15] = Unlock("db")              /\ P[16] = Unlock("config")
    /\ P[17] = Publish("instance")       /\ P[18] = Publish("pool")
    /\ P[19] = Do("drop_pools")
BY DEF Program, ForkResetProgram, PrepareForkReset, CommitReset, ClearPool

LEMMA MemoryResetTable ==
    LET P == Program["memory_reset"] IN
    /\ Len(P) = 16
    /\ P[1] = Write("reset")             /\ P[2] = Write("lifecycle")
    /\ P[3] = Write("mining")            /\ P[4] = Glance("config")
    /\ P[5] = Do("may_fail")             /\ P[6] = Write("config")
    /\ P[7] = Write("db")                /\ P[8] = Do("may_fail")
    /\ P[9] = Publish("db")              /\ P[10] = Publish("chain")
    /\ P[11] = Do("drop_states")         /\ P[12] = Unlock("db")
    /\ P[13] = Unlock("config")          /\ P[14] = Publish("instance")
    /\ P[15] = Publish("pool")           /\ P[16] = Do("drop_pools")
BY DEF Program, MemoryResetProgram, CommitReset, ClearPool

LEMMA SetRpcUrlTable ==
    LET P == Program["set_rpc_url"] IN
    /\ Len(P) = 7
    /\ P[1] = Write("reset")             /\ P[2] = Glance("config")
    /\ P[3] = Glance("lifecycle")        /\ P[4] = Do("may_fail")
    /\ P[5] = Write("lifecycle")         /\ P[6] = Write("mining")
    /\ P[7] = Write("config")
BY DEF Program, SetRpcUrlProgram

LEMMA RewindTable ==
    LET P == Program["rewind"] IN
    /\ Len(P) = 6
    /\ P[1] = Write("lifecycle")         /\ P[2] = Write("mining")
    /\ P[3] = See("chain")               /\ P[4] = Do("may_fail")
    /\ P[5] = Write("db")                /\ P[6] = See("db")
BY DEF Program, RewindProgram

LEMMA SnapshotTable ==
    LET P == Program["snapshot"] IN
    /\ Len(P) = 7
    /\ P[1] = Read("lifecycle")          /\ P[2] = Write("mining")
    /\ P[3] = Do("copy_pool")            /\ P[4] = Write("db")
    /\ P[5] = Do("save_state")           /\ P[6] = Unlock("db")
    /\ P[7] = Do("save_pool")
BY DEF Program, SnapshotProgram

LEMMA RevertTable ==
    LET P == Program["revert"] IN
    /\ Len(P) = 7
    /\ P[1] = Read("lifecycle")          /\ P[2] = Write("mining")
    /\ P[3] = Do("may_fail")             /\ P[4] = Write("db")
    /\ P[5] = Do("revert_state")         /\ P[6] = Unlock("db")
    /\ P[7] = Do("restore_pool")
BY DEF Program, RevertProgram

LEMMA ReadTable ==
    LET P == Program["read"] IN
    /\ Len(P) = 4
    /\ P[1] = Read("lifecycle")          /\ P[2] = See("chain")
    /\ P[3] = Read("db")                 /\ P[4] = See("db")
BY DEF Program, ReadProgram

LEMMA MetadataTable ==
    LET P == Program["metadata"] IN
    /\ Len(P) = 3
    /\ P[1] = Read("lifecycle")          /\ P[2] = See("chain")
    /\ P[3] = See("instance")
BY DEF Program, MetadataProgram

LEMMA SendTable ==
    LET P == Program["send"] IN
    /\ Len(P) = 9
    /\ P[1] = Read("lifecycle")          /\ P[2] = Write("nonce")
    /\ P[3] = Read("db")                 /\ P[4] = See("db")
    /\ P[5] = Unlock("db")               /\ P[6] = Write("mining")
    /\ P[7] = Glance("db")               /\ P[8] = Do("may_fail")
    /\ P[9] = See("pool")
BY DEF Program, SendProgram

LEMMA SendSyncTable ==
    LET P == Program["send_sync"] IN
    /\ Len(P) = 6
    /\ P[1] = Read("lifecycle")          /\ P[2] = Write("mining")
    /\ P[3] = Glance("db")               /\ P[4] = Do("may_fail")
    /\ P[5] = Unlock("mining")           /\ P[6] = Do("await_inclusion")
BY DEF Program, SendSyncProgram

LEMMA MineTable ==
    LET P == Program["mine"] IN
    /\ Len(P) = 5
    /\ P[1] = Read("lifecycle")          /\ P[2] = Write("mining")
    /\ P[3] = See("chain")               /\ P[4] = Write("db")
    /\ P[5] = See("db")
BY DEF Program, MineProgram, ProduceProgram

LEMMA ProduceTable ==
    LET P == Program["produce"] IN
    /\ Len(P) = 4
    /\ P[1] = Write("mining")            /\ P[2] = See("chain")
    /\ P[3] = Write("db")                /\ P[4] = See("db")
BY DEF Program, ProduceProgram

(* What every program has in common: its instructions are well formed, *)
WellFormed(P) ==
    /\ Len(P) \in Nat \ {0}
    /\ \A i \in 1..Len(P) :
          /\ P[i].op \in {"lock", "unlock", "see", "publish", "do"}
          /\ P[i].op = "lock" => P[i].arg \in Locks /\ P[i].mode \in LockModes
          /\ P[i].op = "unlock" => P[i].arg \in Locks
          /\ P[i].op \in {"see", "publish"} => P[i].arg \in Parts

(* it takes a lock only above all those that it keeps, *)
Ordered(kind) ==
    LET P == Program[kind] IN
    \A pc \in 1..Len(P) : \A k \in 1..(pc - 1) :
        Kept(kind, k, pc) /\ P[pc].op = "lock" => Rank[P[k].arg] < Rank[P[pc].arg]

(* and it looks at the node only under the lifecycle lock or the mining
   mutex, which it took first and keeps to the end.                        *)
Shielded(kind) ==
    LET P == Program[kind] IN
    \A pc \in 1..Len(P) :
        /\ P[pc].op = "see" => kind \notin Unshielded /\ pc > 1
        /\ kind \notin Unshielded /\ pc > 1 =>
              Kept(kind, 1, pc) /\ P[1].arg \in {"lifecycle", "mining"}

Sound(kind) == WellFormed(Program[kind]) /\ Ordered(kind) /\ Shielded(kind)

LEMMA ForkResetSound == Sound("fork_reset")
<1>1. WellFormed(Program["fork_reset"])
  BY ForkResetTable
     DEF WellFormed, Locks, LockModes, Parts,
         Lock, Write, Glance, Touch, Do, Publish, Unlock
<1>2. Ordered("fork_reset")
  <2> DEFINE P == Program["fork_reset"]
  <2>1. /\ P[1].arg = "reset" /\ P[7].arg = "lifecycle" /\ P[8].arg = "mining"
        /\ P[9].arg = "config" /\ P[10].arg = "db"
    BY ForkResetTable DEF Lock, Write, Glance, Touch, Do, Publish, Unlock
  <2>2. \A k \in 1..19 : P[k].op = "lock" /\ P[k].keep => k \in {1, 7, 8, 9, 10}
    BY ForkResetTable DEF Lock, Write, Glance, Touch, Do, Publish, Unlock
  <2>3. \A k \in 1..19 : P[k].op = "lock" =>
           \/ k \in {1, 7, 8, 9, 10}
           \/ k \in 2..5 /\ P[k].arg \in {"config", "db", "lifecycle"}
    BY ForkResetTable DEF Lock, Write, Glance, Touch, Do, Publish, Unlock
  <2>4. Len(P) = 19
    BY ForkResetTable
  <2> HIDE DEF P
  <2> SUFFICES ASSUME NEW pc \in 1..19, NEW k \in 1..(pc - 1),
                      Kept("fork_reset", k, pc), P[pc].op = "lock"
               PROVE  Rank[P[k].arg] < Rank[P[pc].arg]
    BY <2>4 DEF Ordered, P
  <2>5. k \in {1, 7, 8, 9, 10}
    BY <2>2 DEF Kept, P
  <2> QED
    BY <2>1, <2>3, <2>5 DEF Rank
<1>3. Shielded("fork_reset")
  BY ForkResetTable
     DEF Shielded, Unshielded, Resets, Lock, Write, Glance, Touch, Do, Publish, Unlock
<1> QED
  BY <1>1, <1>2, <1>3 DEF Sound

LEMMA MemoryResetSound == Sound("memory_reset")
<1>1. WellFormed(Program["memory_reset"])
  BY MemoryResetTable
     DEF WellFormed, Locks, LockModes, Parts, Lock, Write, Glance, Do, Publish, Unlock
<1>2. Ordered("memory_reset")
  BY MemoryResetTable
     DEF Ordered, Kept, Rank, Lock, Write, Glance, Do, Publish, Unlock
<1>3. Shielded("memory_reset")
  BY MemoryResetTable
     DEF Shielded, Kept, Unshielded, Resets, Lock, Write, Glance, Do, Publish, Unlock
<1> QED
  BY <1>1, <1>2, <1>3 DEF Sound

LEMMA SetRpcUrlSound == Sound("set_rpc_url")
<1>1. WellFormed(Program["set_rpc_url"])
  BY SetRpcUrlTable
     DEF WellFormed, Locks, LockModes, Parts, Lock, Write, Glance, Do
<1>2. Ordered("set_rpc_url")
  BY SetRpcUrlTable DEF Ordered, Kept, Rank, Lock, Write, Glance, Do
<1>3. Shielded("set_rpc_url")
  BY SetRpcUrlTable
     DEF Shielded, Kept, Unshielded, Resets, Lock, Write, Glance, Do
<1> QED
  BY <1>1, <1>2, <1>3 DEF Sound

LEMMA RewindSound == Sound("rewind")
<1>1. WellFormed(Program["rewind"])
  BY RewindTable
     DEF WellFormed, Locks, LockModes, Parts, Lock, Write, See, Do
<1>2. Ordered("rewind")
  BY RewindTable DEF Ordered, Kept, Rank, Lock, Write, See, Do
<1>3. Shielded("rewind")
  BY RewindTable
     DEF Shielded, Kept, Unshielded, Resets, Lock, Write, See, Do
<1> QED
  BY <1>1, <1>2, <1>3 DEF Sound

LEMMA SnapshotSound == Sound("snapshot")
<1>1. WellFormed(Program["snapshot"])
  BY SnapshotTable
     DEF WellFormed, Locks, LockModes, Parts, Lock, Read, Write, Do, Unlock
<1>2. Ordered("snapshot")
  BY SnapshotTable DEF Ordered, Kept, Rank, Lock, Read, Write, Do, Unlock
<1>3. Shielded("snapshot")
  BY SnapshotTable
     DEF Shielded, Kept, Unshielded, Resets, Lock, Read, Write, Do, Unlock
<1> QED
  BY <1>1, <1>2, <1>3 DEF Sound

LEMMA RevertSound == Sound("revert")
<1>1. WellFormed(Program["revert"])
  BY RevertTable
     DEF WellFormed, Locks, LockModes, Parts, Lock, Read, Write, Do, Unlock
<1>2. Ordered("revert")
  BY RevertTable DEF Ordered, Kept, Rank, Lock, Read, Write, Do, Unlock
<1>3. Shielded("revert")
  BY RevertTable
     DEF Shielded, Kept, Unshielded, Resets, Lock, Read, Write, Do, Unlock
<1> QED
  BY <1>1, <1>2, <1>3 DEF Sound

LEMMA ReadSound == Sound("read")
<1>1. WellFormed(Program["read"])
  BY ReadTable
     DEF WellFormed, Locks, LockModes, Parts, Lock, Read, See
<1>2. Ordered("read")
  BY ReadTable DEF Ordered, Kept, Rank, Lock, Read, See
<1>3. Shielded("read")
  BY ReadTable
     DEF Shielded, Kept, Unshielded, Resets, Lock, Read, See
<1> QED
  BY <1>1, <1>2, <1>3 DEF Sound

LEMMA MetadataSound == Sound("metadata")
<1>1. WellFormed(Program["metadata"])
  BY MetadataTable
     DEF WellFormed, Locks, LockModes, Parts, Lock, Read, See
<1>2. Ordered("metadata")
  BY MetadataTable DEF Ordered, Kept, Rank, Lock, Read, See
<1>3. Shielded("metadata")
  BY MetadataTable
     DEF Shielded, Kept, Unshielded, Resets, Lock, Read, See
<1> QED
  BY <1>1, <1>2, <1>3 DEF Sound

LEMMA SendSound == Sound("send")
<1>1. WellFormed(Program["send"])
  BY SendTable
     DEF WellFormed, Locks, LockModes, Parts,
         Lock, Read, Write, See, Unlock, Glance, Do
<1>2. Ordered("send")
  BY SendTable DEF Ordered, Kept, Rank, Lock, Read, Write, See, Unlock, Glance, Do
<1>3. Shielded("send")
  BY SendTable
     DEF Shielded, Kept, Unshielded, Resets,
         Lock, Read, Write, See, Unlock, Glance, Do
<1> QED
  BY <1>1, <1>2, <1>3 DEF Sound

LEMMA SendSyncSound == Sound("send_sync")
<1>1. WellFormed(Program["send_sync"])
  BY SendSyncTable
     DEF WellFormed, Locks, LockModes, Parts, Lock, Read, Write, Glance, Do, Unlock
<1>2. Ordered("send_sync")
  BY SendSyncTable DEF Ordered, Kept, Rank, Lock, Read, Write, Glance, Do, Unlock
<1>3. Shielded("send_sync")
  BY SendSyncTable
     DEF Shielded, Kept, Unshielded, Resets, Lock, Read, Write, Glance, Do, Unlock
<1> QED
  BY <1>1, <1>2, <1>3 DEF Sound

LEMMA MineSound == Sound("mine")
<1>1. WellFormed(Program["mine"])
  BY MineTable
     DEF WellFormed, Locks, LockModes, Parts, Lock, Read, Write, See
<1>2. Ordered("mine")
  BY MineTable DEF Ordered, Kept, Rank, Lock, Read, Write, See
<1>3. Shielded("mine")
  BY MineTable
     DEF Shielded, Kept, Unshielded, Resets, Lock, Read, Write, See
<1> QED
  BY <1>1, <1>2, <1>3 DEF Sound

LEMMA ProduceSound == Sound("produce")
<1>1. WellFormed(Program["produce"])
  BY ProduceTable
     DEF WellFormed, Locks, LockModes, Parts, Lock, Write, See
<1>2. Ordered("produce")
  BY ProduceTable DEF Ordered, Kept, Rank, Lock, Write, See
<1>3. Shielded("produce")
  BY ProduceTable
     DEF Shielded, Kept, Unshielded, Resets, Lock, Write, See
<1> QED
  BY <1>1, <1>2, <1>3 DEF Sound

LEMMA KindsAre ==
    Kinds = {"fork_reset", "memory_reset", "set_rpc_url", "rewind",
             "snapshot", "revert", "read", "metadata",
             "send", "send_sync", "mine", "produce"}
BY DEF Kinds, Program

LEMMA AllSound == \A kind \in Kinds : Sound(kind)
BY KindsAre, ForkResetSound, MemoryResetSound, SetRpcUrlSound, RewindSound,
   SnapshotSound, RevertSound, ReadSound, MetadataSound, SendSound,
   SendSyncSound, MineSound, ProduceSound

----------------------------------------------------------------------------
(* The queue of a lock when a request leaves it *)

LEMMA LeastIn ==
    ASSUME NEW S, S \subseteq Nat, S # {}
    PROVE  \E x \in S : \A y \in S : x <= y
<1> DEFINE R == {ss \in Nat \X Nat : ss[1] < ss[2]}
<1>1. IsWellFoundedOn(R, Nat)
  BY NatLessThanWellFounded DEF OpToRel
<1>2. \E x \in S : \A y \in S : <<y, x>> \notin R
  <2> HIDE DEF R
  <2> QED
    BY <1>1, WFMin
<1>3. PICK x \in S : \A y \in S : <<y, x>> \notin R
  BY <1>2
<1>4. ASSUME NEW y \in S PROVE x <= y
  <2>1. x \in Nat /\ y \in Nat /\ <<y, x>> \notin R
    BY <1>3
  <2>2. ~(y < x)
    BY <2>1
  <2> QED
    BY <2>1, <2>2
<1> QED
  BY <1>4

LEMMA UpTo ==
    ASSUME NEW N \in Nat, NEW G, 0 \in G, \A n \in 1..N : n - 1 \in G => n \in G
    PROVE  \A n \in 0..N : n \in G
<1> DEFINE Bad == {n \in 0..N : n \notin G}
<1> SUFFICES ASSUME Bad # {} PROVE FALSE
  OBVIOUS
<1>1. Bad \subseteq Nat
  OBVIOUS
<1>2. \E n \in Bad : \A m \in Bad : n <= m
  <2> HIDE DEF Bad
  <2> QED
    BY <1>1, LeastIn
<1>3. PICK n \in Bad : \A m \in Bad : n <= m
  BY <1>2
<1>4. n \in 1..N /\ n - 1 \in 0..N
  OBVIOUS
<1>5. n - 1 \notin Bad
  BY <1>3, <1>4
<1> QED
  BY <1>4, <1>5

\* The recursion of Without, over the first n entries.
WithoutStep(s, r, f, i) ==
    IF s[i].who = r THEN f[i-1] ELSE Append(f[i-1], s[i])
Filters(s, r, f, n) ==
    /\ f \in [0..n -> Seq(Entries)]
    /\ f[0] = <<>> /\ \A i \in 1..n : f[i] = WithoutStep(s, r, f, i)

LEMMA EmptyQueue == <<>> \in Seq(Entries) /\ Len(<<>>) = 0
OBVIOUS

LEMMA WithoutComputed ==
    ASSUME NEW s \in Seq(Entries), NEW r
    PROVE  \E f : Filters(s, r, f, Len(s)) /\ Without(s, r) = f[Len(s)]
<1> DEFINE N == Len(s)
           G == {n \in 0..N : \E f : Filters(s, r, f, n)}
<1>0. N \in Nat /\ \A i \in 1..N : s[i] \in Entries
  OBVIOUS
<1>1. 0 \in G
  <2> DEFINE f == [i \in 0..0 |-> <<>>]
  <2>1. Filters(s, r, f, 0)
    BY EmptyQueue DEF Filters
  <2> QED
    BY <1>0, <2>1
<1>2. ASSUME NEW n \in 1..N, n - 1 \in G PROVE n \in G
  <2>1. PICK f : Filters(s, r, f, n - 1)
    BY <1>2
  <2> DEFINE g == [i \in 0..n |-> IF i = n THEN WithoutStep(s, r, f, n) ELSE f[i]]
  <2>2. n \in Nat /\ n - 1 \in 0..n-1 /\ s[n] \in Entries
    BY <1>0
  <2>3. f[n-1] \in Seq(Entries)
    BY <2>1, <2>2 DEF Filters
  <2>4. WithoutStep(s, r, f, n) \in Seq(Entries)
    BY <2>2, <2>3 DEF WithoutStep
  <2>5. \A i \in 0..n-1 : g[i] = f[i] /\ f[i] \in Seq(Entries)
    BY <2>1, <2>2 DEF Filters
  <2>6. g \in [0..n -> Seq(Entries)]
    BY <2>1, <2>2, <2>4 DEF Filters
  <2>7. ASSUME NEW i \in 1..n PROVE g[i] = WithoutStep(s, r, g, i)
    <3>1. g[i-1] = f[i-1]
      BY <2>2, <2>5
    <3>2. WithoutStep(s, r, g, i) = WithoutStep(s, r, f, i)
      BY <3>1 DEF WithoutStep
    <3>3. g[i] = WithoutStep(s, r, f, i)
      BY <2>1, <2>2 DEF Filters
    <3> QED
      BY <3>2, <3>3
  <2>8. g[0] = <<>>
    BY <2>1, <2>2 DEF Filters
  <2>9. Filters(s, r, g, n)
    <3> HIDE DEF g
    <3> QED
      BY <2>6, <2>7, <2>8 DEF Filters
  <2> QED
    BY <2>9
<1>3. N \in G
  <2> HIDE DEF G
  <2>1. \A n \in 0..N : n \in G
    BY <1>0, <1>1, <1>2, UpTo
  <2> QED
    BY <1>0, <2>1
<1>4. PICK f : Filters(s, r, f, N)
  BY <1>3
<1> DEFINE Fixpoint(h) ==
             h = [i \in 0..N |-> IF i = 0 THEN <<>>
                                 ELSE IF s[i].who = r THEN h[i-1]
                                 ELSE Append(h[i-1], s[i])]
           upTo == CHOOSE h : Fixpoint(h)
<1>5. Fixpoint(f)
  <2>1. f = [i \in 0..N |-> f[i]]
    BY <1>4 DEF Filters
  <2>2. \A i \in 0..N : i = 0 \/ i \in 1..N
    BY <1>0
  <2>3. ASSUME NEW i \in 0..N
        PROVE  f[i] = IF i = 0 THEN <<>>
                      ELSE IF s[i].who = r THEN f[i-1] ELSE Append(f[i-1], s[i])
    BY <1>4, <2>2 DEF Filters, WithoutStep
  <2> HIDE DEF N
  <2> QED
    BY <2>1, <2>3, Zenon
<1>6. Fixpoint(upTo)
  BY <1>5
<1>7. Without(s, r) = upTo[N]
  BY DEF Without
<1> HIDE DEF upTo
<1>8. upTo[0] = <<>> /\ \A i \in 1..N : upTo[i] = WithoutStep(s, r, upTo, i)
  <2>1. \A i \in 0..N : upTo[i] = IF i = 0 THEN <<>>
                 ELSE IF s[i].who = r THEN upTo[i-1] ELSE Append(upTo[i-1], s[i])
    BY <1>6, Zenon
  <2>2. 0 \in 0..N /\ \A i \in 1..N : i \in 0..N /\ i # 0
    BY <1>0
  <2> HIDE DEF N
  <2> QED
    BY <2>1, <2>2 DEF WithoutStep
<1>9. \A n \in 0..N : upTo[n] = f[n]
  <2> DEFINE E == {n \in 0..N : upTo[n] = f[n]}
  <2>1. 0 \in E
    BY <1>0, <1>4, <1>8 DEF Filters
  <2>2. ASSUME NEW n \in 1..N, n - 1 \in E PROVE n \in E
    <3>1. upTo[n-1] = f[n-1]
      BY <2>2
    <3>2. WithoutStep(s, r, upTo, n) = WithoutStep(s, r, f, n)
      BY <3>1 DEF WithoutStep
    <3> QED
      BY <1>0, <1>4, <1>8, <3>2 DEF Filters
  <2>3. \A n \in 0..N : n \in E
    <3> HIDE DEF E
    <3> QED
      BY <1>0, <2>1, <2>2, UpTo
  <2> QED
    BY <2>3
<1> QED
  BY <1>0, <1>4, <1>7, <1>9


\* What Without does with the first n entries of a queue: it leaves out those
\* of r, and nothing comes before an entry that did not before.
Sifted(s, r, w, n) ==
    /\ Len(w) <= n
    /\ \A i \in 1..Len(w) : w[i].who # r /\ \E j \in 1..n : w[i] = s[j]
    /\ \A j \in 1..n : s[j].who # r =>
          \E i \in 1..Len(w) :
              /\ i <= j /\ w[i] = s[j]
              /\ \A m \in 1..i : \E k \in 1..j : w[m] = s[k]

LEMMA SiftedSame ==
    ASSUME NEW s, NEW r, NEW w \in Seq(Entries), NEW n \in Nat \ {0},
           Sifted(s, r, w, n - 1), s[n].who = r
    PROVE  Sifted(s, r, w, n)
<1>1. \A j \in 1..n : j = n \/ j \in 1..(n - 1)
  OBVIOUS
<1>2. 1..(n - 1) \subseteq 1..n
  OBVIOUS
<1> QED
  BY <1>1, <1>2 DEF Sifted

LEMMA SiftedMore ==
    ASSUME NEW s, NEW r, NEW v \in Seq(Entries), NEW n \in Nat \ {0},
           Sifted(s, r, v, n - 1), s[n] \in Entries, s[n].who # r
    PROVE  Sifted(s, r, Append(v, s[n]), n)
<1>0. PICK w \in Seq(Entries) : w = Append(v, s[n])
  <2>1. PICK x \in Entries : x = s[n]
    OBVIOUS
  <2>2. Append(v, x) \in Seq(Entries)
    OBVIOUS
  <2> QED
    BY <2>1, <2>2, Zenon
<1>1. /\ Len(v) \in Nat /\ Len(w) = Len(v) + 1 /\ w[Len(w)] = s[n]
      /\ \A i \in 1..Len(v) : w[i] = v[i]
  BY <1>0
<1>2. Len(w) <= n
  BY <1>1 DEF Sifted
<1>3. ASSUME NEW i \in 1..Len(w)
      PROVE  w[i].who # r /\ \E j \in 1..n : w[i] = s[j]
  <2>1. CASE i \in 1..Len(v)
    BY <1>1, <2>1 DEF Sifted
  <2>2. CASE i = Len(w)
    BY <1>1, <2>2
  <2> QED
    BY <1>1, <2>1, <2>2
<1>4. ASSUME NEW j \in 1..n, s[j].who # r
      PROVE  \E i \in 1..Len(w) :
                /\ i <= j /\ w[i] = s[j]
                /\ \A m \in 1..i : \E k \in 1..j : w[m] = s[k]
  <2>1. CASE j \in 1..(n - 1)
    <3>1. PICK i \in 1..Len(v) :
                /\ i <= j /\ v[i] = s[j]
                /\ \A m \in 1..i : \E k \in 1..j : v[m] = s[k]
      BY <1>4, <2>1 DEF Sifted
    <3>2. i \in 1..Len(w) /\ w[i] = s[j] /\ \A m \in 1..i : w[m] = v[m]
      BY <1>1, <3>1
    <3> QED
      BY <3>1, <3>2
  <2>2. CASE j = n
    <3>1. Len(w) \in 1..Len(w) /\ w[Len(w)] = s[j] /\ Len(w) <= j
      BY <1>1, <1>2, <2>2
    <3> QED
      BY <1>3, <2>2, <3>1
  <2> QED
    BY <2>1, <2>2
<1>5. Sifted(s, r, w, n)
  BY <1>2, <1>3, <1>4 DEF Sifted
<1> QED
  BY <1>0, <1>5, Zenon

LEMMA WithoutSifts ==
    ASSUME NEW s \in Seq(Entries), NEW r
    PROVE  Without(s, r) \in Seq(Entries) /\ Sifted(s, r, Without(s, r), Len(s))
<1> DEFINE N == Len(s)
<1>0. N \in Nat /\ \A i \in 1..N : s[i] \in Entries
  OBVIOUS
<1>1. PICK f : Filters(s, r, f, N) /\ Without(s, r) = f[N]
  BY WithoutComputed
<1> DEFINE G == {n \in 0..N : Sifted(s, r, f[n], n)}
<1>2. 0 \in G
  <2>1. f[0] = <<>> /\ Len(f[0]) = 0
    BY <1>0, <1>1, EmptyQueue DEF Filters
  <2> QED
    BY <1>0, <2>1 DEF Sifted
<1>3. ASSUME NEW n \in 1..N, n - 1 \in G PROVE n \in G
  <2>0. n \in Nat \ {0} /\ n - 1 \in 0..N /\ s[n] \in Entries
    BY <1>0
  <2>1. f[n-1] \in Seq(Entries) /\ f[n] = WithoutStep(s, r, f, n)
    BY <1>1, <2>0 DEF Filters
  <2>2. Sifted(s, r, f[n-1], n - 1)
    BY <1>3
  <2>3. Sifted(s, r, f[n], n)
    <3>1. CASE s[n].who = r
      BY <2>0, <2>1, <2>2, <3>1, SiftedSame DEF WithoutStep
    <3>2. CASE s[n].who # r
      BY <2>0, <2>1, <2>2, <3>2, SiftedMore DEF WithoutStep
    <3> QED
      BY <3>1, <3>2
  <2> QED
    BY <2>3
<1>4. N \in G
  <2> HIDE DEF G
  <2>1. \A n \in 0..N : n \in G
    BY <1>0, <1>2, <1>3, UpTo
  <2> QED
    BY <1>0, <2>1
<1>5. f[N] \in Seq(Entries)
  BY <1>0, <1>1 DEF Filters
<1> QED
  BY <1>1, <1>4, <1>5

\* When r drops its guards, the others hold and wait as before: only the
\* entries of r go, and who held the lock still holds it.
LEMMA WithoutFacts ==
    ASSUME NEW s \in Seq(Entries), NEW r
    PROVE  /\ Without(s, r) \in Seq(Entries)
           /\ \A i \in 1..Len(Without(s, r)) :
                 /\ Without(s, r)[i].who # r
                 /\ \E j \in 1..Len(s) : Without(s, r)[i] = s[j]
           /\ \A e : Holding(s, e) /\ e.who # r => Holding(Without(s, r), e)
<1>1. PICK w \in Seq(Entries) : w = Without(s, r) /\ Sifted(s, r, w, Len(s))
  BY WithoutSifts
<1>2. ASSUME NEW e, Holding(s, e), e.who # r PROVE Holding(w, e)
  <2>1. PICK j \in 1..Len(s) : s[j] = e /\ (j = 1 \/ \A m \in 1..j : s[m].mode = "read")
    BY <1>2 DEF Holding
  <2>2. PICK i \in 1..Len(w) : /\ i <= j /\ w[i] = s[j]
                               /\ \A m \in 1..i : \E k \in 1..j : w[m] = s[k]
    BY <1>1, <1>2, <2>1 DEF Sifted
  <2>3. CASE j = 1
    BY <2>1, <2>2, <2>3 DEF Holding
  <2>4. CASE \A m \in 1..j : s[m].mode = "read"
    BY <2>1, <2>2, <2>4 DEF Holding
  <2> QED
    BY <2>1, <2>3, <2>4
<1>3. \A i \in 1..Len(w) : w[i].who # r /\ \E j \in 1..Len(s) : w[i] = s[j]
  BY <1>1 DEF Sifted
<1> QED
  BY <1>1, <1>2, <1>3

----------------------------------------------------------------------------
(* Locks kept from one instruction to the next *)

LEMMA KeptNext ==
    ASSUME NEW kind, NEW pc \in Nat, NEW k \in 1..pc
    PROVE  LET P == Program[kind] IN
           Kept(kind, k, pc + 1) <=>
              \/ k = pc /\ P[pc].op = "lock" /\ P[pc].keep
              \/ /\ Kept(kind, k, pc)
                 /\ ~(P[pc].op = "unlock" /\ P[pc].arg = P[k].arg)
<1> DEFINE P == Program[kind]
<1>1. CASE k = pc
  <2>1. (k + 1)..(pc + 1 - 1) = {} /\ k \in 1..(pc + 1 - 1) /\ k \notin 1..(pc - 1)
    BY <1>1
  <2> HIDE DEF P
  <2> QED
    BY <1>1, <2>1 DEF Kept, P
<1>2. CASE k # pc
  <2>1. (k + 1)..(pc + 1 - 1) = ((k + 1)..(pc - 1)) \cup {pc}
    BY <1>2
  <2>2. k \in 1..(pc + 1 - 1) /\ k \in 1..(pc - 1)
    BY <1>2
  <2> HIDE DEF P
  <2> QED
    BY <1>2, <2>1, <2>2 DEF Kept, P
<1> QED
  BY <1>1, <1>2

LEMMA BehindFacts ==
    ASSUME NEW q \in Seq(Entries), NEW e \in Entries
    PROVE  /\ Behind(q, e) \in Seq(Entries)
           /\ \A i \in 1..Len(Behind(q, e)) :
                 Behind(q, e)[i] = e \/ \E j \in 1..Len(q) : Behind(q, e)[i] = q[j]
           /\ \A x : Holding(q, x) => Holding(Behind(q, e), x)
<1>1. CASE Queued(q, e)
  BY <1>1 DEF Behind
<1>2. CASE ~Queued(q, e)
  <2>0. Append(q, e) \in Seq(Entries)
    OBVIOUS
  <2>1. PICK w \in Seq(Entries) : w = Append(q, e)
    BY <2>0, Zenon
  <2>2. /\ Len(q) \in Nat /\ Len(w) = Len(q) + 1 /\ w[Len(w)] = e
        /\ \A i \in 1..Len(q) : w[i] = q[i]
    BY <2>1
  <2>3. ASSUME NEW x, Holding(q, x) PROVE Holding(w, x)
    <3>1. PICK i \in 1..Len(q) :
              q[i] = x /\ (i = 1 \/ \A j \in 1..i : q[j].mode = "read")
      BY <2>3 DEF Holding
    <3>2. i \in 1..Len(w) /\ \A j \in 1..i : w[j] = q[j]
      BY <2>2
    <3> QED
      BY <2>2, <3>1, <3>2 DEF Holding
  <2>4. Behind(q, e) = w
    BY <1>2, <2>1 DEF Behind
  <2>5. \A i \in 1..Len(w) : w[i] = e \/ \E j \in 1..Len(q) : w[i] = q[j]
    BY <2>2
  <2> QED
    BY <2>3, <2>4, <2>5
<1> QED
  BY <1>1, <1>2

\* A request that runs is at an instruction of its program.
LEMMA RunFacts ==
    ASSUME RequestsType, RunInv, NEW r \in Requests, IsRunning(r)
    PROVE  /\ requests[r].kind \in Kinds /\ requests[r].kind \in KindsOf(r)
           /\ requests[r].pc \in Nat \ {0}
           /\ Len(Program[requests[r].kind]) \in Nat
           /\ requests[r].pc <= Len(Program[requests[r].kind])
           /\ Sound(requests[r].kind)
           /\ At(r, "lock") => Argument(r) \in Locks /\ Entry(r) \in Entries
           /\ At(r, "unlock") => Argument(r) \in Locks
           /\ Entry(r) = EntryAt(r, requests[r].pc)
           /\ At(r, "see") \/ At(r, "publish") => Argument(r) \in Parts
<1>1. requests[r].kind \in KindsOf(r) /\ KindsOf(r) \subseteq Kinds
  BY KindsAre DEF RunInv, KindsOf, Kinds
<1>2. requests[r].kind \in Kinds
  BY <1>1
<1>3. Sound(requests[r].kind)
  BY <1>2, AllSound
<1> DEFINE P == Program[requests[r].kind]
<1>4. Len(P) \in Nat /\ requests[r].pc \in 1..Len(P)
  BY <1>3 DEF RunInv, Sound, WellFormed
<1>5. /\ P[requests[r].pc].op = "lock" =>
            /\ P[requests[r].pc].arg \in Locks
            /\ P[requests[r].pc].mode \in LockModes
      /\ P[requests[r].pc].op = "unlock" => P[requests[r].pc].arg \in Locks
      /\ P[requests[r].pc].op \in {"see", "publish"} => P[requests[r].pc].arg \in Parts
  BY <1>3, <1>4 DEF Sound, WellFormed
<1>6. Entry(r) = EntryAt(r, requests[r].pc)
  BY DEF Entry, EntryAt, Instruction
<1>7. At(r, "lock") => Argument(r) \in Locks /\ Entry(r) \in Entries
  <2> HIDE DEF P
  <2> QED
    BY <1>4, <1>5 DEF At, Argument, Entry, Instruction, Entries, P
<1> QED
  BY <1>1, <1>2, <1>3, <1>4, <1>5, <1>6, <1>7 DEF At, Argument, Instruction

\* The queues after the instruction of a request that goes on.
NextQueues(r, q) ==
    \/ ~At(r, "lock") /\ ~At(r, "unlock") /\ q = queues
    \/ /\ At(r, "unlock")
       /\ q = [queues EXCEPT ![Argument(r)] = Without(queues[Argument(r)], r)]
    \/ /\ At(r, "lock") /\ ~Instruction(r).keep
       /\ q = [queues EXCEPT ![Argument(r)] =
                 Without(Behind(queues[Argument(r)], Entry(r)), r)]
    \/ /\ At(r, "lock") /\ Instruction(r).keep
       /\ Holding(Behind(queues[Argument(r)], Entry(r)), Entry(r))
       /\ q = [queues EXCEPT ![Argument(r)] = Behind(queues[Argument(r)], Entry(r))]

LocksInv == QueuesType /\ RequestsType /\ RunInv /\ QueueInv /\ HoldInv

\* Whatever r does, the others keep their places and their locks.
Undisturbed(r, q) ==
    /\ q \in [Locks -> Seq(Entries)]
    /\ \A l \in Locks : \A i \in 1..Len(q[l]) :
          q[l][i].who # r => \E j \in 1..Len(queues[l]) : q[l][i] = queues[l][j]
    /\ \A l \in Locks : \A e :
          Holding(queues[l], e) /\ e.who # r => Holding(q[l], e)

LEMMA SwapQueue ==
    ASSUME QueuesType, NEW r, NEW l \in Locks, NEW w \in Seq(Entries), NEW q,
           q = [queues EXCEPT ![l] = w],
           \A i \in 1..Len(w) :
               w[i].who # r => \E j \in 1..Len(queues[l]) : w[i] = queues[l][j],
           \A e : Holding(queues[l], e) /\ e.who # r => Holding(w, e)
    PROVE  Undisturbed(r, q)
<1>1. q \in [Locks -> Seq(Entries)] /\ q[l] = w
  BY DEF QueuesType
<1>2. \A m \in Locks : m # l => q[m] = queues[m]
  BY DEF QueuesType
<1>3. ASSUME NEW m \in Locks, NEW i \in 1..Len(q[m]), q[m][i].who # r
      PROVE  \E j \in 1..Len(queues[m]) : q[m][i] = queues[m][j]
  <2>1. CASE m = l
    BY <1>1, <1>3, <2>1
  <2>2. CASE m # l
    BY <1>2, <1>3, <2>2
  <2> QED
    BY <2>1, <2>2
<1>4. ASSUME NEW m \in Locks, NEW e, Holding(queues[m], e), e.who # r
      PROVE  Holding(q[m], e)
  <2>1. CASE m = l
    BY <1>1, <1>4, <2>1
  <2>2. CASE m # l
    BY <1>2, <1>4, <2>2
  <2> QED
    BY <2>1, <2>2
<1> QED
  BY <1>1, <1>3, <1>4 DEF Undisturbed

LEMMA NextUndisturbed ==
    ASSUME LocksInv, NEW r \in Requests, IsRunning(r), NEW q, NextQueues(r, q)
    PROVE  Undisturbed(r, q)
<1> USE DEF LocksInv
<1> DEFINE l == Argument(r)
           old == queues[l]
           new == Behind(old, Entry(r))
<1>0. /\ At(r, "lock") => l \in Locks /\ Entry(r) \in Entries
      /\ At(r, "unlock") => l \in Locks
  BY RunFacts
<1>1. CASE ~At(r, "lock") /\ ~At(r, "unlock") /\ q = queues
  BY <1>1 DEF Undisturbed, QueuesType
<1>2. ASSUME l \in Locks PROVE old \in Seq(Entries)
  BY <1>2 DEF QueuesType
<1>3. ASSUME At(r, "lock")
      PROVE  /\ new \in Seq(Entries)
             /\ \A i \in 1..Len(new) :
                   new[i] = Entry(r) \/ \E j \in 1..Len(old) : new[i] = old[j]
             /\ \A x : Holding(old, x) => Holding(new, x)
  <2>1. old \in Seq(Entries) /\ Entry(r) \in Entries
    BY <1>0, <1>2, <1>3
  <2> HIDE DEF old
  <2> QED
    BY <2>1, BehindFacts
<1>4. Entry(r).who = r
  BY DEF Entry
<1> HIDE DEF old, new, l
<1>5. CASE At(r, "unlock") /\ q = [queues EXCEPT ![l] = Without(old, r)]
  <2>1. l \in Locks /\ old \in Seq(Entries)
    BY <1>0, <1>2, <1>5
  <2>2. PICK w : w = Without(old, r)
    OBVIOUS
  <2>3. /\ w \in Seq(Entries)
        /\ \A i \in 1..Len(w) : w[i].who # r /\ \E j \in 1..Len(old) : w[i] = old[j]
        /\ \A e : Holding(old, e) /\ e.who # r => Holding(w, e)
    BY <2>1, <2>2, WithoutFacts
  <2>4. q = [queues EXCEPT ![l] = w]
    BY <1>5, <2>2
  <2>5. \A i \in 1..Len(w) :
           w[i].who # r => \E j \in 1..Len(old) : w[i] = old[j]
    BY <2>3
  <2> QED
    BY <2>1, <2>3, <2>4, <2>5, SwapQueue DEF old
<1>6. CASE At(r, "lock") /\ q = [queues EXCEPT ![l] = Without(new, r)]
  <2>1. l \in Locks /\ new \in Seq(Entries)
    BY <1>0, <1>3, <1>6
  <2>2. PICK w : w = Without(new, r)
    OBVIOUS
  <2>3. /\ w \in Seq(Entries)
        /\ \A i \in 1..Len(w) : w[i].who # r /\ \E j \in 1..Len(new) : w[i] = new[j]
        /\ \A e : Holding(new, e) /\ e.who # r => Holding(w, e)
    BY <2>1, <2>2, WithoutFacts
  <2>4. q = [queues EXCEPT ![l] = w]
    BY <1>6, <2>2
  <2>5. \A i \in 1..Len(w) :
           w[i].who # r => \E j \in 1..Len(old) : w[i] = old[j]
    BY <1>3, <1>4, <1>6, <2>3
  <2>6. \A e : Holding(old, e) /\ e.who # r => Holding(w, e)
    BY <1>3, <1>6, <2>3
  <2> QED
    BY <2>1, <2>3, <2>4, <2>5, <2>6, SwapQueue DEF old
<1>7. CASE At(r, "lock") /\ q = [queues EXCEPT ![l] = new]
  <2>1. l \in Locks /\ new \in Seq(Entries)
    BY <1>0, <1>3, <1>7
  <2>2. \A i \in 1..Len(new) :
           new[i].who # r => \E j \in 1..Len(old) : new[i] = old[j]
    BY <1>3, <1>4, <1>7
  <2>3. \A e : Holding(old, e) /\ e.who # r => Holding(new, e)
    BY <1>3, <1>7
  <2> QED
    BY <1>7, <2>1, <2>2, <2>3, SwapQueue DEF old
<1> QED
  BY <1>1, <1>5, <1>6, <1>7 DEF NextQueues, l, old, new

\* And r has, after its instruction, the locks that it keeps.
OwnEntries(r, q) ==
    LET kind == requests[r].kind
        pc == requests[r].pc
    IN  \A l \in Locks : \A i \in 1..Len(q[l]) : q[l][i].who = r =>
          /\ q[l][i].pc \in 1..pc
          /\ Program[kind][q[l][i].pc].op = "lock"
          /\ Program[kind][q[l][i].pc].arg = l
          /\ Program[kind][q[l][i].pc].mode = q[l][i].mode
          /\ Kept(kind, q[l][i].pc, pc + 1)
OwnLocks(r, q) ==
    LET kind == requests[r].kind
        pc == requests[r].pc
    IN  \A k \in 1..pc : Kept(kind, k, pc + 1) =>
            Holding(q[Program[kind][k].arg], EntryAt(r, k))

\* It does not keep the lock that it is about to take.
LEMMA NotTwice ==
    ASSUME LocksInv, NEW r \in Requests, IsRunning(r), At(r, "lock"),
           NEW k \in 1..(requests[r].pc - 1), KeptBy(r, k)
    PROVE  Program[requests[r].kind][k].arg # Argument(r)
<1>1. /\ Sound(requests[r].kind)
      /\ requests[r].pc \in 1..Len(Program[requests[r].kind])
  BY RunFacts DEF LocksInv
<1>2. PICK P : P = Program[requests[r].kind]
  OBVIOUS
<1>3. Rank[P[k].arg] < Rank[P[requests[r].pc].arg]
  BY <1>1, <1>2 DEF Sound, Ordered, KeptBy, At, Instruction
<1>4. \A x \in Locks : Rank[x] \in Int
  BY DEF Locks, Rank
<1>5. P[requests[r].pc].arg \in Locks
  BY <1>2, RunFacts DEF LocksInv, Argument, Instruction
<1> QED
  BY <1>2, <1>3, <1>4, <1>5 DEF Argument, Instruction

LEMMA NextOwnEntries ==
    ASSUME LocksInv, NEW r \in Requests, IsRunning(r), NEW q, NextQueues(r, q)
    PROVE  OwnEntries(r, q)
<1>0. PICK kind, pc, P : /\ kind = requests[r].kind /\ pc = requests[r].pc
                         /\ P = Program[kind]
  OBVIOUS
<1>1. pc \in Nat \ {0}
  BY <1>0, RunFacts DEF LocksInv
<1>2. /\ At(r, "lock") <=> P[pc].op = "lock"
      /\ At(r, "unlock") <=> P[pc].op = "unlock"
      /\ Argument(r) = P[pc].arg
      /\ Entry(r) = [who |-> r, pc |-> pc, mode |-> P[pc].mode]
      /\ Instruction(r) = P[pc]
  BY <1>0 DEF At, Argument, Entry, Instruction
<1>3. ASSUME NEW l \in Locks, NEW e, e.who = r,
             \E j \in 1..Len(queues[l]) : e = queues[l][j]
      PROVE  /\ e.pc \in 1..pc /\ P[e.pc].op = "lock" /\ P[e.pc].arg = l
             /\ P[e.pc].mode = e.mode
             /\ e.pc = pc \/ Kept(kind, e.pc, pc)
  <2>1. Rightful(l, e)
    BY <1>3 DEF LocksInv, QueueInv
  <2> QED
    BY <1>0, <1>3, <2>1 DEF Rightful
<1>4. \A k \in 1..pc :
         Kept(kind, k, pc + 1) <=>
            \/ k = pc /\ P[pc].op = "lock" /\ P[pc].keep
            \/ /\ Kept(kind, k, pc)
               /\ ~(P[pc].op = "unlock" /\ P[pc].arg = P[k].arg)
  BY <1>0, <1>1, KeptNext
<1> SUFFICES ASSUME NEW l \in Locks, NEW i \in 1..Len(q[l]), q[l][i].who = r
             PROVE  LET e == q[l][i] IN
                    /\ e.pc \in 1..pc /\ P[e.pc].op = "lock" /\ P[e.pc].arg = l
                    /\ P[e.pc].mode = e.mode /\ Kept(kind, e.pc, pc + 1)
  BY <1>0 DEF OwnEntries
<1>5. PICK e : e = q[l][i]
  OBVIOUS
<1> DEFINE a == Argument(r)
           InQueue == \E j \in 1..Len(queues[l]) : e = queues[l][j]
<1>6. ASSUME At(r, "lock") \/ At(r, "unlock"), l # a, q[l] = queues[l]
      PROVE  /\ e.pc \in 1..pc /\ P[e.pc].op = "lock" /\ P[e.pc].arg = l
             /\ P[e.pc].mode = e.mode /\ Kept(kind, e.pc, pc + 1)
  <2>1. InQueue
    BY <1>5, <1>6
  <2>2. e.pc # pc
    BY <1>2, <1>3, <1>5, <1>6, <2>1
  <2> QED
    BY <1>2, <1>3, <1>4, <1>5, <1>6, <2>1, <2>2
<1>7. /\ At(r, "lock") => a \in Locks /\ Entry(r) \in Entries
      /\ At(r, "unlock") => a \in Locks
      /\ queues \in [Locks -> Seq(Entries)]
  BY RunFacts DEF LocksInv, QueuesType
<1> HIDE DEF a
<1>8. CASE ~At(r, "lock") /\ ~At(r, "unlock") /\ q = queues
  <2>1. InQueue
    BY <1>5, <1>8
  <2>2. e.pc # pc
    BY <1>2, <1>3, <1>5, <1>8, <2>1
  <2> QED
    BY <1>2, <1>3, <1>4, <1>5, <1>8, <2>1, <2>2
<1>9. CASE At(r, "unlock") /\ q = [queues EXCEPT ![a] = Without(queues[a], r)]
  <2>1. CASE l # a
    <3>1. q[l] = queues[l]
      BY <1>7, <1>9, <2>1
    <3> QED
      BY <1>5, <1>6, <1>9, <2>1, <3>1
  <2>2. CASE l = a
    <3>1. q[l] = Without(queues[l], r) /\ queues[l] \in Seq(Entries)
      BY <1>7, <1>9, <2>2
    <3>2. e.who # r
      BY <1>5, <3>1, WithoutFacts
    <3> QED
      BY <1>5, <3>2
  <2> QED
    BY <2>1, <2>2
<1>10. CASE /\ At(r, "lock")
            /\ q = [queues EXCEPT ![a] = Without(Behind(queues[a], Entry(r)), r)]
  <2>1. CASE l # a
    <3>1. q[l] = queues[l]
      BY <1>7, <1>10, <2>1
    <3> QED
      BY <1>5, <1>6, <1>10, <2>1, <3>1
  <2>2. CASE l = a
    <3>1. q[l] = Without(Behind(queues[l], Entry(r)), r) /\ queues[l] \in Seq(Entries)
      BY <1>7, <1>10, <2>2
    <3>2. Behind(queues[l], Entry(r)) \in Seq(Entries)
      BY <1>7, <1>10, <3>1, BehindFacts
    <3>3. e.who # r
      BY <1>5, <3>1, <3>2, WithoutFacts
    <3> QED
      BY <1>5, <3>3
  <2> QED
    BY <2>1, <2>2
<1>11. CASE /\ At(r, "lock") /\ Instruction(r).keep
            /\ q = [queues EXCEPT ![a] = Behind(queues[a], Entry(r))]
  <2>1. CASE l # a
    <3>1. q[l] = queues[l]
      BY <1>7, <1>11, <2>1
    <3> QED
      BY <1>5, <1>6, <1>11, <2>1, <3>1
  <2>2. CASE l = a
    <3>1. q[l] = Behind(queues[l], Entry(r)) /\ queues[l] \in Seq(Entries)
      BY <1>7, <1>11, <2>2
    <3>2. e = Entry(r) \/ InQueue
      <4>1. PICK x \in Entries, w \in Seq(Entries) : x = Entry(r) /\ w = queues[l]
        BY <1>7, <1>11, <3>1
      <4>2. \A j \in 1..Len(Behind(w, x)) :
               Behind(w, x)[j] = x \/ \E m \in 1..Len(w) : Behind(w, x)[j] = w[m]
        BY BehindFacts
      <4>3. q[l] = Behind(w, x)
        BY <3>1, <4>1
      <4> QED
        BY <1>5, <4>1, <4>2, <4>3
    <3>3. CASE e = Entry(r)
      <4>1. e.pc = pc /\ e.mode = P[pc].mode /\ P[pc].arg = l
        BY <1>2, <2>2, <3>3 DEF a
      <4> QED
        BY <1>1, <1>2, <1>4, <1>5, <1>11, <4>1
    <3>4. CASE InQueue
      BY <1>2, <1>3, <1>4, <1>5, <1>11, <3>4
    <3> QED
      BY <3>2, <3>3, <3>4
  <2> QED
    BY <2>1, <2>2
<1> QED
  BY <1>8, <1>9, <1>10, <1>11 DEF NextQueues, a

LEMMA NextOwnLocks ==
    ASSUME LocksInv, NEW r \in Requests, IsRunning(r), NEW q, NextQueues(r, q)
    PROVE  OwnLocks(r, q)
<1>0. PICK kind, pc, P : /\ kind = requests[r].kind /\ pc = requests[r].pc
                         /\ P = Program[kind]
  OBVIOUS
<1>1. pc \in Nat \ {0} /\ pc <= Len(P) /\ Sound(kind) /\ Len(P) \in Nat
  BY <1>0, RunFacts DEF LocksInv
<1>2. /\ At(r, "lock") <=> P[pc].op = "lock"
      /\ At(r, "unlock") <=> P[pc].op = "unlock"
      /\ Argument(r) = P[pc].arg
      /\ Entry(r) = EntryAt(r, pc)
      /\ Instruction(r) = P[pc]
  BY <1>0 DEF At, Argument, Entry, EntryAt, Instruction
<1>3. \A k \in 1..pc :
         Kept(kind, k, pc + 1) <=>
            \/ k = pc /\ P[pc].op = "lock" /\ P[pc].keep
            \/ /\ Kept(kind, k, pc)
               /\ ~(P[pc].op = "unlock" /\ P[pc].arg = P[k].arg)
  BY <1>0, <1>1, KeptNext
<1>4. ASSUME NEW k \in 1..pc, Kept(kind, k, pc)
      PROVE  /\ P[k].arg \in Locks /\ Holding(queues[P[k].arg], EntryAt(r, k))
             /\ P[pc].op = "lock" => P[k].arg # Argument(r)
  <2>1. k \in 1..(pc - 1) /\ P[k].op = "lock"
    BY <1>0, <1>4 DEF Kept
  <2>2. Holding(queues[P[k].arg], EntryAt(r, k))
    BY <1>0, <1>4, <2>1 DEF LocksInv, HoldInv, KeptBy
  <2>3. P[k].arg \in Locks
    BY <1>0, <1>1, <2>1 DEF Sound, WellFormed
  <2>4. P[pc].op = "lock" => P[k].arg # Argument(r)
    BY <1>0, <1>2, <1>4, <2>1, NotTwice DEF KeptBy
  <2> QED
    BY <2>2, <2>3, <2>4
<1>5. /\ At(r, "lock") => Argument(r) \in Locks
      /\ At(r, "unlock") => Argument(r) \in Locks
      /\ queues \in [Locks -> Seq(Entries)]
  BY RunFacts DEF LocksInv, QueuesType
<1> SUFFICES ASSUME NEW k \in 1..pc, Kept(kind, k, pc + 1)
             PROVE  Holding(q[P[k].arg], EntryAt(r, k))
  BY <1>0 DEF OwnLocks
<1>6. ASSUME Kept(kind, k, pc), P[k].arg # Argument(r) \/ q = queues
      PROVE  Holding(q[P[k].arg], EntryAt(r, k))
  <2>1. q[P[k].arg] = queues[P[k].arg]
    BY <1>4, <1>5, <1>6 DEF NextQueues
  <2> QED
    BY <1>4, <1>6, <2>1
<1>7. CASE ~At(r, "lock") /\ ~At(r, "unlock") /\ q = queues
  BY <1>2, <1>3, <1>6, <1>7
<1>8. CASE At(r, "unlock")
  BY <1>2, <1>3, <1>6, <1>8
<1>9. CASE At(r, "lock") /\ ~Instruction(r).keep
  BY <1>2, <1>3, <1>4, <1>6, <1>9
<1>10. CASE At(r, "lock") /\ Instruction(r).keep
  <2>1. CASE k # pc
    BY <1>2, <1>3, <1>4, <1>6, <1>10, <2>1
  <2>2. CASE k = pc
    <3>1. /\ Holding(Behind(queues[Argument(r)], Entry(r)), Entry(r))
          /\ q = [queues EXCEPT ![Argument(r)] = Behind(queues[Argument(r)], Entry(r))]
      BY <1>10 DEF NextQueues, At
    <3>2. q[Argument(r)] = Behind(queues[Argument(r)], Entry(r))
      BY <1>5, <1>10, <3>1
    <3> QED
      BY <1>2, <2>2, <3>1, <3>2
  <2> QED
    BY <2>1, <2>2
<1> QED
  BY <1>7, <1>8, <1>9, <1>10 DEF NextQueues

----------------------------------------------------------------------------
(* A request that goes on, and one that ends *)

LEMMA Others ==
    ASSUME LocksInv, NEW r \in Requests, Undisturbed(r, queues'),
           \A s \in Requests \ {r} : requests'[s] = requests[s]
    PROVE  /\ \A l \in Locks, i \in Nat :
                 i \in 1..Len(queues'[l]) /\ queues'[l][i].who # r =>
                    \E e \in Entries : e = queues'[l][i] /\ Rightful(l, e)'
           /\ \A s \in Requests \ {r} : IsRunning(s)' =>
                 \A k \in 1..(requests'[s].pc - 1) : KeptBy(s, k)' =>
                    Holding(queues'[Program[requests'[s].kind][k].arg], EntryAt(s, k)')
<1>1. ASSUME NEW l \in Locks, NEW i \in 1..Len(queues'[l]), queues'[l][i].who # r
      PROVE  \E e \in Entries : e = queues'[l][i] /\ Rightful(l, e)'
  <2>1. PICK j \in 1..Len(queues[l]) : queues'[l][i] = queues[l][j]
    BY <1>1 DEF Undisturbed
  <2>2. PICK e \in Entries : e = queues[l][j]
    BY DEF LocksInv, QueuesType
  <2>3. Rightful(l, e) /\ e.who \in Requests \ {r}
    BY <1>1, <2>1, <2>2 DEF LocksInv, QueueInv, Entries
  <2>4. Rightful(l, e)'
    BY <2>3 DEF Rightful
  <2> QED
    BY <2>1, <2>2, <2>4
<1>2. ASSUME NEW s \in Requests \ {r}, IsRunning(s)',
             NEW k \in 1..(requests'[s].pc - 1), KeptBy(s, k)'
      PROVE  Holding(queues'[Program[requests'[s].kind][k].arg], EntryAt(s, k)')
  <2>1. /\ requests'[s] = requests[s] /\ IsRunning(s) /\ KeptBy(s, k)
        /\ EntryAt(s, k)' = EntryAt(s, k)
    BY <1>2 DEF IsRunning, KeptBy, EntryAt
  <2>2. PICK a : a = Program[requests[s].kind][k].arg
    OBVIOUS
  <2>3. Holding(queues[a], EntryAt(s, k))
    BY <1>2, <2>1, <2>2 DEF LocksInv, HoldInv
  <2>4. a \in Locks
    <3>1. Sound(requests[s].kind) /\ requests[s].pc \in Nat \ {0}
          /\ requests[s].pc <= Len(Program[requests[s].kind])
          /\ Len(Program[requests[s].kind]) \in Nat
      BY <2>1, RunFacts DEF LocksInv
    <3>2. k \in 1..Len(Program[requests[s].kind])
      BY <1>2, <2>1, <3>1
    <3> QED
      BY <2>1, <2>2, <3>1, <3>2 DEF Sound, WellFormed, KeptBy, Kept
  <2>5. EntryAt(s, k).who # r
    BY DEF EntryAt
  <2>6. Holding(queues'[a], EntryAt(s, k))
    BY <2>3, <2>4, <2>5 DEF Undisturbed
  <2> QED
    BY <2>1, <2>2, <2>6
<1> QED
  BY <1>1, <1>2

\* r goes on: the others are undisturbed, and r has what it keeps.
LEMMA GoesOn ==
    ASSUME LocksInv, NEW r \in Requests, IsRunning(r), RequestsType', RunInv',
           Undisturbed(r, queues'), OwnEntries(r, queues'), OwnLocks(r, queues'),
           \A s \in Requests \ {r} : requests'[s] = requests[s],
           requests'[r].kind = requests[r].kind,
           requests'[r].pc = requests[r].pc + 1
    PROVE  LocksInv'
<1>0. requests[r].pc \in Nat \ {0}
  BY RunFacts DEF LocksInv
<1>1. QueuesType'
  BY DEF Undisturbed, QueuesType
<1>2. QueueInv'
  <2> SUFFICES ASSUME NEW l \in Locks, NEW i \in 1..Len(queues'[l])
               PROVE  Rightful(l, queues[l][i])'
    BY DEF QueueInv
  <2>1. CASE queues'[l][i].who # r
    <3>1. PICK e \in Entries : e = queues'[l][i] /\ Rightful(l, e)'
      <4>1. i \in Nat
        BY <1>1 DEF QueuesType
      <4> QED
        BY <2>1, <4>1, Others
    <3> QED
      BY <3>1 DEF Rightful
  <2>2. CASE queues'[l][i].who = r
    <3>1. PICK e : e = queues'[l][i]
      OBVIOUS
    <3>2. /\ e.who = r /\ e.pc \in 1..requests[r].pc
          /\ Program[requests[r].kind][e.pc].op = "lock"
          /\ Program[requests[r].kind][e.pc].arg = l
          /\ Program[requests[r].kind][e.pc].mode = e.mode
          /\ Kept(requests[r].kind, e.pc, requests[r].pc + 1)
      BY <2>2, <3>1 DEF OwnEntries
    <3>3. requests'[r].kind # "idle"
      BY DEF IsRunning
    <3>4. e.pc \in 1..(requests[r].pc + 1)
      BY <1>0, <3>2
    <3>5. Rightful(l, e)'
      BY <3>2, <3>3, <3>4 DEF Rightful
    <3> QED
      BY <3>1, <3>5 DEF Rightful
  <2> QED
    BY <2>1, <2>2
<1>3. HoldInv'
  <2> SUFFICES ASSUME NEW s \in Requests, IsRunning(s)',
                      NEW k \in 1..(requests'[s].pc - 1), KeptBy(s, k)'
               PROVE  Holding(queues'[Program[requests'[s].kind][k].arg], EntryAt(s, k)')
    BY DEF HoldInv
  <2>1. CASE s # r
    BY <2>1, Others
  <2>2. CASE s = r
    <3>1. k \in 1..requests[r].pc /\ Kept(requests[r].kind, k, requests[r].pc + 1)
      BY <1>0, <2>2 DEF KeptBy
    <3>2. EntryAt(s, k)' = EntryAt(r, k)
      BY <2>2 DEF EntryAt
    <3> QED
      BY <2>2, <3>1, <3>2 DEF OwnLocks
  <2> QED
    BY <2>1, <2>2
<1> QED
  BY <1>1, <1>2, <1>3 DEF LocksInv

LEMMA ReleasedFacts ==
    ASSUME QueuesType, NEW r, NEW q, Undisturbed(r, q)
    PROVE  /\ Undisturbed(r, Released(q, r))
           /\ \A l \in Locks : \A i \in 1..Len(Released(q, r)[l]) :
                 Released(q, r)[l][i].who # r
<1>1. PICK w : w = Released(q, r)
  OBVIOUS
<1>2. ASSUME NEW l \in Locks
      PROVE  /\ w[l] \in Seq(Entries)
             /\ \A i \in 1..Len(w[l]) :
                   w[l][i].who # r /\ \E j \in 1..Len(q[l]) : w[l][i] = q[l][j]
             /\ \A e : Holding(q[l], e) /\ e.who # r => Holding(w[l], e)
  <2>1. w[l] = Without(q[l], r) /\ q[l] \in Seq(Entries)
    BY <1>1 DEF Released, Undisturbed
  <2>2. PICK x \in Seq(Entries) : x = q[l]
    BY <2>1
  <2>3. /\ Without(x, r) \in Seq(Entries)
        /\ \A i \in 1..Len(Without(x, r)) :
              /\ Without(x, r)[i].who # r
              /\ \E j \in 1..Len(x) : Without(x, r)[i] = x[j]
        /\ \A e : Holding(x, e) /\ e.who # r => Holding(Without(x, r), e)
    BY WithoutFacts
  <2>4. PICK v : v = Without(x, r)
    OBVIOUS
  <2>5. /\ v \in Seq(Entries)
        /\ \A i \in 1..Len(v) :
              v[i].who # r /\ \E j \in 1..Len(x) : v[i] = x[j]
        /\ \A e : Holding(x, e) /\ e.who # r => Holding(v, e)
    BY <2>3, <2>4
  <2>6. w[l] = v
    BY <2>1, <2>2, <2>4
  <2> QED
    BY <2>2, <2>5, <2>6
<1>3. w \in [Locks -> Seq(Entries)]
  <2>1. w = [l \in Locks |-> w[l]]
    BY <1>1 DEF Released
  <2> QED
    BY <1>2, <2>1
<1>4. ASSUME NEW l \in Locks, NEW i \in 1..Len(w[l]), w[l][i].who # r
      PROVE  \E j \in 1..Len(queues[l]) : w[l][i] = queues[l][j]
  <2>1. PICK j \in 1..Len(q[l]) : w[l][i] = q[l][j]
    BY <1>2
  <2> QED
    BY <1>4, <2>1 DEF Undisturbed
<1>5. ASSUME NEW l \in Locks, NEW e, Holding(queues[l], e), e.who # r
      PROVE  Holding(w[l], e)
  BY <1>2, <1>5 DEF Undisturbed
<1>6. Undisturbed(r, w)
  BY <1>3, <1>4, <1>5 DEF Undisturbed
<1> QED
  BY <1>1, <1>2, <1>6

\* r ends: it leaves every queue.
LEMMA IsOver ==
    ASSUME LocksInv, NEW r \in Requests, RequestsType', RunInv', NEW q,
           Undisturbed(r, q), queues' = Released(q, r),
           \A s \in Requests \ {r} : requests'[s] = requests[s],
           requests'[r] = Idle
    PROVE  LocksInv'
<1>0. /\ Undisturbed(r, queues')
      /\ \A l \in Locks : \A i \in 1..Len(queues'[l]) : queues'[l][i].who # r
  BY ReleasedFacts DEF LocksInv
<1>1. QueuesType'
  BY <1>0 DEF Undisturbed, QueuesType
<1>2. QueueInv'
  <2> SUFFICES ASSUME NEW l \in Locks, NEW i \in 1..Len(queues'[l])
               PROVE  Rightful(l, queues[l][i])'
    BY DEF QueueInv
  <2>1. PICK e \in Entries : e = queues'[l][i] /\ Rightful(l, e)'
    <3>1. i \in Nat /\ queues'[l][i].who # r
      BY <1>0, <1>1 DEF QueuesType
    <3> QED
      BY <1>0, <3>1, Others
  <2> QED
    BY <2>1 DEF Rightful
<1>3. HoldInv'
  <2> SUFFICES ASSUME NEW s \in Requests, IsRunning(s)',
                      NEW k \in 1..(requests'[s].pc - 1), KeptBy(s, k)'
               PROVE  Holding(queues'[Program[requests'[s].kind][k].arg], EntryAt(s, k)')
    BY DEF HoldInv
  <2>1. s # r
    BY DEF IsRunning, Idle
  <2> QED
    BY <1>0, <2>1, Others
<1> QED
  BY <1>1, <1>2, <1>3 DEF LocksInv

PoolsType == \A i \in DOMAIN pools : i \in Nat /\ pools[i] \in Nat
StoreType == NodeType /\ SnapshotsType /\ PoolsType

\* What a step of r may do to the requests and to the queues.
GoesOnBy(r, req, q) ==
    /\ req \in RequestStates
    /\ req.kind = requests[r].kind /\ req.pc = requests[r].pc
    /\ NextQueues(r, q) /\ Proceed(r, req, q)

LEMMA StartAt ==
    ASSUME NEW kind \in Kinds
    PROVE  /\ [Idle EXCEPT !.kind = kind, !.pc = 1] \in RequestStates
           /\ [Idle EXCEPT !.kind = kind, !.pc = 1].kind = kind
           /\ [Idle EXCEPT !.kind = kind, !.pc = 1].pc = 1
BY DEF Idle, RequestStates

LEMMA IdleType == Idle \in RequestStates
BY DEF Idle, RequestStates

LEMMA NotIdle == "idle" \notin Kinds
BY KindsAre

\* The type of the requests when one of them changes.
LEMMA OneRequest ==
    ASSUME RequestsType, RunInv, NEW r \in Requests, NEW req \in RequestStates,
           requests' = [requests EXCEPT ![r] = req],
           \/ req = Idle
           \/ req.kind \in KindsOf(r) /\ req.pc \in 1..Len(Program[req.kind])
    PROVE  RequestsType' /\ RunInv' /\ requests'[r] = req
           /\ \A s \in Requests \ {r} : requests'[s] = requests[s]
<1>1. requests'[r] = req /\ \A s \in Requests \ {r} : requests'[s] = requests[s]
  BY DEF RequestsType
<1>2. RequestsType'
  BY DEF RequestsType
<1>3. RunInv'
  <2> SUFFICES ASSUME NEW s \in Requests
               PROVE  IF requests'[s].kind # "idle"
                      THEN /\ requests'[s].kind \in KindsOf(s)
                           /\ requests'[s].pc \in 1..Len(Program[requests'[s].kind])
                      ELSE requests'[s] = Idle
    BY DEF RunInv, IsRunning
  <2>1. CASE s # r
    BY <1>1, <2>1 DEF RunInv, IsRunning
  <2>2. CASE s = r /\ req = Idle
    BY <1>1, <2>2 DEF Idle
  <2>3. CASE s = r /\ req.kind \in KindsOf(r) /\ req.pc \in 1..Len(Program[req.kind])
    <3>1. req.kind # "idle"
      BY <2>3, NotIdle DEF KindsOf, Kinds
    <3> QED
      BY <1>1, <2>3, <3>1
  <2> QED
    BY <2>1, <2>2, <2>3
<1> QED
  BY <1>1, <1>2, <1>3

LEMMA EndFacts ==
    ASSUME RequestsType, RunInv, NEW r \in Requests, End(r)
    PROVE  RequestsType' /\ RunInv' /\ requests'[r] = Idle
           /\ \A s \in Requests \ {r} : requests'[s] = requests[s]
<1>1. requests' = [requests EXCEPT ![r] = Idle]
  BY DEF End
<1> QED
  BY <1>1, IdleType, OneRequest

\* r goes on to its next instruction, or its program is over.
LEMMA ProceedFacts ==
    ASSUME RequestsType, RunInv, NEW r \in Requests, IsRunning(r),
           NEW req \in RequestStates, NEW q, Proceed(r, req, q),
           req.kind = requests[r].kind, req.pc = requests[r].pc
    PROVE  /\ RequestsType' /\ RunInv'
           /\ \A s \in Requests \ {r} : requests'[s] = requests[s]
           /\ \/ /\ requests[r].pc < Len(Program[requests[r].kind])
                 /\ requests'[r] = [req EXCEPT !.pc = req.pc + 1]
                 /\ requests'[r].kind = requests[r].kind
                 /\ requests'[r].pc = requests[r].pc + 1
                 /\ requests'[r].seen = req.seen /\ requests'[r].id = req.id
                 /\ requests'[r].copy = req.copy
                 /\ queues' = q
              \/ /\ requests[r].pc = Len(Program[requests[r].kind])
                 /\ requests'[r] = Idle
                 /\ queues' = Released(q, r)
<1>0. /\ requests[r].kind \in KindsOf(r)
      /\ requests[r].pc \in Nat \ {0}
      /\ Len(Program[requests[r].kind]) \in Nat
      /\ requests[r].pc <= Len(Program[requests[r].kind])
  BY RunFacts
<1>1. CASE req.pc < Len(Program[req.kind])
  <2>1. PICK new : new = [req EXCEPT !.pc = req.pc + 1]
    OBVIOUS
  <2>2. /\ new \in RequestStates /\ new.kind = req.kind /\ new.pc = req.pc + 1
        /\ new.seen = req.seen /\ new.id = req.id /\ new.copy = req.copy
    BY <2>1 DEF RequestStates
  <2>3. requests' = [requests EXCEPT ![r] = new] /\ queues' = q
    BY <1>1, <2>1 DEF Proceed
  <2>4. new.kind \in KindsOf(r) /\ new.pc \in 1..Len(Program[new.kind])
    BY <1>0, <1>1, <2>2
  <2>5. RequestsType' /\ RunInv' /\ requests'[r] = new
        /\ \A s \in Requests \ {r} : requests'[s] = requests[s]
    BY <2>2, <2>3, <2>4, OneRequest
  <2> QED
    BY <1>1, <2>1, <2>2, <2>3, <2>5
<1>2. CASE ~(req.pc < Len(Program[req.kind]))
  <2>1. requests' = [requests EXCEPT ![r] = Idle] /\ queues' = Released(q, r)
    BY <1>2 DEF Proceed
  <2>2. RequestsType' /\ RunInv' /\ requests'[r] = Idle
        /\ \A s \in Requests \ {r} : requests'[s] = requests[s]
    BY <2>1, IdleType, OneRequest
  <2>3. requests[r].pc = Len(Program[requests[r].kind])
    BY <1>0, <1>2
  <2> QED
    BY <2>1, <2>2, <2>3
<1> QED
  BY <1>1, <1>2

LEMMA GoesOnKeeps ==
    ASSUME LocksInv, NEW r \in Requests, IsRunning(r), NEW req, NEW q,
           GoesOnBy(r, req, q)
    PROVE  LocksInv'
<1>1. Undisturbed(r, q) /\ OwnEntries(r, q) /\ OwnLocks(r, q)
  BY NextUndisturbed, NextOwnEntries, NextOwnLocks DEF GoesOnBy
<1>2. /\ RequestsType' /\ RunInv'
      /\ \A s \in Requests \ {r} : requests'[s] = requests[s]
      /\ \/ /\ requests'[r].kind = requests[r].kind
            /\ requests'[r].pc = requests[r].pc + 1
            /\ queues' = q
         \/ requests'[r] = Idle /\ queues' = Released(q, r)
  BY ProceedFacts DEF GoesOnBy, LocksInv
<1>3. CASE /\ requests'[r].kind = requests[r].kind
           /\ requests'[r].pc = requests[r].pc + 1
           /\ queues' = q
  <2>1. Undisturbed(r, queues') /\ OwnEntries(r, queues') /\ OwnLocks(r, queues')
    BY <1>1, <1>3
  <2> QED
    BY <1>2, <1>3, <2>1, GoesOn
<1>4. CASE requests'[r] = Idle /\ queues' = Released(q, r)
  BY <1>1, <1>2, <1>4, IsOver
<1> QED
  BY <1>2, <1>3, <1>4

LEMMA EndKeeps ==
    ASSUME LocksInv, NEW r \in Requests, End(r)
    PROVE  LocksInv'
<1>1. RequestsType' /\ RunInv' /\ requests'[r] = Idle
      /\ \A s \in Requests \ {r} : requests'[s] = requests[s]
  BY EndFacts DEF LocksInv
<1>2. Undisturbed(r, queues)
  BY DEF Undisturbed, LocksInv, QueuesType
<1>3. queues' = Released(queues, r)
  BY DEF End
<1> QED
  BY <1>1, <1>2, <1>3, IsOver

----------------------------------------------------------------------------
(* What the actions do to the requests and to the queues *)

\* r takes its place behind the others.
LEMMA WaitKeeps ==
    ASSUME LocksInv, NEW r \in Requests, IsRunning(r), Wait(r)
    PROVE  LocksInv'
<1>0. PICK l, e, old : l = Argument(r) /\ e = Entry(r) /\ old = queues[l]
  OBVIOUS
<1>1. l \in Locks /\ e \in Entries /\ old \in Seq(Entries)
  BY <1>0, RunFacts DEF Wait, LocksInv, QueuesType
<1>2. /\ At(r, "lock") /\ ~Queued(old, e)
      /\ queues' = [queues EXCEPT ![l] = Append(old, e)]
      /\ requests' = requests
  BY <1>0 DEF Wait
<1>3. PICK w : w = Behind(old, e)
  OBVIOUS
<1>4. /\ w \in Seq(Entries)
      /\ \A i \in 1..Len(w) : w[i] = e \/ \E j \in 1..Len(old) : w[i] = old[j]
      /\ \A x : Holding(old, x) => Holding(w, x)
  BY <1>1, <1>3, BehindFacts
<1>5. queues' = [queues EXCEPT ![l] = w]
  BY <1>2, <1>3 DEF Behind
<1>6. /\ queues' \in [Locks -> Seq(Entries)] /\ queues'[l] = w
      /\ \A m \in Locks \ {l} : queues'[m] = queues[m]
  BY <1>1, <1>4, <1>5 DEF LocksInv, QueuesType
<1>7. \A m \in Locks : \A x : Rightful(m, x) => Rightful(m, x)'
  BY <1>2 DEF Rightful
<1>8. Rightful(l, e)
  <2>1. requests[r].pc \in Nat \ {0} /\ requests[r].kind # "idle"
    BY RunFacts DEF LocksInv, IsRunning
  <2>2. e.who = r /\ e.pc = requests[r].pc /\ e.mode = Instruction(r).mode
    BY <1>0 DEF Entry
  <2>3. PICK x : x = Program[requests[r].kind][requests[r].pc]
    OBVIOUS
  <2>4. x.op = "lock" /\ x.arg = l /\ x.mode = e.mode
    BY <1>0, <1>2, <2>2, <2>3 DEF At, Argument, Instruction
  <2>5. e.pc \in 1..requests[r].pc
    BY <2>1, <2>2
  <2> QED
    BY <2>1, <2>2, <2>3, <2>4, <2>5 DEF Rightful
<1>9. QueueInv'
  <2> SUFFICES ASSUME NEW m \in Locks, NEW i \in 1..Len(queues'[m])
               PROVE  Rightful(m, queues[m][i])'
    BY DEF QueueInv
  <2>1. PICK x : x = queues'[m][i]
    OBVIOUS
  <2>2. Rightful(m, x)
    <3>1. CASE m = l
      BY <1>0, <1>4, <1>6, <1>8, <2>1, <3>1 DEF LocksInv, QueueInv
    <3>2. CASE m # l
      BY <1>6, <2>1, <3>2 DEF LocksInv, QueueInv
    <3> QED
      BY <3>1, <3>2
  <2>3. Rightful(m, x)'
    BY <1>7, <2>2
  <2> QED
    BY <2>1, <2>3 DEF Rightful
<1>10. \A m \in Locks : \A x : Holding(queues[m], x) => Holding(queues'[m], x)
  BY <1>0, <1>4, <1>6
<1>11. HoldInv'
  <2> SUFFICES ASSUME NEW s \in Requests, IsRunning(s),
                      NEW k \in 1..(requests[s].pc - 1), KeptBy(s, k)
               PROVE  Holding(queues'[Program[requests[s].kind][k].arg], EntryAt(s, k))
    BY <1>2 DEF HoldInv, IsRunning, KeptBy, EntryAt
  <2>1. PICK a : a = Program[requests[s].kind][k].arg
    OBVIOUS
  <2>2. Holding(queues[a], EntryAt(s, k))
    BY <2>1 DEF LocksInv, HoldInv
  <2>3. a \in Locks
    <3>1. Sound(requests[s].kind) /\ requests[s].pc \in Nat \ {0}
          /\ requests[s].pc <= Len(Program[requests[s].kind])
          /\ Len(Program[requests[s].kind]) \in Nat
      BY RunFacts DEF LocksInv
    <3>2. k \in 1..Len(Program[requests[s].kind])
      BY <3>1
    <3> QED
      BY <2>1, <3>1, <3>2 DEF Sound, WellFormed, KeptBy, Kept
  <2> QED
    BY <1>10, <2>1, <2>2, <2>3
<1>12. RequestsType' /\ RunInv' /\ QueuesType'
  BY <1>2, <1>6 DEF LocksInv, RequestsType, RunInv, IsRunning, QueuesType
<1> QED
  BY <1>9, <1>11, <1>12 DEF LocksInv

LEMMA StartKeeps ==
    ASSUME LocksInv, NEW r \in Requests, NEW kind \in KindsOf(r), Start(r, kind)
    PROVE  /\ LocksInv'
           /\ requests'[r] = [Idle EXCEPT !.kind = kind, !.pc = 1]
           /\ \A s \in Requests \ {r} : requests'[s] = requests[s]
<1>0. PICK new : new = [Idle EXCEPT !.kind = kind, !.pc = 1]
  OBVIOUS
<1>1. kind \in Kinds
  BY KindsAre DEF KindsOf, Kinds
<1>2. new \in RequestStates /\ new.kind = kind /\ new.pc = 1
  BY <1>0, <1>1, StartAt
<1>3. 1 \in 1..Len(Program[kind])
  <2>1. Sound(kind)
    BY <1>1, AllSound
  <2> QED
    BY <2>1 DEF Sound, WellFormed
<1>4. /\ requests' = [requests EXCEPT ![r] = new]
      /\ requests[r].kind = "idle" /\ queues' = queues
  BY <1>0 DEF Start
<1>5. /\ RequestsType' /\ RunInv' /\ requests'[r] = new
      /\ \A s \in Requests \ {r} : requests'[s] = requests[s]
  BY <1>2, <1>3, <1>4, OneRequest DEF LocksInv
<1>6. Undisturbed(r, queues')
  BY <1>4 DEF Undisturbed, LocksInv, QueuesType
<1>7. QueuesType'
  BY <1>4 DEF LocksInv, QueuesType
<1>8. QueueInv'
  <2> SUFFICES ASSUME NEW l \in Locks, NEW i \in 1..Len(queues'[l])
               PROVE  Rightful(l, queues[l][i])'
    BY DEF QueueInv
  <2>1. queues'[l][i].who # r
    <3>1. Rightful(l, queues[l][i])
      BY <1>4 DEF LocksInv, QueueInv
    <3>2. requests[queues[l][i].who].kind # "idle"
      BY <3>1 DEF Rightful, IsRunning
    <3> QED
      BY <1>4, <3>2
  <2>2. i \in Nat
    BY <1>7 DEF QueuesType
  <2>3. PICK e \in Entries : e = queues'[l][i] /\ Rightful(l, e)'
    BY <1>5, <1>6, <2>1, <2>2, Others
  <2> QED
    BY <2>3 DEF Rightful
<1>9. HoldInv'
  <2> SUFFICES ASSUME NEW s \in Requests, IsRunning(s)',
                      NEW k \in 1..(requests'[s].pc - 1), KeptBy(s, k)'
               PROVE  Holding(queues'[Program[requests'[s].kind][k].arg], EntryAt(s, k)')
    BY DEF HoldInv
  <2>1. s # r
    BY <1>2, <1>5
  <2> QED
    BY <1>5, <1>6, <2>1, Others
<1> QED
  BY <1>0, <1>5, <1>7, <1>8, <1>9 DEF LocksInv

\* An instruction is of one sort.
LEMMA OneSort ==
    ASSUME NEW r, \/ At(r, "see") \/ At(r, "publish") \/ At(r, "do")
    PROVE  ~At(r, "lock") /\ ~At(r, "unlock") /\ \A q : q = queues => NextQueues(r, q)
BY DEF At, NextQueues

LEMMA PlainStep ==
    ASSUME NEW r \in Requests, NEW req \in RequestStates,
           \/ At(r, "see") \/ At(r, "publish") \/ At(r, "do"),
           req.kind = requests[r].kind, req.pc = requests[r].pc,
           Proceed(r, req, queues)
    PROVE  GoesOnBy(r, req, queues)
BY OneSort DEF GoesOnBy

LEMMA AcquireShape ==
    ASSUME RequestsType, NEW r \in Requests, Acquire(r)
    PROVE  \E q : GoesOnBy(r, requests[r], q)
<1>0. PICK l, w : l = Argument(r) /\ w = Behind(queues[l], Entry(r))
  OBVIOUS
<1>1. PICK q : q = [queues EXCEPT ![l] =
                      IF Instruction(r).keep THEN w ELSE Without(w, r)]
  OBVIOUS
<1>2. /\ At(r, "lock") /\ Holding(w, Entry(r)) /\ Proceed(r, requests[r], q)
  BY <1>0, <1>1 DEF Acquire
<1>3. requests[r] \in RequestStates
  BY DEF RequestsType
<1>4. NextQueues(r, q)
  <2>1. CASE Instruction(r).keep
    BY <1>0, <1>1, <1>2, <2>1 DEF NextQueues
  <2>2. CASE ~Instruction(r).keep
    BY <1>0, <1>1, <1>2, <2>2 DEF NextQueues
  <2> QED
    BY <2>1, <2>2
<1> QED
  BY <1>2, <1>3, <1>4 DEF GoesOnBy

LEMMA DropShape ==
    ASSUME RequestsType, NEW r \in Requests, Drop(r)
    PROVE  \E q : GoesOnBy(r, requests[r], q)
<1>1. PICK q : q = [queues EXCEPT ![Argument(r)] = Without(queues[Argument(r)], r)]
  OBVIOUS
<1>2. At(r, "unlock") /\ Proceed(r, requests[r], q)
  BY <1>1 DEF Drop
<1>3. requests[r] \in RequestStates
  BY DEF RequestsType
<1>4. NextQueues(r, q)
  BY <1>1, <1>2 DEF NextQueues
<1> QED
  BY <1>2, <1>3, <1>4 DEF GoesOnBy

\* What an action that is not about locks does to its own request.
LEMMA EffectShapes ==
    ASSUME RequestsType, StoreType, NEW r \in Requests, IsRunning(r), RunInv
    PROVE  /\ Observe(r) => \E req : /\ GoesOnBy(r, req, queues)
                                     /\ req.seen = requests[r].seen \cup {node[Argument(r)]}
                                     /\ req.id = requests[r].id
                                     /\ req.copy = requests[r].copy
           /\ CopyPool(r) => \E req : /\ GoesOnBy(r, req, queues)
                                      /\ req.copy = node.pool
                                      /\ req.id = requests[r].id
                                      /\ req.seen = requests[r].seen
           /\ SaveState(r) => \E req : /\ GoesOnBy(r, req, queues)
                                       /\ req.id = next' /\ next' = next + 1
                                       /\ req.seen = requests[r].seen
                                       /\ req.copy = requests[r].copy
           /\ (At(r, "publish") \/ At(r, "do")) /\ Continue(r) =>
                 GoesOnBy(r, requests[r], queues)
           /\ \A id \in states :
                 At(r, "do") /\ Proceed(r, [requests[r] EXCEPT !.id = id], queues) =>
                    \E req : /\ GoesOnBy(r, req, queues)
                             /\ req.id = id /\ req.seen = requests[r].seen
                             /\ req.copy = requests[r].copy
<1>0. PICK old \in RequestStates : old = requests[r]
  BY DEF RequestsType
<1>1. ASSUME Observe(r)
      PROVE  \E req : /\ GoesOnBy(r, req, queues)
                      /\ req.seen = requests[r].seen \cup {node[Argument(r)]}
                      /\ req.id = requests[r].id /\ req.copy = requests[r].copy
  <2>1. At(r, "see")
    BY <1>1 DEF Observe
  <2>2. node[Argument(r)] \in Nat
    BY <2>1, RunFacts DEF StoreType, NodeType
  <2>3. PICK req : req = [old EXCEPT !.seen = old.seen \cup {node[Argument(r)]}]
    OBVIOUS
  <2>4. /\ req \in RequestStates /\ req.kind = old.kind /\ req.pc = old.pc
        /\ req.seen = old.seen \cup {node[Argument(r)]}
        /\ req.id = old.id /\ req.copy = old.copy
    BY <2>2, <2>3 DEF RequestStates
  <2>5. Proceed(r, req, queues)
    BY <1>0, <1>1, <2>3 DEF Observe
  <2> QED
    BY <1>0, <2>1, <2>4, <2>5, PlainStep
<1>2. ASSUME CopyPool(r)
      PROVE  \E req : /\ GoesOnBy(r, req, queues)
                      /\ req.copy = node.pool
                      /\ req.id = requests[r].id /\ req.seen = requests[r].seen
  <2>1. At(r, "do")
    BY <1>2 DEF CopyPool, DoesNow
  <2>2. PICK v \in Nat : v = node.pool
    BY DEF StoreType, NodeType, Parts
  <2>3. PICK req : req = [old EXCEPT !.copy = v]
    OBVIOUS
  <2>4. /\ req \in RequestStates /\ req.kind = old.kind /\ req.pc = old.pc
        /\ req.copy = v /\ req.id = old.id /\ req.seen = old.seen
    BY <2>3 DEF RequestStates
  <2>5. Proceed(r, req, queues)
    BY <1>0, <1>2, <2>2, <2>3 DEF CopyPool
  <2> QED
    BY <1>0, <2>1, <2>2, <2>4, <2>5, PlainStep
<1>3. ASSUME SaveState(r)
      PROVE  \E req : /\ GoesOnBy(r, req, queues)
                      /\ req.id = next' /\ next' = next + 1
                      /\ req.seen = requests[r].seen
                      /\ req.copy = requests[r].copy
  <2>1. At(r, "do")
    BY <1>3 DEF SaveState, DoesNow
  <2>2. PICK v \in Nat : v = next' /\ v = next + 1
    BY <1>3 DEF SaveState, StoreType, SnapshotsType
  <2>3. PICK req : req = [old EXCEPT !.id = v]
    OBVIOUS
  <2>4. /\ req \in RequestStates /\ req.kind = old.kind /\ req.pc = old.pc
        /\ req.id = v /\ req.copy = old.copy /\ req.seen = old.seen
    BY <2>3 DEF RequestStates
  <2>5. Proceed(r, req, queues)
    BY <1>0, <1>3, <2>2, <2>3 DEF SaveState
  <2> QED
    BY <1>0, <2>1, <2>2, <2>4, <2>5, PlainStep
<1>4. ASSUME At(r, "publish") \/ At(r, "do"), Continue(r)
      PROVE  GoesOnBy(r, requests[r], queues)
  <2>1. requests[r] \in RequestStates
    BY <1>0
  <2> QED
    BY <1>4, <2>1, PlainStep DEF Continue
<1>5. ASSUME NEW id \in states, At(r, "do"),
             Proceed(r, [requests[r] EXCEPT !.id = id], queues)
      PROVE  \E req : /\ GoesOnBy(r, req, queues)
                      /\ req.id = id /\ req.seen = requests[r].seen
                      /\ req.copy = requests[r].copy
  <2>1. PICK req : req = [old EXCEPT !.id = id]
    OBVIOUS
  <2>2. id \in Nat
    BY DEF StoreType, SnapshotsType
  <2>3. /\ req \in RequestStates /\ req.kind = old.kind /\ req.pc = old.pc
        /\ req.id = id /\ req.copy = old.copy /\ req.seen = old.seen
    BY <2>1, <2>2 DEF RequestStates
  <2>4. Proceed(r, req, queues)
    BY <1>0, <1>5, <2>1
  <2> QED
    BY <1>0, <1>5, <2>3, <2>4, PlainStep
<1> QED
  BY <1>1, <1>2, <1>3, <1>4, <1>5

LEMMA StepShape ==
    ASSUME RequestsType, StoreType, RunInv, NEW r \in Requests, Step(r)
    PROVE  IsRunning(r) /\ (Wait(r) \/ End(r) \/ \E req, q : GoesOnBy(r, req, q))
<1>0. IsRunning(r)
  BY DEF Step, IsRunning
<1>1. CASE Wait(r)
  BY <1>0, <1>1
<1>2. CASE Acquire(r)
  BY <1>0, <1>2, AcquireShape
<1>3. CASE Drop(r)
  BY <1>0, <1>3, DropShape
<1>4. CASE Observe(r) \/ CopyPool(r) \/ SaveState(r)
  BY <1>0, <1>4, EffectShapes
<1>5. CASE \/ PublishPart(r) \/ AwaitInclusion(r) \/ DropStates(r)
           \/ DropPools(r) \/ SavePool(r) \/ RestorePool(r)
  <2>1. (At(r, "publish") \/ At(r, "do")) /\ Continue(r)
    BY <1>5 DEF PublishPart, AwaitInclusion, DropStates, DropPools, SavePool,
                RestorePool, DoesNow
  <2> QED
    BY <1>0, <2>1, EffectShapes
<1>6. CASE Outcome(r)
  <2>1. At(r, "do") /\ (Continue(r) \/ End(r))
    BY <1>6 DEF Outcome, DoesNow
  <2> QED
    BY <1>0, <2>1, EffectShapes
<1>7. CASE RevertState(r)
  <2>1. /\ At(r, "do")
        /\ End(r) \/ \E id \in states : Proceed(r, [requests[r] EXCEPT !.id = id], queues)
    BY <1>7 DEF RevertState, DoesNow
  <2> QED
    BY <1>0, <2>1, EffectShapes
<1> QED
  BY <1>1, <1>2, <1>3, <1>4, <1>5, <1>6, <1>7 DEF Step

LEMMA LocksStep ==
    ASSUME LocksInv, StoreType, LifecycleNext
    PROVE  LocksInv'
<1>1. ASSUME NEW r \in Requests, Step(r) PROVE LocksInv'
  <2>1. IsRunning(r) /\ (Wait(r) \/ End(r) \/ \E req, q : GoesOnBy(r, req, q))
    BY <1>1, StepShape DEF LocksInv
  <2>2. CASE Wait(r)
    BY <2>1, <2>2, WaitKeeps
  <2>3. CASE End(r)
    BY <2>3, EndKeeps
  <2>4. ASSUME NEW req, NEW q, GoesOnBy(r, req, q) PROVE LocksInv'
    BY <2>1, <2>4, GoesOnKeeps
  <2> QED
    BY <2>1, <2>2, <2>3, <2>4
<1>2. ASSUME NEW r \in Requests, NEW kind \in KindsOf(r), Start(r, kind)
      PROVE  LocksInv'
  BY <1>2, StartKeeps
<1> QED
  BY <1>1, <1>2 DEF LifecycleNext

LEMMA StoreStep ==
    ASSUME RequestsType, RunInv, StoreType, LifecycleNext
    PROVE  StoreType'
<1> USE DEF StoreType, NodeType, SnapshotsType, PoolsType
<1>1. ASSUME UNCHANGED <<node, next, states, pools>> PROVE StoreType'
  BY <1>1
<1>2. ASSUME NEW r \in Requests, Step(r) PROVE StoreType'
  <2>0. IsRunning(r) /\ requests[r] \in RequestStates
    BY <1>2 DEF Step, IsRunning, RequestsType
  <2>1. CASE Wait(r) \/ Acquire(r) \/ Drop(r) \/ Observe(r) \/ Outcome(r)
             \/ AwaitInclusion(r) \/ CopyPool(r)
    BY <1>1, <2>1 DEF Wait, Acquire, Drop, Observe, Outcome, AwaitInclusion, CopyPool
  <2>2. CASE PublishPart(r)
    <3>1. Argument(r) \in Parts
      BY <2>0, <2>2, RunFacts DEF PublishPart
    <3>2. node' = [node EXCEPT ![Argument(r)] = node[Argument(r)] + 1]
      BY <2>2 DEF PublishPart
    <3>3. node' \in [Parts -> Nat]
      BY <3>1, <3>2
    <3> QED
      BY <2>2, <3>3 DEF PublishPart
  <2>3. CASE DropStates(r)
    BY <2>3 DEF DropStates
  <2>4. CASE DropPools(r)
    <3>1. DOMAIN pools' = {}
      BY <2>4 DEF DropPools
    <3> QED
      BY <2>4, <3>1 DEF DropPools
  <2>5. CASE SaveState(r)
    BY <2>5 DEF SaveState
  <2>6. CASE SavePool(r)
    <3>1. PICK id, copy : id = requests[r].id /\ copy = requests[r].copy
      OBVIOUS
    <3>2. id \in Nat /\ copy \in Nat
      BY <2>0, <3>1 DEF RequestStates
    <3>3. pools' = [i \in DOMAIN pools \cup {id} |-> IF i = id THEN copy ELSE pools[i]]
      BY <2>6, <3>1 DEF SavePool
    <3>4. PoolsType'
      BY <3>2, <3>3
    <3> QED
      BY <2>6, <3>4 DEF SavePool
  <2>7. CASE RevertState(r)
    <3>1. states' \subseteq states
      BY <2>7 DEF RevertState
    <3> QED
      BY <2>7, <3>1 DEF RevertState
  <2>8. CASE RestorePool(r)
    <3>1. PICK id : id = requests[r].id
      OBVIOUS
    <3>2. /\ node' = IF id \in DOMAIN pools THEN [node EXCEPT !.pool = pools[id]] ELSE node
          /\ pools' = [i \in {j \in DOMAIN pools : j < id} |-> pools[i]]
      BY <2>8, <3>1 DEF RestorePool
    <3>3. node' \in [Parts -> Nat]
      BY <3>2 DEF Parts
    <3>4. PoolsType'
      BY <3>2
    <3> QED
      BY <2>8, <3>3, <3>4 DEF RestorePool
  <2> QED
    BY <1>2, <2>1, <2>2, <2>3, <2>4, <2>5, <2>6, <2>7, <2>8 DEF Step
<1>3. ASSUME NEW r \in Requests, NEW kind \in KindsOf(r), Start(r, kind)
      PROVE  StoreType'
  BY <1>1, <1>3 DEF Start
<1> QED
  BY <1>2, <1>3 DEF LifecycleNext

----------------------------------------------------------------------------
(* Where the programs change the node, and under which locks *)

Effects == {"drop_states", "drop_pools", "copy_pool", "save_state", "save_pool",
            "revert_state", "restore_pool"}

\* The instructions that change the node, the snapshots or a copy of the pool,
\* and where in which program they are.
Placed(kind, pc) ==
    LET P == Program[kind]
        stage == pc - Base(kind)
    IN
    /\ P[pc].op = "publish" =>
          /\ kind \in Resets
          /\ \/ P[pc].arg = "db" /\ stage = 1
             \/ P[pc].arg = "chain" /\ stage = 2
             \/ P[pc].arg = "instance" /\ stage = 6
             \/ P[pc].arg = "pool" /\ stage = 7
    /\ P[pc].op = "do" =>
          /\ P[pc].arg = "drop_states" => kind \in Resets /\ stage = 3
          /\ P[pc].arg = "drop_pools" =>
                kind \in Resets /\ stage = 8 /\ pc = Len(P)
          /\ P[pc].arg = "copy_pool" => kind = "snapshot" /\ pc = 3
          /\ P[pc].arg = "save_state" => kind = "snapshot" /\ pc = 5
          /\ P[pc].arg = "save_pool" => kind = "snapshot" /\ pc = 7 /\ pc = Len(P)
          /\ P[pc].arg = "revert_state" => kind = "revert" /\ pc = 5
          /\ P[pc].arg = "restore_pool" => kind = "revert" /\ pc = 7 /\ pc = Len(P)
          /\ P[pc].arg = "may_fail" =>
                /\ kind \in Resets => stage <= 0
                /\ kind \in {"snapshot", "revert"} => pc < 4

\* All other instructions are away from them.
Calm(kind, pc) ==
    LET P == Program[kind]
        stage == pc - Base(kind)
    IN
    P[pc].op # "publish" /\ ~(P[pc].op = "do" /\ P[pc].arg \in Effects) =>
        /\ kind \in Resets => pc < Len(P) /\ (stage <= 0 \/ stage \in {4, 5})
        /\ kind = "snapshot" => pc < Len(P) /\ pc \in {1, 2, 4, 6}
        /\ kind = "revert" => pc < Len(P) /\ pc \in {1, 2, 3, 4, 6}

\* The locks that the programs keep where they change the node.
Guarded(kind, pc) ==
    LET Keeps(l) == \E k \in 1..(pc - 1) :
                       /\ Kept(kind, k, pc) /\ Program[kind][k].arg = l
                       /\ Program[kind][k].mode = "write"
    IN
    /\ kind \in Resets /\ pc - Base(kind) >= 1 => Keeps("lifecycle") /\ Keeps("mining")
    /\ kind \in {"snapshot", "revert"} /\ pc >= 3 => Keeps("mining")

InPlace(kind) ==
    \A pc \in 1..Len(Program[kind]) :
        Placed(kind, pc) /\ Calm(kind, pc) /\ Guarded(kind, pc)

LEMMA ForkResetInPlace == InPlace("fork_reset")
<1> DEFINE P == Program["fork_reset"]
<1>1. \A pc \in 1..19 : Placed("fork_reset", pc) /\ Calm("fork_reset", pc)
  BY ForkResetTable
     DEF Placed, Calm, Effects, Base, Resets,
         Lock, Write, Glance, Touch, Do, Publish, Unlock
<1>2. ASSUME NEW pc \in 12..19
      PROVE  Kept("fork_reset", 7, pc) /\ Kept("fork_reset", 8, pc)
  BY ForkResetTable DEF Kept, Lock, Write, Glance, Touch, Do, Publish, Unlock
<1>3. /\ P[7].arg = "lifecycle" /\ P[7].mode = "write"
      /\ P[8].arg = "mining" /\ P[8].mode = "write"
  BY ForkResetTable DEF Lock, Write, Glance, Touch, Do, Publish, Unlock
<1>4. \A pc \in 1..19 : Guarded("fork_reset", pc)
  BY <1>2, <1>3 DEF Guarded, Base, Resets
<1> QED
  BY <1>1, <1>4, ForkResetTable DEF InPlace

LEMMA MemoryResetInPlace == InPlace("memory_reset")
<1> DEFINE P == Program["memory_reset"]
<1>1. \A pc \in 1..16 : Placed("memory_reset", pc) /\ Calm("memory_reset", pc)
  BY MemoryResetTable
     DEF Placed, Calm, Effects, Base, Resets,
         Lock, Write, Glance, Do, Publish, Unlock
<1>2. ASSUME NEW pc \in 9..16
      PROVE  Kept("memory_reset", 2, pc) /\ Kept("memory_reset", 3, pc)
  BY MemoryResetTable DEF Kept, Lock, Write, Glance, Do, Publish, Unlock
<1>3. /\ P[2].arg = "lifecycle" /\ P[2].mode = "write"
      /\ P[3].arg = "mining" /\ P[3].mode = "write"
  BY MemoryResetTable DEF Lock, Write, Glance, Do, Publish, Unlock
<1>4. \A pc \in 1..16 : Guarded("memory_reset", pc)
  BY <1>2, <1>3 DEF Guarded, Base, Resets
<1> QED
  BY <1>1, <1>4, MemoryResetTable DEF InPlace

LEMMA SetRpcUrlInPlace == InPlace("set_rpc_url")
BY SetRpcUrlTable
   DEF InPlace, Placed, Calm, Guarded, Effects, Resets,
       Lock, Write, Glance, Do

LEMMA RewindInPlace == InPlace("rewind")
BY RewindTable
   DEF InPlace, Placed, Calm, Guarded, Effects, Resets,
       Lock, Write, See, Do

LEMMA SnapshotInPlace == InPlace("snapshot")
<1> DEFINE P == Program["snapshot"]
<1>1. \A pc \in 1..7 : Placed("snapshot", pc) /\ Calm("snapshot", pc)
  BY SnapshotTable
     DEF Placed, Calm, Effects, Base, Resets,
         Lock, Read, Write, Do, Unlock
<1>2. ASSUME NEW pc \in 3..7
      PROVE  Kept("snapshot", 2, pc)
  BY SnapshotTable DEF Kept, Lock, Read, Write, Do, Unlock
<1>3. /\ P[2].arg = "mining" /\ P[2].mode = "write"
  BY SnapshotTable DEF Lock, Read, Write, Do, Unlock
<1>4. \A pc \in 1..7 : Guarded("snapshot", pc)
  BY <1>2, <1>3 DEF Guarded, Base, Resets
<1> QED
  BY <1>1, <1>4, SnapshotTable DEF InPlace

LEMMA RevertInPlace == InPlace("revert")
<1> DEFINE P == Program["revert"]
<1>1. \A pc \in 1..7 : Placed("revert", pc) /\ Calm("revert", pc)
  BY RevertTable
     DEF Placed, Calm, Effects, Base, Resets,
         Lock, Read, Write, Do, Unlock
<1>2. ASSUME NEW pc \in 3..7
      PROVE  Kept("revert", 2, pc)
  BY RevertTable DEF Kept, Lock, Read, Write, Do, Unlock
<1>3. /\ P[2].arg = "mining" /\ P[2].mode = "write"
  BY RevertTable DEF Lock, Read, Write, Do, Unlock
<1>4. \A pc \in 1..7 : Guarded("revert", pc)
  BY <1>2, <1>3 DEF Guarded, Base, Resets
<1> QED
  BY <1>1, <1>4, RevertTable DEF InPlace

LEMMA ReadInPlace == InPlace("read")
BY ReadTable
   DEF InPlace, Placed, Calm, Guarded, Effects, Resets,
       Lock, Read, See

LEMMA MetadataInPlace == InPlace("metadata")
BY MetadataTable
   DEF InPlace, Placed, Calm, Guarded, Effects, Resets,
       Lock, Read, See

LEMMA SendInPlace == InPlace("send")
BY SendTable
   DEF InPlace, Placed, Calm, Guarded, Effects, Resets,
       Lock, Read, Write, See, Unlock, Glance, Do

LEMMA SendSyncInPlace == InPlace("send_sync")
BY SendSyncTable
   DEF InPlace, Placed, Calm, Guarded, Effects, Resets,
       Lock, Read, Write, Glance, Do, Unlock

LEMMA MineInPlace == InPlace("mine")
BY MineTable
   DEF InPlace, Placed, Calm, Guarded, Effects, Resets,
       Lock, Read, Write, See

LEMMA ProduceInPlace == InPlace("produce")
BY ProduceTable
   DEF InPlace, Placed, Calm, Guarded, Effects, Resets,
       Lock, Write, See

LEMMA AllInPlace == \A kind \in Kinds : InPlace(kind)
BY KindsAre, ForkResetInPlace, MemoryResetInPlace, SetRpcUrlInPlace,
   RewindInPlace, SnapshotInPlace, RevertInPlace, ReadInPlace,
   MetadataInPlace, SendInPlace, SendSyncInPlace, MineInPlace,
   ProduceInPlace

----------------------------------------------------------------------------
(* Mutual exclusion *)

\* r has taken l, as its program says, and not dropped it.
Holds(r, l) ==
    /\ IsRunning(r)
    /\ \E k \in 1..(requests[r].pc - 1) :
          KeptBy(r, k) /\ Program[requests[r].kind][k].arg = l
HoldsWrite(r, l) ==
    /\ IsRunning(r)
    /\ \E k \in 1..(requests[r].pc - 1) :
          /\ KeptBy(r, k) /\ Program[requests[r].kind][k].arg = l
          /\ Program[requests[r].kind][k].mode = "write"

\* Between a handler's write lock and its release nobody else has the lock.
MutualExclusion ==
    \A l \in Locks : \A r, s \in Requests : HoldsWrite(r, l) /\ Holds(s, l) => r = s

LEMMA WriterAlone ==
    ASSUME NEW q \in Seq(Entries), NEW e, NEW x,
           Holding(q, e), e.mode = "write", Holding(q, x)
    PROVE  x = e
<1>0. Len(q) \in Nat
  OBVIOUS
<1>1. PICK i \in 1..Len(q) : q[i] = e /\ (i = 1 \/ \A j \in 1..i : q[j].mode = "read")
  BY DEF Holding
<1>2. i = 1
  <2>1. i \in 1..i
    BY <1>0
  <2> QED
    BY <1>1, <2>1
<1>3. PICK j \in 1..Len(q) : q[j] = x /\ (j = 1 \/ \A m \in 1..j : q[m].mode = "read")
  BY DEF Holding
<1>4. 1 \in 1..j
  BY <1>0
<1>5. j = 1
  BY <1>1, <1>2, <1>3, <1>4
<1> QED
  BY <1>1, <1>2, <1>3, <1>5

LEMMA Exclusive == LocksInv => MutualExclusion
<1> SUFFICES ASSUME LocksInv, NEW l \in Locks, NEW r \in Requests, NEW s \in Requests,
                    HoldsWrite(r, l), Holds(s, l)
             PROVE  r = s
  BY DEF MutualExclusion
<1>1. PICK k \in 1..(requests[r].pc - 1) :
         /\ KeptBy(r, k) /\ Program[requests[r].kind][k].arg = l
         /\ Program[requests[r].kind][k].mode = "write"
  BY DEF HoldsWrite
<1>2. PICK j \in 1..(requests[s].pc - 1) :
         KeptBy(s, j) /\ Program[requests[s].kind][j].arg = l
  BY DEF Holds
<1>3. Holding(queues[l], EntryAt(r, k)) /\ Holding(queues[l], EntryAt(s, j))
  BY <1>1, <1>2 DEF LocksInv, HoldInv, HoldsWrite, Holds
<1>4. queues[l] \in Seq(Entries)
  BY DEF LocksInv, QueuesType
<1>5. EntryAt(r, k).mode = "write"
  BY <1>1 DEF EntryAt
<1>6. EntryAt(s, j) = EntryAt(r, k)
  BY <1>3, <1>4, <1>5, WriterAlone
<1>7. EntryAt(s, j).who = s /\ EntryAt(r, k).who = r
  BY DEF EntryAt
<1> QED
  BY <1>6, <1>7

LEMMA WriteHolds ==
    ASSUME NEW r, NEW l, HoldsWrite(r, l)
    PROVE  Holds(r, l)
BY DEF HoldsWrite, Holds

LEMMA RunningInPlace ==
    ASSUME LocksInv, NEW r \in Requests, IsRunning(r)
    PROVE  /\ Placed(requests[r].kind, requests[r].pc)
           /\ Calm(requests[r].kind, requests[r].pc)
           /\ Guarded(requests[r].kind, requests[r].pc)
<1>1. /\ requests[r].kind \in Kinds
      /\ requests[r].pc \in 1..Len(Program[requests[r].kind])
  BY RunFacts DEF LocksInv
<1> QED
  BY <1>1, AllInPlace DEF InPlace

\* The locks of those who change the node, save or restore snapshots.
LEMMA GuardFacts ==
    ASSUME LocksInv, NEW r \in Requests
    PROVE  /\ requests[r].kind \in Resets /\ Stage(r) >= 1 =>
                 HoldsWrite(r, "lifecycle") /\ HoldsWrite(r, "mining")
           /\ requests[r].kind \in {"snapshot", "revert"} /\ requests[r].pc >= 3 =>
                 HoldsWrite(r, "mining")
           /\ Busy(r) \/ Copied(r) => HoldsWrite(r, "mining")
<1>1. CASE IsRunning(r)
  <2>1. /\ Guarded(requests[r].kind, requests[r].pc)
        /\ requests[r].pc \in Nat \ {0}
    BY <1>1, RunningInPlace, RunFacts DEF LocksInv
  <2>2. requests[r].kind \in Resets /\ Stage(r) >= 1 =>
           HoldsWrite(r, "lifecycle") /\ HoldsWrite(r, "mining")
    BY <1>1, <2>1 DEF Guarded, HoldsWrite, KeptBy, Stage
  <2>3. requests[r].kind \in {"snapshot", "revert"} /\ requests[r].pc >= 3 =>
           HoldsWrite(r, "mining")
    BY <1>1, <2>1 DEF Guarded, HoldsWrite, KeptBy
  <2>4. Commits(r) => requests[r].kind \in Resets /\ Stage(r) >= 1
    BY DEF Commits
  <2>5. Saves(r) \/ Restores(r) \/ Copied(r) =>
           requests[r].kind \in {"snapshot", "revert"} /\ requests[r].pc >= 3
    BY <2>1 DEF Saves, Restores, Copied
  <2> QED
    BY <2>2, <2>3, <2>4, <2>5 DEF Busy
<1>2. CASE ~IsRunning(r)
  BY <1>2 DEF IsRunning, Busy, Commits, Saves, Restores, Copied, Resets
<1> QED
  BY <1>1, <1>2

\* Whoever holds the mining mutex is alone in changing what it guards.
LEMMA Alone ==
    ASSUME LocksInv, NEW r \in Requests, HoldsWrite(r, "mining"),
           NEW s \in Requests \ {r}
    PROVE  ~Busy(s) /\ ~Copied(s) /\ ~Commits(s)
<1>1. "mining" \in Locks
  BY DEF Locks
<1>2. ~HoldsWrite(s, "mining")
  BY <1>1, WriteHolds, Exclusive DEF MutualExclusion
<1> QED
  BY <1>2, GuardFacts DEF Busy

\* A request that has looked at the node keeps resets away.
LEMMA Looks ==
    ASSUME LocksInv, NEW s \in Requests,
           requests[s].kind \in Kinds \ Unshielded, requests[s].pc > 1
    PROVE  Holds(s, "lifecycle") \/ Holds(s, "mining")
<1>1. IsRunning(s)
  BY NotIdle DEF IsRunning
<1>2. /\ Sound(requests[s].kind)
      /\ requests[s].pc \in 1..Len(Program[requests[s].kind])
  BY <1>1, RunFacts DEF LocksInv
<1>3. /\ Kept(requests[s].kind, 1, requests[s].pc)
      /\ Program[requests[s].kind][1].arg \in {"lifecycle", "mining"}
  BY <1>2 DEF Sound, Shielded
<1>4. 1 \in 1..(requests[s].pc - 1)
  BY <1>3 DEF Kept
<1> QED
  BY <1>1, <1>3, <1>4 DEF Holds, KeptBy

LEMMA NoReset ==
    ASSUME LocksInv, NEW r \in Requests, requests[r].kind \in Resets, Stage(r) >= 1,
           NEW s \in Requests, requests[s].kind \in Kinds \ Unshielded
    PROVE  ~(requests[s].pc > 1)
<1> SUFFICES ASSUME requests[s].pc > 1 PROVE FALSE
  OBVIOUS
<1>1. Holds(s, "lifecycle") \/ Holds(s, "mining")
  BY Looks
<1>2. HoldsWrite(r, "lifecycle") /\ HoldsWrite(r, "mining")
  BY GuardFacts
<1>3. r = s
  BY <1>1, <1>2, Exclusive DEF MutualExclusion, Locks
<1> QED
  BY <1>3 DEF Unshielded

----------------------------------------------------------------------------
(* The node and its snapshots *)

\* A request is as busy after a step as it was before it.
Alike(s) ==
    /\ Commits(s)' <=> Commits(s)
    /\ Saves(s)' <=> Saves(s)
    /\ Restores(s)' <=> Restores(s)
    /\ Commits(s) => \A n \in {2, 3, 6, 7} : (Stage(s)' > n <=> Stage(s) > n)
    /\ Saves(s) \/ Restores(s) => requests'[s].id = requests[s].id
    /\ Copied(s)' => \/ Copied(s) /\ requests'[s].copy = requests[s].copy
                     \/ requests'[s].copy = node.db

LEMMA SameAlike ==
    ASSUME NEW s, requests'[s] = requests[s]
    PROVE  Alike(s)
BY DEF Alike, Commits, Saves, Restores, Copied, Stage

LEMMA AlikeKeeps ==
    ASSUME NodeInv, PairInv, UNCHANGED <<node, next, states, pools>>,
           \A s \in Requests : Alike(s)
    PROVE  NodeInv' /\ PairInv'
<1>1. /\ \A s \in Requests : (Commits(s)' <=> Commits(s))
      /\ \A s \in Requests : (Busy(s)' <=> Busy(s))
  BY DEF Alike, Busy
<1>2. NodeInv'
  <2>1. (\A s \in Requests : ~Commits(s)') => Uniform'
    BY <1>1 DEF NodeInv, Uniform
  <2>2. ASSUME NEW s \in Requests, Commits(s)'
        PROVE  /\ node.db = node.chain + Ahead(2, Stage(s)')
               /\ node.db = node.instance + Ahead(6, Stage(s)')
               /\ node.db = node.pool + Ahead(7, Stage(s)')
    BY <1>1, <2>2 DEF NodeInv, Alike, Ahead
  <2> QED
    BY <2>1, <2>2 DEF NodeInv
<1>3. PairInv'
  <2>1. /\ (\A s \in Requests : ~Busy(s)') => DOMAIN pools' = states'
        /\ (\A s \in Requests : ~Commits(s)') => Bounded' /\ ThisPool'
    BY <1>1 DEF PairInv, Bounded, ThisPool
  <2>2. ASSUME NEW s \in Requests
        PROVE  /\ Commits(s)' => next' = 0
               /\ Commits(s)' /\ Stage(s)' > 3 => states' = {}
               /\ Saves(s)' => /\ states' = DOMAIN pools' \cup {requests'[s].id}
                               /\ requests'[s].id = next'
                               /\ next' \notin DOMAIN pools'
               /\ Restores(s)' => /\ requests'[s].id \in DOMAIN pools'
                                  /\ states' = {i \in DOMAIN pools' : i < requests'[s].id}
               /\ Copied(s)' => requests'[s].copy = node'.db
    <3>1. Alike(s)
      OBVIOUS
    <3>2. /\ Commits(s)' => next' = 0
          /\ Commits(s)' /\ Stage(s)' > 3 => states' = {}
      BY <3>1 DEF PairInv, Alike
    <3>3. Saves(s)' => /\ states' = DOMAIN pools' \cup {requests'[s].id}
                       /\ requests'[s].id = next'
                       /\ next' \notin DOMAIN pools'
      BY <3>1 DEF PairInv, Alike
    <3>4. Restores(s)' => /\ requests'[s].id \in DOMAIN pools'
                          /\ states' = {i \in DOMAIN pools' : i < requests'[s].id}
      BY <3>1 DEF PairInv, Alike
    <3>5. Copied(s)' => requests'[s].copy = node'.db
      BY <3>1 DEF PairInv, Alike
    <3> QED
      BY <3>2, <3>3, <3>4, <3>5
  <2> QED
    BY <2>1, <2>2 DEF PairInv
<1> QED
  BY <1>2, <1>3

\* After a step of the one who holds the mining mutex only it can be busy.
LEMMA OnlyOne ==
    ASSUME LocksInv, NEW r \in Requests, HoldsWrite(r, "mining"),
           \A s \in Requests \ {r} : requests'[s] = requests[s]
    PROVE  \A s \in Requests \ {r} : /\ ~Busy(s) /\ ~Copied(s) /\ ~Commits(s)
                                     /\ ~Saves(s) /\ ~Restores(s)
                                     /\ ~Busy(s)' /\ ~Copied(s)' /\ ~Commits(s)'
                                     /\ ~Saves(s)' /\ ~Restores(s)'
<1> SUFFICES ASSUME NEW s \in Requests \ {r}
             PROVE  /\ ~Busy(s) /\ ~Copied(s) /\ ~Commits(s)
                    /\ ~Saves(s) /\ ~Restores(s)
                    /\ ~Busy(s)' /\ ~Copied(s)' /\ ~Commits(s)'
                    /\ ~Saves(s)' /\ ~Restores(s)'
  OBVIOUS
<1>1. ~Busy(s) /\ ~Copied(s)
  BY Alone
<1>2. ~Commits(s) /\ ~Saves(s) /\ ~Restores(s)
  BY <1>1 DEF Busy
<1>3. requests'[s] = requests[s]
  OBVIOUS
<1>4. ~Commits(s)' /\ ~Saves(s)' /\ ~Restores(s)' /\ ~Copied(s)'
  BY <1>1, <1>2, <1>3 DEF Commits, Stage, Saves, Restores, Copied
<1> QED
  BY <1>1, <1>2, <1>4 DEF Busy

\* Then the invariants are about it alone.
LEMMA AloneKeeps ==
    ASSUME NEW r \in Requests,
           \A s \in Requests \ {r} : ~Busy(s)' /\ ~Copied(s)',
           IF Commits(r)'
           THEN /\ node'.db = node'.chain + Ahead(2, Stage(r)')
                /\ node'.db = node'.instance + Ahead(6, Stage(r)')
                /\ node'.db = node'.pool + Ahead(7, Stage(r)')
                /\ next' = 0 /\ (Stage(r)' > 3 => states' = {})
           ELSE Uniform' /\ Bounded' /\ ThisPool',
           ~Busy(r)' => DOMAIN pools' = states',
           Saves(r)' => /\ states' = DOMAIN pools' \cup {requests'[r].id}
                        /\ requests'[r].id = next' /\ next' \notin DOMAIN pools',
           Restores(r)' => /\ requests'[r].id \in DOMAIN pools'
                           /\ states' = {i \in DOMAIN pools' : i < requests'[r].id},
           Copied(r)' => requests'[r].copy = node'.db
    PROVE  NodeInv' /\ PairInv'
<1>1. \A s \in Requests \ {r} : /\ ~Commits(s)' /\ ~Saves(s)' /\ ~Restores(s)'
                                /\ ~Copied(s)' /\ ~Busy(s)'
  BY DEF Busy
<1>2. NodeInv'
  BY <1>1 DEF NodeInv
<1>3. PairInv'
  <2>1. /\ (\A s \in Requests : ~Busy(s)') => DOMAIN pools' = states'
        /\ (\A s \in Requests : ~Commits(s)') => Bounded' /\ ThisPool'
    OBVIOUS
  <2>2. ASSUME NEW s \in Requests
        PROVE  /\ Commits(s)' => next' = 0
               /\ Commits(s)' /\ Stage(s)' > 3 => states' = {}
               /\ Saves(s)' => /\ states' = DOMAIN pools' \cup {requests'[s].id}
                               /\ requests'[s].id = next'
                               /\ next' \notin DOMAIN pools'
               /\ Restores(s)' => /\ requests'[s].id \in DOMAIN pools'
                                  /\ states' = {i \in DOMAIN pools' : i < requests'[s].id}
               /\ Copied(s)' => requests'[s].copy = node'.db
    <3>1. CASE s # r
      BY <1>1, <3>1
    <3>2. CASE s = r
      BY <3>2
    <3> QED
      BY <3>1, <3>2
  <2> QED
    BY <2>1, <2>2 DEF PairInv
<1> QED
  BY <1>2, <1>3

IdleNotBusy(s) ==
    /\ ~Commits(s)' /\ ~Saves(s)' /\ ~Restores(s)' /\ ~Copied(s)' /\ ~Busy(s)'

LEMMA EndedIsIdle ==
    ASSUME NEW s, requests'[s] = Idle
    PROVE  IdleNotBusy(s)
BY DEF IdleNotBusy, Busy, Commits, Saves, Restores, Copied, Resets, Idle

\* An instruction that is no effect leaves its request as busy as it was.
LEMMA CalmAlike ==
    ASSUME LocksInv, NEW r \in Requests, IsRunning(r), ~At(r, "publish"),
           ~(At(r, "do") /\ Argument(r) \in Effects),
           NEW req, NEW q, GoesOnBy(r, req, q),
           req.id = requests[r].id, req.copy = requests[r].copy
    PROVE  Alike(r) /\ \A s \in Requests \ {r} : requests'[s] = requests[s]
<1>0. PICK kind, pc, len : /\ kind = requests[r].kind /\ pc = requests[r].pc
                           /\ len = Len(Program[kind])
  OBVIOUS
<1>1. pc \in Nat \ {0} /\ len \in Nat
  BY <1>0, RunFacts DEF LocksInv
<1>2. /\ kind \in Resets => pc < len /\ (pc - Base(kind) <= 0 \/ pc - Base(kind) \in {4, 5})
      /\ kind = "snapshot" => pc < len /\ pc \in {1, 2, 4, 6}
      /\ kind = "revert" => pc < len /\ pc \in {1, 2, 3, 4, 6}
  BY <1>0, RunningInPlace DEF Calm, At, Argument, Instruction
<1>3. /\ \A s \in Requests \ {r} : requests'[s] = requests[s]
      /\ \/ /\ requests'[r].kind = kind /\ requests'[r].pc = pc + 1
            /\ requests'[r].id = requests[r].id
            /\ requests'[r].copy = requests[r].copy
         \/ pc = len /\ requests'[r] = Idle
  BY <1>0, ProceedFacts DEF GoesOnBy, LocksInv
<1>4. Base(kind) \in Int
  BY DEF Base
<1>5. CASE /\ requests'[r].kind = kind /\ requests'[r].pc = pc + 1
           /\ requests'[r].id = requests[r].id
           /\ requests'[r].copy = requests[r].copy
  <2>1. CASE kind \in Resets
    <3>0. PICK b \in Int : b = Base(kind)
      BY <1>4
    <3>1. Stage(r) = pc - b /\ Stage(r)' = (pc + 1) - b
      BY <1>0, <1>5, <3>0 DEF Stage, Base
    <3>2. /\ Commits(r)' <=> Commits(r)
          /\ Commits(r) => \A n \in {2, 3, 6, 7} : (Stage(r)' > n <=> Stage(r) > n)
      <4>1. pc - b <= 0 \/ pc - b \in {4, 5}
        BY <1>2, <2>1, <3>0
      <4>2. requests[r].kind \in Resets /\ requests'[r].kind \in Resets
        BY <1>0, <1>5, <2>1
      <4>3. /\ pc - b \in 2..8 <=> (pc + 1) - b \in 2..8
            /\ pc - b \in 2..8 =>
                  \A n \in {2, 3, 6, 7} : ((pc + 1) - b > n <=> pc - b > n)
        BY <1>1, <4>1
      <4> QED
        BY <3>1, <4>2, <4>3 DEF Commits
    <3>3. /\ ~Saves(r) /\ ~Restores(r) /\ ~Copied(r)
          /\ ~Saves(r)' /\ ~Restores(r)' /\ ~Copied(r)'
      BY <1>0, <1>5, <2>1 DEF Saves, Restores, Copied, Resets
    <3> QED
      BY <1>3, <3>2, <3>3 DEF Alike
  <2>2. CASE kind = "snapshot"
    BY <1>0, <1>1, <1>2, <1>3, <1>5, <2>2
       DEF Alike, Commits, Saves, Restores, Copied, Resets
  <2>3. CASE kind = "revert"
    BY <1>0, <1>1, <1>2, <1>3, <1>5, <2>3
       DEF Alike, Commits, Saves, Restores, Copied, Resets
  <2>4. CASE kind \notin Resets /\ kind \notin {"snapshot", "revert"}
    BY <1>0, <1>3, <1>5, <2>4 DEF Alike, Commits, Saves, Restores, Copied
  <2> QED
    BY <2>1, <2>2, <2>3, <2>4
<1>6. CASE pc = len /\ requests'[r] = Idle
  <2>1. kind \notin Resets /\ kind \notin {"snapshot", "revert"}
    BY <1>1, <1>2, <1>6
  <2>2. ~Commits(r) /\ ~Saves(r) /\ ~Restores(r)
    BY <1>0, <2>1 DEF Commits, Saves, Restores
  <2> QED
    BY <1>3, <1>6, <2>2, EndedIsIdle DEF Alike, IdleNotBusy
<1> QED
  BY <1>3, <1>5, <1>6

\* A request fails only while it has changed nothing.
LEMMA FailAlike ==
    ASSUME LocksInv, NEW r \in Requests, IsRunning(r), End(r),
           DoesNow(r, "may_fail") \/ DoesNow(r, "revert_state")
    PROVE  Alike(r) /\ \A s \in Requests \ {r} : requests'[s] = requests[s]
<1>1. requests'[r] = Idle /\ \A s \in Requests \ {r} : requests'[s] = requests[s]
  BY EndFacts DEF LocksInv
<1>2. PICK kind, pc : kind = requests[r].kind /\ pc = requests[r].pc
  OBVIOUS
<1>3. /\ kind \in Resets => pc - Base(kind) <= 0
      /\ kind \in {"snapshot", "revert"} => pc < 6
  <2>1. PICK x : x = Program[kind][pc]
    OBVIOUS
  <2>2. x.op = "do" /\ x.arg \in {"may_fail", "revert_state"}
    BY <1>2, <2>1 DEF DoesNow, At, Argument, Instruction
  <2>3. /\ x.op = "do" /\ x.arg = "revert_state" => kind = "revert" /\ pc = 5
        /\ x.op = "do" /\ x.arg = "may_fail" =>
              /\ kind \in Resets => pc - Base(kind) <= 0
              /\ kind \in {"snapshot", "revert"} => pc < 4
    BY <1>2, <2>1, RunningInPlace DEF Placed
  <2>4. pc \in Nat
    BY <1>2, RunFacts DEF LocksInv
  <2> QED
    BY <2>2, <2>3, <2>4 DEF Resets
<1>4. ~Commits(r) /\ ~Saves(r) /\ ~Restores(r)
  <2>1. pc \in Nat /\ Base(kind) \in Int
    BY <1>2, RunFacts DEF LocksInv, Base
  <2> QED
    BY <1>2, <1>3, <2>1 DEF Commits, Stage, Saves, Restores
<1> QED
  BY <1>1, <1>4, EndedIsIdle DEF Alike, IdleNotBusy

\* No request has begun to publish, so that the node is of one incarnation.
LEMMA NobodyCommits ==
    ASSUME LocksInv, NodeInv, PairInv, NEW r \in Requests, HoldsWrite(r, "mining"),
           ~Commits(r)
    PROVE  Uniform /\ Bounded /\ ThisPool
<1>1. \A s \in Requests : ~Commits(s)
  BY Alone
<1> QED
  BY <1>1 DEF NodeInv, PairInv

LEMMA NobodyBusy ==
    ASSUME LocksInv, PairInv, NEW r \in Requests, HoldsWrite(r, "mining"), ~Busy(r)
    PROVE  DOMAIN pools = states
<1>1. \A s \in Requests : ~Busy(s)
  BY Alone
<1> QED
  BY <1>1 DEF PairInv

LEMMA CopyPoolKeeps ==
    ASSUME LocksInv, StoreType, NodeInv, PairInv, NEW r \in Requests, IsRunning(r),
           CopyPool(r)
    PROVE  NodeInv' /\ PairInv'
<1>1. requests[r].kind = "snapshot" /\ requests[r].pc = 3
  BY RunningInPlace DEF CopyPool, DoesNow, At, Argument, Instruction, Placed
<1>2. HoldsWrite(r, "mining")
  BY <1>1, GuardFacts
<1>3. /\ ~Commits(r) /\ ~Saves(r) /\ ~Restores(r)
  BY <1>1 DEF Commits, Saves, Restores, Resets
<1>4. node.pool = node.db
  BY <1>2, <1>3, NobodyCommits DEF Uniform, Parts
<1>5. PICK req : GoesOnBy(r, req, queues) /\ req.copy = node.pool
  BY EffectShapes DEF LocksInv
<1>6. Len(Program["snapshot"]) = 7
  BY SnapshotTable
<1>7. /\ \A s \in Requests \ {r} : requests'[s] = requests[s]
      /\ requests'[r].kind = "snapshot" /\ requests'[r].pc = 4
      /\ requests'[r].copy = req.copy
  <2>1. /\ req \in RequestStates /\ Proceed(r, req, queues)
        /\ req.kind = requests[r].kind /\ req.pc = requests[r].pc
    BY <1>5 DEF GoesOnBy
  <2>2. /\ \A s \in Requests \ {r} : requests'[s] = requests[s]
        /\ \/ /\ requests'[r].kind = requests[r].kind
              /\ requests'[r].pc = requests[r].pc + 1
              /\ requests'[r].copy = req.copy
           \/ requests[r].pc = Len(Program[requests[r].kind])
    BY <2>1, ProceedFacts DEF LocksInv
  <2> QED
    BY <1>1, <1>6, <2>2
<1>8. Alike(r)
  BY <1>3, <1>4, <1>5, <1>7 DEF Alike, Commits, Saves, Restores, Resets
<1>9. UNCHANGED <<node, next, states, pools>>
  BY DEF CopyPool
<1> QED
  BY <1>7, <1>8, <1>9, SameAlike, AlikeKeeps

\* The steps that change neither the node nor its snapshots.
LEMMA CalmKeeps ==
    ASSUME LocksInv, StoreType, NodeInv, PairInv, NEW r \in Requests, IsRunning(r),
           \/ Wait(r) \/ Acquire(r) \/ Drop(r) \/ Observe(r) \/ Outcome(r)
           \/ AwaitInclusion(r) \/ (RevertState(r) /\ End(r) /\ UNCHANGED states)
    PROVE  NodeInv' /\ PairInv'
<1>0. UNCHANGED <<node, next, states, pools>>
  BY DEF Wait, Acquire, Drop, Observe, Outcome, AwaitInclusion, RevertState
<1> SUFFICES Alike(r) /\ \A s \in Requests \ {r} : requests'[s] = requests[s]
  BY <1>0, SameAlike, AlikeKeeps
<1>1. CASE Wait(r)
  BY <1>1, SameAlike DEF Wait
<1>2. CASE Acquire(r)
  <2>1. PICK q : GoesOnBy(r, requests[r], q)
    BY <1>2, AcquireShape DEF LocksInv
  <2>2. ~At(r, "publish") /\ ~At(r, "do")
    BY <1>2 DEF Acquire, At
  <2> QED
    BY <2>1, <2>2, CalmAlike
<1>3. CASE Drop(r)
  <2>1. PICK q : GoesOnBy(r, requests[r], q)
    BY <1>3, DropShape DEF LocksInv
  <2>2. ~At(r, "publish") /\ ~At(r, "do")
    BY <1>3 DEF Drop, At
  <2> QED
    BY <2>1, <2>2, CalmAlike
<1>4. CASE Observe(r)
  <2>1. PICK req : /\ GoesOnBy(r, req, queues)
                   /\ req.id = requests[r].id /\ req.copy = requests[r].copy
    BY <1>4, EffectShapes DEF LocksInv
  <2>2. ~At(r, "publish") /\ ~At(r, "do")
    BY <1>4 DEF Observe, At
  <2> QED
    BY <2>1, <2>2, CalmAlike
<1>5. CASE (Outcome(r) \/ AwaitInclusion(r)) /\ Continue(r)
  <2>1. At(r, "do") /\ Argument(r) \in {"may_fail", "await_inclusion"}
    BY <1>5 DEF Outcome, AwaitInclusion, DoesNow
  <2>2. GoesOnBy(r, requests[r], queues)
    BY <1>5, <2>1, EffectShapes DEF LocksInv
  <2>3. ~At(r, "publish") /\ Argument(r) \notin Effects
    BY <2>1 DEF At, Effects
  <2> QED
    BY <2>2, <2>3, CalmAlike
<1>6. CASE (Outcome(r) \/ RevertState(r)) /\ End(r)
  BY <1>6, FailAlike DEF Outcome, RevertState
<1> QED
  BY <1>1, <1>2, <1>3, <1>4, <1>5, <1>6 DEF Outcome, AwaitInclusion

LEMMA ResetLength ==
    ASSUME NEW kind \in Resets
    PROVE  Len(Program[kind]) = Base(kind) + 8
<1>1. CASE kind = "fork_reset"
  BY <1>1, ForkResetTable DEF Base
<1>2. CASE kind = "memory_reset"
  BY <1>2, MemoryResetTable DEF Base
<1> QED
  BY <1>1, <1>2 DEF Resets

\* A reset that publishes, or drops snapshots, goes on to its next stage.
LEMMA ResetGoesOn ==
    ASSUME LocksInv, StoreType, NEW r \in Requests, IsRunning(r),
           requests[r].kind \in Resets, NEW n \in 1..8, Stage(r) = n,
           At(r, "publish") \/ At(r, "do"), Continue(r)
    PROVE  /\ \A s \in Requests \ {r} : requests'[s] = requests[s]
           /\ IF n = 8 THEN IdleNotBusy(r)
              ELSE /\ Commits(r)' /\ Stage(r)' = n + 1
                   /\ ~Saves(r)' /\ ~Restores(r)' /\ ~Copied(r)' /\ Busy(r)'
           /\ HoldsWrite(r, "mining") /\ HoldsWrite(r, "lifecycle")
           /\ \A s \in Requests \ {r} : ~Busy(s)' /\ ~Copied(s)'
           /\ n # 1 => Commits(r)
<1>1. GoesOnBy(r, requests[r], queues)
  BY EffectShapes DEF LocksInv
<1>2. PICK kind, pc, b : /\ kind = requests[r].kind /\ pc = requests[r].pc
                         /\ b = Base(kind)
  OBVIOUS
<1>3. pc \in Nat \ {0} /\ b \in Int /\ pc - b = n /\ Len(Program[kind]) = b + 8
  BY <1>2, RunFacts, ResetLength DEF LocksInv, Base, Stage
<1>4. requests[r] \in RequestStates
  BY DEF LocksInv, RequestsType
<1>5. /\ \A s \in Requests \ {r} : requests'[s] = requests[s]
      /\ \/ /\ pc < Len(Program[kind])
            /\ requests'[r].kind = kind /\ requests'[r].pc = pc + 1
         \/ pc = Len(Program[kind]) /\ requests'[r] = Idle
  BY <1>1, <1>2, <1>4, ProceedFacts DEF GoesOnBy, LocksInv
<1>6. HoldsWrite(r, "mining") /\ HoldsWrite(r, "lifecycle")
  BY GuardFacts
<1>7. \A s \in Requests \ {r} : ~Busy(s)' /\ ~Copied(s)'
  BY <1>5, <1>6, OnlyOne
<1>8. CASE n = 8
  <2>1. requests'[r] = Idle
    BY <1>3, <1>5, <1>8
  <2> QED
    BY <1>5, <1>6, <1>7, <1>8, <2>1, EndedIsIdle DEF Commits
<1>9. CASE n # 8
  <2>1. requests'[r].kind = kind /\ requests'[r].pc = pc + 1
    BY <1>3, <1>5, <1>9
  <2>2. Stage(r)' = n + 1 /\ n + 1 \in 2..8
    <3>1. Stage(r)' = (pc + 1) - b
      BY <1>2, <2>1 DEF Stage, Base
    <3> QED
      BY <1>3, <1>9, <3>1
  <2>3. Commits(r)' /\ ~Saves(r)' /\ ~Restores(r)' /\ ~Copied(r)'
    BY <1>2, <2>1, <2>2 DEF Commits, Saves, Restores, Copied, Resets
  <2> QED
    BY <1>5, <1>6, <1>7, <1>9, <2>2, <2>3 DEF Busy, Commits
<1> QED
  BY <1>8, <1>9

LEMMA PublishPlaces ==
    ASSUME LocksInv, NEW r \in Requests, IsRunning(r), At(r, "publish")
    PROVE  /\ requests[r].kind \in Resets
           /\ \/ Argument(r) = "db" /\ Stage(r) = 1
              \/ Argument(r) = "chain" /\ Stage(r) = 2
              \/ Argument(r) = "instance" /\ Stage(r) = 6
              \/ Argument(r) = "pool" /\ Stage(r) = 7
<1>1. PICK x : x = Program[requests[r].kind][requests[r].pc]
  OBVIOUS
<1>2. x.op = "publish" /\ Argument(r) = x.arg
  BY <1>1 DEF At, Argument, Instruction
<1> QED
  BY <1>1, <1>2, RunningInPlace DEF Placed, Stage

LEMMA PublishKeeps ==
    ASSUME LocksInv, StoreType, NodeInv, PairInv, NEW r \in Requests, IsRunning(r),
           PublishPart(r)
    PROVE  NodeInv' /\ PairInv'
<1>1. /\ At(r, "publish") /\ Continue(r)
      /\ node' = [node EXCEPT ![Argument(r)] = node[Argument(r)] + 1]
      /\ next' = IF Argument(r) = "db" THEN 0 ELSE next
      /\ states' = states /\ pools' = pools
  BY DEF PublishPart
<1>2. /\ requests[r].kind \in Resets
      /\ \/ Argument(r) = "db" /\ Stage(r) = 1
         \/ Argument(r) = "chain" /\ Stage(r) = 2
         \/ Argument(r) = "instance" /\ Stage(r) = 6
         \/ Argument(r) = "pool" /\ Stage(r) = 7
  BY <1>1, PublishPlaces
<1>3. PICK n \in {1, 2, 6, 7} : Stage(r) = n
  BY <1>2
<1>4. /\ Commits(r)' /\ Stage(r)' = n + 1
      /\ ~Saves(r)' /\ ~Restores(r)' /\ ~Copied(r)' /\ Busy(r)'
      /\ HoldsWrite(r, "mining")
      /\ \A s \in Requests \ {r} : ~Busy(s)' /\ ~Copied(s)'
      /\ n # 1 => Commits(r)
  <2>1. n \in 1..8 /\ n # 8
    BY <1>3
  <2> QED
    BY <1>1, <1>2, <1>3, <2>1, ResetGoesOn
<1>5. /\ node.db \in Nat /\ node.chain \in Nat /\ node.instance \in Nat
      /\ node.pool \in Nat /\ node \in [Parts -> Nat]
  BY DEF StoreType, NodeType, Parts
<1>6. n = 1 => node.chain = node.db /\ node.instance = node.db /\ node.pool = node.db
  <2>1. n = 1 => ~Commits(r)
    BY <1>3 DEF Commits
  <2> QED
    BY <1>4, <2>1, NobodyCommits DEF Uniform, Parts
<1>7. n # 1 => /\ node.db = node.chain + Ahead(2, n)
               /\ node.db = node.instance + Ahead(6, n)
               /\ node.db = node.pool + Ahead(7, n)
               /\ next = 0 /\ (n > 3 => states = {})
  BY <1>3, <1>4 DEF NodeInv, PairInv
<1>8. /\ node'.db = node'.chain + Ahead(2, n + 1)
      /\ node'.db = node'.instance + Ahead(6, n + 1)
      /\ node'.db = node'.pool + Ahead(7, n + 1)
  <2>1. CASE n = 1
    BY <1>1, <1>2, <1>3, <1>5, <1>6, <2>1 DEF Parts, Ahead
  <2>2. CASE n = 2
    BY <1>1, <1>2, <1>3, <1>5, <1>7, <2>2 DEF Parts, Ahead
  <2>3. CASE n = 6
    BY <1>1, <1>2, <1>3, <1>5, <1>7, <2>3 DEF Parts, Ahead
  <2>4. CASE n = 7
    BY <1>1, <1>2, <1>3, <1>5, <1>7, <2>4 DEF Parts, Ahead
  <2> QED
    BY <2>1, <2>2, <2>3, <2>4
<1>9. next' = 0 /\ (n + 1 > 3 => states' = {})
  BY <1>1, <1>2, <1>3, <1>7
<1> QED
  BY <1>4, <1>8, <1>9, AloneKeeps

LEMMA DropStatesKeeps ==
    ASSUME LocksInv, StoreType, NodeInv, PairInv, NEW r \in Requests, IsRunning(r),
           DropStates(r)
    PROVE  NodeInv' /\ PairInv'
<1>1. /\ At(r, "do") /\ Argument(r) = "drop_states" /\ Continue(r)
      /\ states' = {} /\ node' = node /\ next' = next /\ pools' = pools
  BY DEF DropStates, DoesNow
<1>2. requests[r].kind \in Resets /\ Stage(r) = 3
  BY <1>1, RunningInPlace DEF Placed, At, Argument, Instruction, Stage
<1>3. /\ Commits(r)' /\ Stage(r)' = 4 /\ Commits(r)
      /\ ~Saves(r)' /\ ~Restores(r)' /\ ~Copied(r)' /\ Busy(r)'
      /\ \A s \in Requests \ {r} : ~Busy(s)' /\ ~Copied(s)'
  <2>1. 3 \in 1..8 /\ 3 # 8 /\ 3 # 1 /\ 3 + 1 = 4
    OBVIOUS
  <2> QED
    BY <1>1, <1>2, <2>1, ResetGoesOn
<1>4. /\ node.db = node.chain + Ahead(2, 4)
      /\ node.db = node.instance + Ahead(6, 4)
      /\ node.db = node.pool + Ahead(7, 4) /\ next = 0
  BY <1>2, <1>3 DEF NodeInv, PairInv, Ahead
<1> QED
  BY <1>1, <1>3, <1>4, AloneKeeps

LEMMA DropPoolsKeeps ==
    ASSUME LocksInv, StoreType, NodeInv, PairInv, NEW r \in Requests, IsRunning(r),
           DropPools(r)
    PROVE  NodeInv' /\ PairInv'
<1>1. /\ At(r, "do") /\ Argument(r) = "drop_pools" /\ Continue(r)
      /\ pools' = <<>> /\ node' = node /\ next' = next /\ states' = states
  BY DEF DropPools, DoesNow
<1>2. requests[r].kind \in Resets /\ Stage(r) = 8
  BY <1>1, RunningInPlace DEF Placed, At, Argument, Instruction, Stage
<1>3. /\ IdleNotBusy(r) /\ Commits(r)
      /\ \A s \in Requests \ {r} : ~Busy(s)' /\ ~Copied(s)'
  <2>1. 8 \in 1..8 /\ 8 # 1
    OBVIOUS
  <2> QED
    BY <1>1, <1>2, <2>1, ResetGoesOn
<1>4. /\ node.db = node.chain + Ahead(2, 8)
      /\ node.db = node.instance + Ahead(6, 8)
      /\ node.db = node.pool + Ahead(7, 8) /\ next = 0 /\ states = {}
  BY <1>2, <1>3 DEF NodeInv, PairInv
<1>5. Uniform'
  BY <1>1, <1>4 DEF Uniform, Ahead, Parts, StoreType, NodeType
<1>6. DOMAIN pools' = {}
  BY <1>1
<1>7. Bounded' /\ ThisPool' /\ DOMAIN pools' = states'
  BY <1>1, <1>4, <1>6 DEF Bounded, ThisPool
<1> QED
  BY <1>3, <1>5, <1>7, AloneKeeps DEF IdleNotBusy

\* A snapshot or a revert that changes something goes on, or is over.
LEMMA SnapshotGoesOn ==
    ASSUME LocksInv, NEW r \in Requests, IsRunning(r),
           requests[r].kind \in {"snapshot", "revert"}, NEW n \in {5, 7},
           requests[r].pc = n, NEW req, GoesOnBy(r, req, queues)
    PROVE  /\ \A s \in Requests \ {r} : requests'[s] = requests[s]
           /\ IF n = 7 THEN IdleNotBusy(r)
              ELSE /\ requests'[r].kind = requests[r].kind /\ requests'[r].pc = 6
                   /\ requests'[r].id = req.id /\ requests'[r].copy = req.copy
                   /\ ~Commits(r)' /\ Busy(r)'
           /\ HoldsWrite(r, "mining") /\ ~Commits(r)
           /\ \A s \in Requests \ {r} : ~Busy(s)' /\ ~Copied(s)'
<1>1. Len(Program[requests[r].kind]) = 7
  <2>1. CASE requests[r].kind = "snapshot"
    BY <2>1, SnapshotTable
  <2>2. CASE requests[r].kind = "revert"
    BY <2>2, RevertTable
  <2> QED
    BY <2>1, <2>2
<1>2. /\ req \in RequestStates /\ Proceed(r, req, queues)
      /\ req.kind = requests[r].kind /\ req.pc = requests[r].pc
  BY DEF GoesOnBy
<1>3. /\ \A s \in Requests \ {r} : requests'[s] = requests[s]
      /\ \/ /\ requests[r].pc < Len(Program[requests[r].kind])
            /\ requests'[r].kind = requests[r].kind
            /\ requests'[r].pc = requests[r].pc + 1
            /\ requests'[r].id = req.id /\ requests'[r].copy = req.copy
         \/ /\ requests[r].pc = Len(Program[requests[r].kind])
            /\ requests'[r] = Idle
  BY <1>2, ProceedFacts DEF LocksInv
<1>4. HoldsWrite(r, "mining") /\ ~Commits(r)
  BY GuardFacts DEF Commits, Resets
<1>5. \A s \in Requests \ {r} : ~Busy(s)' /\ ~Copied(s)'
  BY <1>3, <1>4, OnlyOne
<1>6. CASE n = 7
  <2>1. requests'[r] = Idle
    BY <1>1, <1>3, <1>6
  <2> QED
    BY <1>3, <1>4, <1>5, <1>6, <2>1, EndedIsIdle
<1>7. CASE n = 5
  <2>1. /\ requests'[r].kind = requests[r].kind /\ requests'[r].pc = 6
        /\ requests'[r].id = req.id /\ requests'[r].copy = req.copy
    BY <1>1, <1>3, <1>7
  <2>2. ~Commits(r)' /\ (Saves(r)' \/ Restores(r)')
    BY <2>1 DEF Commits, Resets, Saves, Restores
  <2> QED
    BY <1>3, <1>4, <1>5, <1>7, <2>1, <2>2 DEF Busy
<1> QED
  BY <1>6, <1>7

LEMMA SaveStateKeeps ==
    ASSUME LocksInv, StoreType, NodeInv, PairInv, NEW r \in Requests, IsRunning(r),
           SaveState(r)
    PROVE  NodeInv' /\ PairInv'
<1>1. /\ At(r, "do") /\ Argument(r) = "save_state"
      /\ next' = next + 1 /\ states' = states \cup {next'}
      /\ node' = node /\ pools' = pools
  BY DEF SaveState, DoesNow
<1>2. requests[r].kind = "snapshot" /\ requests[r].pc = 5
  BY <1>1, RunningInPlace DEF Placed, At, Argument, Instruction
<1>3. PICK req : /\ GoesOnBy(r, req, queues)
                 /\ req.id = next' /\ req.copy = requests[r].copy
  BY EffectShapes DEF LocksInv
<1>4. /\ requests'[r].kind = "snapshot" /\ requests'[r].pc = 6
      /\ requests'[r].id = next' /\ requests'[r].copy = requests[r].copy
      /\ ~Commits(r)' /\ Busy(r)' /\ HoldsWrite(r, "mining") /\ ~Commits(r)
      /\ \A s \in Requests \ {r} : ~Busy(s)' /\ ~Copied(s)'
  <2>1. 5 \in {5, 7} /\ 5 # 7
    OBVIOUS
  <2> QED
    BY <1>2, <1>3, <2>1, SnapshotGoesOn
<1>5. ~Busy(r) /\ Copied(r)
  BY <1>2, <1>4 DEF Busy, Saves, Restores, Copied
<1>6. /\ Uniform /\ Bounded /\ ThisPool /\ DOMAIN pools = states
      /\ requests[r].copy = node.db
  BY <1>4, <1>5, NobodyCommits, NobodyBusy DEF PairInv
<1>7. next \in Nat
  BY DEF StoreType, SnapshotsType
<1>8. Uniform' /\ ThisPool' /\ Bounded'
  BY <1>1, <1>6, <1>7 DEF Uniform, ThisPool, Bounded
<1>9. /\ states' = DOMAIN pools' \cup {requests'[r].id}
      /\ requests'[r].id = next' /\ next' \notin DOMAIN pools'
  <2>1. next + 1 \notin 1..next
    BY <1>7
  <2> QED
    BY <1>1, <1>4, <1>6, <2>1 DEF Bounded
<1>10. ~Restores(r)'
  BY <1>4 DEF Restores
<1>11. requests'[r].copy = node'.db
  BY <1>1, <1>4, <1>6
<1> QED
  BY <1>4, <1>8, <1>9, <1>10, <1>11, AloneKeeps

LEMMA SavePoolKeeps ==
    ASSUME LocksInv, StoreType, NodeInv, PairInv, NEW r \in Requests, IsRunning(r),
           SavePool(r)
    PROVE  NodeInv' /\ PairInv'
<1>0. PICK id, copy : id = requests[r].id /\ copy = requests[r].copy
  OBVIOUS
<1>1. /\ At(r, "do") /\ Argument(r) = "save_pool" /\ Continue(r)
      /\ pools' = [i \in DOMAIN pools \cup {id} |-> IF i = id THEN copy ELSE pools[i]]
      /\ node' = node /\ next' = next /\ states' = states
  BY <1>0 DEF SavePool, DoesNow
<1>2. requests[r].kind = "snapshot" /\ requests[r].pc = 7
  BY <1>1, RunningInPlace DEF Placed, At, Argument, Instruction
<1>3. GoesOnBy(r, requests[r], queues)
  BY <1>1, EffectShapes DEF LocksInv
<1>4. /\ IdleNotBusy(r) /\ HoldsWrite(r, "mining") /\ ~Commits(r)
      /\ \A s \in Requests \ {r} : ~Busy(s)' /\ ~Copied(s)'
  <2>1. 7 \in {5, 7}
    OBVIOUS
  <2> QED
    BY <1>2, <1>3, <2>1, SnapshotGoesOn
<1>5. Saves(r) /\ Copied(r)
  BY <1>2 DEF Saves, Copied
<1>6. /\ Uniform /\ Bounded /\ ThisPool
      /\ states = DOMAIN pools \cup {id} /\ id = next /\ copy = node.db
  BY <1>0, <1>4, <1>5, NobodyCommits DEF PairInv
<1>7. DOMAIN pools' = DOMAIN pools \cup {id}
  BY <1>1
<1>8. Uniform' /\ Bounded' /\ DOMAIN pools' = states'
  BY <1>1, <1>6, <1>7 DEF Uniform, Bounded
<1>9. ThisPool'
  BY <1>1, <1>6 DEF ThisPool
<1> QED
  BY <1>4, <1>8, <1>9, AloneKeeps DEF IdleNotBusy

LEMMA RevertStateKeeps ==
    ASSUME LocksInv, StoreType, NodeInv, PairInv, NEW r \in Requests, IsRunning(r),
           RevertState(r)
    PROVE  NodeInv' /\ PairInv'
<1>1. CASE End(r) /\ UNCHANGED states
  BY <1>1, CalmKeeps
<1>2. ASSUME NEW id \in states, states' = {i \in states : i < id},
             Proceed(r, [requests[r] EXCEPT !.id = id], queues)
      PROVE  NodeInv' /\ PairInv'
  <2>1. /\ At(r, "do") /\ Argument(r) = "revert_state"
        /\ node' = node /\ next' = next /\ pools' = pools
    BY DEF RevertState, DoesNow
  <2>2. requests[r].kind = "revert" /\ requests[r].pc = 5
    BY <2>1, RunningInPlace DEF Placed, At, Argument, Instruction
  <2>3. PICK req : GoesOnBy(r, req, queues) /\ req.id = id
    BY <1>2, <2>1, EffectShapes DEF LocksInv
  <2>4. /\ requests'[r].kind = "revert" /\ requests'[r].pc = 6 /\ requests'[r].id = id
        /\ ~Commits(r)' /\ Busy(r)' /\ HoldsWrite(r, "mining") /\ ~Commits(r)
        /\ \A s \in Requests \ {r} : ~Busy(s)' /\ ~Copied(s)'
    <3>1. 5 \in {5, 7} /\ 5 # 7
      OBVIOUS
    <3> QED
      BY <2>2, <2>3, <3>1, SnapshotGoesOn
  <2>5. ~Busy(r)
    BY <2>2, <2>4 DEF Busy, Saves, Restores
  <2>6. Uniform /\ Bounded /\ ThisPool /\ DOMAIN pools = states
    BY <2>4, <2>5, NobodyCommits, NobodyBusy
  <2>7. Uniform' /\ ThisPool' /\ Bounded'
    BY <1>2, <2>1, <2>6 DEF Uniform, ThisPool, Bounded
  <2>8. /\ requests'[r].id \in DOMAIN pools'
        /\ states' = {i \in DOMAIN pools' : i < requests'[r].id}
    BY <1>2, <2>1, <2>4, <2>6
  <2>9. ~Saves(r)' /\ ~Copied(r)'
    BY <2>4 DEF Saves, Copied
  <2> QED
    BY <2>4, <2>7, <2>8, <2>9, AloneKeeps
<1> QED
  BY <1>1, <1>2 DEF RevertState

LEMMA RestorePoolKeeps ==
    ASSUME LocksInv, StoreType, NodeInv, PairInv, NEW r \in Requests, IsRunning(r),
           RestorePool(r)
    PROVE  NodeInv' /\ PairInv'
<1>0. PICK id : id = requests[r].id
  OBVIOUS
<1>1. /\ At(r, "do") /\ Argument(r) = "restore_pool" /\ Continue(r)
      /\ node' = IF id \in DOMAIN pools THEN [node EXCEPT !.pool = pools[id]] ELSE node
      /\ pools' = [i \in {j \in DOMAIN pools : j < id} |-> pools[i]]
      /\ next' = next /\ states' = states
  BY <1>0 DEF RestorePool, DoesNow
<1>2. requests[r].kind = "revert" /\ requests[r].pc = 7
  BY <1>1, RunningInPlace DEF Placed, At, Argument, Instruction
<1>3. GoesOnBy(r, requests[r], queues)
  BY <1>1, EffectShapes DEF LocksInv
<1>4. /\ IdleNotBusy(r) /\ HoldsWrite(r, "mining") /\ ~Commits(r)
      /\ \A s \in Requests \ {r} : ~Busy(s)' /\ ~Copied(s)'
  <2>1. 7 \in {5, 7}
    OBVIOUS
  <2> QED
    BY <1>2, <1>3, <2>1, SnapshotGoesOn
<1>5. Restores(r)
  BY <1>2 DEF Restores
<1>6. /\ Uniform /\ Bounded /\ ThisPool
      /\ id \in DOMAIN pools /\ states = {i \in DOMAIN pools : i < id}
  BY <1>0, <1>4, <1>5, NobodyCommits DEF PairInv
<1>7. node' = [node EXCEPT !.pool = node.db] /\ node \in [Parts -> Nat]
  BY <1>1, <1>6 DEF ThisPool, StoreType, NodeType
<1>8. Uniform' /\ node'.db = node.db
  BY <1>6, <1>7 DEF Uniform, Parts
<1>9. DOMAIN pools' = states' /\ \A i \in DOMAIN pools' : pools'[i] = pools[i]
  BY <1>1, <1>6
<1>10. DOMAIN pools' \subseteq DOMAIN pools
  BY <1>1
<1>11. Bounded' /\ ThisPool'
  BY <1>1, <1>6, <1>8, <1>9, <1>10 DEF Bounded, ThisPool
<1> QED
  BY <1>4, <1>8, <1>9, <1>11, AloneKeeps DEF IdleNotBusy

LEMMA NodeStep ==
    ASSUME LocksInv, StoreType, NodeInv, PairInv, LifecycleNext
    PROVE  NodeInv' /\ PairInv'
<1>1. ASSUME NEW r \in Requests, Step(r) PROVE NodeInv' /\ PairInv'
  <2>0. IsRunning(r)
    BY <1>1 DEF Step, IsRunning
  <2>1. CASE Wait(r) \/ Acquire(r) \/ Drop(r) \/ Observe(r) \/ Outcome(r)
             \/ AwaitInclusion(r)
    BY <2>0, <2>1, CalmKeeps
  <2>2. CASE PublishPart(r) \/ DropStates(r) \/ DropPools(r) \/ CopyPool(r)
    BY <2>0, <2>2, PublishKeeps, DropStatesKeeps, DropPoolsKeeps, CopyPoolKeeps
  <2>3. CASE SaveState(r) \/ SavePool(r) \/ RevertState(r) \/ RestorePool(r)
    BY <2>0, <2>3, SaveStateKeeps, SavePoolKeeps, RevertStateKeeps, RestorePoolKeeps
  <2> QED
    BY <1>1, <2>1, <2>2, <2>3 DEF Step
<1>2. ASSUME NEW r \in Requests, NEW kind \in KindsOf(r), Start(r, kind)
      PROVE  NodeInv' /\ PairInv'
  <2>1. /\ requests'[r] = [Idle EXCEPT !.kind = kind, !.pc = 1]
        /\ \A s \in Requests \ {r} : requests'[s] = requests[s]
    BY <1>2, StartKeeps
  <2>2. requests'[r].kind = kind /\ requests'[r].pc = 1
    BY <2>1 DEF Idle
  <2>3. /\ requests[r].kind = "idle" /\ UNCHANGED <<node, next, states, pools>>
    BY <1>2 DEF Start
  <2>4. /\ ~Commits(r)' /\ ~Saves(r)' /\ ~Restores(r)' /\ ~Copied(r)'
        /\ ~Commits(r) /\ ~Saves(r) /\ ~Restores(r)
    BY <2>2, <2>3 DEF Commits, Saves, Restores, Copied, Stage, Base, Resets
  <2>5. Alike(r)
    BY <2>4 DEF Alike
  <2> QED
    BY <2>1, <2>3, <2>5, SameAlike, AlikeKeeps
<1> QED
  BY <1>1, <1>2 DEF LifecycleNext

----------------------------------------------------------------------------
(* What the requests have seen *)

\* While a request that looks at the node holds its lock, the node is of one
\* incarnation.
LEMMA LooksAtOne ==
    ASSUME LocksInv, NodeInv, NEW r \in Requests,
           requests[r].kind \in Kinds \ Unshielded, requests[r].pc > 1
    PROVE  Uniform
<1>1. ASSUME NEW s \in Requests, Commits(s) PROVE FALSE
  <2>1. requests[s].kind \in Resets /\ Stage(s) >= 1
    BY <1>1 DEF Commits
  <2> QED
    BY <2>1, NoReset
<1> QED
  BY <1>1 DEF NodeInv

LEMMA SeePlaces ==
    ASSUME LocksInv, NEW r \in Requests, IsRunning(r), At(r, "see")
    PROVE  /\ requests[r].kind \in Kinds \ Unshielded /\ requests[r].pc > 1
           /\ Argument(r) \in Parts
<1>1. /\ requests[r].kind \in Kinds /\ Sound(requests[r].kind)
      /\ requests[r].pc \in 1..Len(Program[requests[r].kind])
      /\ Argument(r) \in Parts
  BY RunFacts DEF LocksInv
<1>2. Program[requests[r].kind][requests[r].pc].op = "see"
  BY DEF At, Instruction
<1> QED
  BY <1>1, <1>2 DEF Sound, Shielded

\* The database of the node changes under nobody who has looked at it.
LEMMA SeenElsewhere ==
    ASSUME LocksInv, StoreType, NodeInv, PairInv, SeenInv, NEW r \in Requests,
           IsRunning(r), Step(r), NEW s \in Requests, requests[s].seen # {}
    PROVE  node'.db = node.db
<1>1. CASE \/ Wait(r) \/ Acquire(r) \/ Drop(r) \/ Observe(r) \/ Outcome(r)
           \/ AwaitInclusion(r) \/ CopyPool(r) \/ DropStates(r) \/ DropPools(r)
           \/ SaveState(r) \/ SavePool(r) \/ RevertState(r)
  BY <1>1 DEF Wait, Acquire, Drop, Observe, Outcome, AwaitInclusion, CopyPool,
              DropStates, DropPools, SaveState, SavePool, RevertState
<1>2. CASE RestorePool(r)
  <2>1. PICK v : node' = node \/ node' = [node EXCEPT !.pool = v]
    BY <1>2 DEF RestorePool
  <2> QED
    BY <2>1 DEF StoreType, NodeType, Parts
<1>3. CASE PublishPart(r)
  <2>1. At(r, "publish") /\ node' = [node EXCEPT ![Argument(r)] = node[Argument(r)] + 1]
    BY <1>3 DEF PublishPart
  <2>2. /\ requests[r].kind \in Resets
        /\ Stage(r) >= 1
    BY <2>1, PublishPlaces
  <2>3. requests[s].kind \in Kinds \ Unshielded /\ requests[s].pc > 1
    BY DEF SeenInv
  <2> QED
    BY <2>2, <2>3, NoReset
<1> QED
  BY <1>1, <1>2, <1>3 DEF Step

\* A step that is no look leaves what its request has seen.
LEMMA NoLook ==
    ASSUME LocksInv, StoreType, NEW r \in Requests, IsRunning(r), Step(r)
    PROVE  \/ requests' = requests
           \/ requests'[r] = Idle
           \/ Observe(r)
           \/ /\ requests'[r].seen = requests[r].seen
              /\ requests'[r].kind = requests[r].kind
              /\ requests'[r].pc = requests[r].pc + 1
<1>1. ASSUME NEW req, NEW q, GoesOnBy(r, req, q), req.seen = requests[r].seen
      PROVE  \/ requests'[r] = Idle
             \/ /\ requests'[r].seen = requests[r].seen
                /\ requests'[r].kind = requests[r].kind
                /\ requests'[r].pc = requests[r].pc + 1
  <2>1. /\ req \in RequestStates /\ Proceed(r, req, q)
        /\ req.kind = requests[r].kind /\ req.pc = requests[r].pc
    BY <1>1 DEF GoesOnBy
  <2> QED
    BY <1>1, <2>1, ProceedFacts DEF LocksInv
<1>2. ASSUME End(r) PROVE requests'[r] = Idle
  BY <1>2, EndFacts DEF LocksInv
<1>3. CASE Wait(r)
  BY <1>3 DEF Wait
<1>4. CASE Acquire(r) \/ Drop(r)
  <2>1. PICK q : GoesOnBy(r, requests[r], q)
    BY <1>4, AcquireShape, DropShape DEF LocksInv
  <2> QED
    BY <1>1, <2>1
<1>5. CASE CopyPool(r) \/ SaveState(r)
  <2>1. PICK req : GoesOnBy(r, req, queues) /\ req.seen = requests[r].seen
    BY <1>5, EffectShapes DEF LocksInv
  <2> QED
    BY <1>1, <2>1
<1>6. CASE \/ PublishPart(r) \/ AwaitInclusion(r) \/ DropStates(r)
           \/ DropPools(r) \/ SavePool(r) \/ RestorePool(r)
           \/ (Outcome(r) /\ Continue(r))
  <2>1. (At(r, "publish") \/ At(r, "do")) /\ Continue(r)
    BY <1>6 DEF PublishPart, AwaitInclusion, DropStates, DropPools, SavePool,
                RestorePool, Outcome, DoesNow
  <2>2. GoesOnBy(r, requests[r], queues)
    BY <2>1, EffectShapes DEF LocksInv
  <2> QED
    BY <1>1, <2>2
<1>7. CASE Outcome(r) /\ End(r)
  BY <1>2, <1>7
<1>8. CASE RevertState(r)
  <2>1. /\ At(r, "do")
        /\ End(r) \/ \E id \in states : Proceed(r, [requests[r] EXCEPT !.id = id], queues)
    BY <1>8 DEF RevertState, DoesNow
  <2>2. End(r) \/ \E req : GoesOnBy(r, req, queues) /\ req.seen = requests[r].seen
    BY <2>1, EffectShapes DEF LocksInv
  <2> QED
    BY <1>1, <1>2, <2>2
<1> QED
  BY <1>3, <1>4, <1>5, <1>6, <1>7, <1>8 DEF Step, Outcome

LEMMA StepTouchesOne ==
    ASSUME LocksInv, StoreType, NEW r \in Requests, Step(r)
    PROVE  IsRunning(r) /\ \A s \in Requests \ {r} : requests'[s] = requests[s]
<1>1. IsRunning(r) /\ (Wait(r) \/ End(r) \/ \E req, q : GoesOnBy(r, req, q))
  BY StepShape DEF LocksInv
<1>2. CASE Wait(r)
  BY <1>1, <1>2 DEF Wait
<1>3. CASE End(r)
  BY <1>1, <1>3, EndFacts DEF LocksInv
<1>4. ASSUME NEW req, NEW q, GoesOnBy(r, req, q)
      PROVE  \A s \in Requests \ {r} : requests'[s] = requests[s]
  BY <1>1, <1>4, ProceedFacts DEF GoesOnBy, LocksInv
<1> QED
  BY <1>1, <1>2, <1>3, <1>4

LEMMA SeenStep ==
    ASSUME LocksInv, StoreType, NodeInv, PairInv, SeenInv, LifecycleNext
    PROVE  SeenInv'
<1>1. ASSUME NEW r \in Requests, Step(r) PROVE SeenInv'
  <2>0. IsRunning(r) /\ \A s \in Requests \ {r} : requests'[s] = requests[s]
    BY <1>1, StepTouchesOne
  <2> SUFFICES ASSUME NEW s \in Requests, requests'[s].seen # {}
               PROVE  /\ requests'[s].kind \in Kinds \ Unshielded
                      /\ requests'[s].pc > 1
                      /\ requests'[s].seen \subseteq {node'.db}
    BY DEF SeenInv
  <2>1. ASSUME requests'[s] = requests[s]
        PROVE  /\ requests'[s].kind \in Kinds \ Unshielded /\ requests'[s].pc > 1
               /\ requests'[s].seen \subseteq {node'.db}
    <3>1. requests[s].seen # {}
      BY <2>1
    <3>2. node'.db = node.db
      BY <1>1, <2>0, <3>1, SeenElsewhere
    <3> QED
      BY <2>1, <3>1, <3>2 DEF SeenInv
  <2>2. CASE s # r \/ requests' = requests
    BY <2>0, <2>1, <2>2
  <2>3. CASE s = r /\ requests'[r] = Idle
    BY <2>3 DEF Idle
  <2>4. CASE s = r /\ Observe(r)
    <3>1. At(r, "see") /\ node' = node
      BY <2>4 DEF Observe
    <3>2. /\ requests[r].kind \in Kinds \ Unshielded /\ requests[r].pc > 1
          /\ Argument(r) \in Parts
      BY <2>0, <3>1, SeePlaces
    <3>3. node[Argument(r)] = node.db
      BY <3>2, LooksAtOne DEF Uniform
    <3>4. requests[r].seen \subseteq {node.db}
      BY DEF SeenInv
    <3>5. PICK req : /\ GoesOnBy(r, req, queues)
                     /\ req.seen = requests[r].seen \cup {node[Argument(r)]}
      BY <2>0, <2>4, EffectShapes DEF LocksInv
    <3>6. /\ req \in RequestStates /\ Proceed(r, req, queues)
          /\ req.kind = requests[r].kind /\ req.pc = requests[r].pc
      BY <3>5 DEF GoesOnBy
    <3>7. \/ requests'[r] = Idle
          \/ /\ requests'[r].kind = requests[r].kind
             /\ requests'[r].pc = requests[r].pc + 1
             /\ requests'[r].seen = req.seen
      BY <2>0, <3>6, ProceedFacts DEF LocksInv
    <3>8. requests'[r].seen # {}
      BY <2>4
    <3>9. requests'[r] # Idle
      BY <3>8 DEF Idle
    <3>10. requests[r].pc \in Nat
      BY <2>0, RunFacts DEF LocksInv
    <3> QED
      BY <2>4, <3>1, <3>2, <3>3, <3>4, <3>5, <3>7, <3>9, <3>10
  <2>5. CASE /\ s = r
             /\ requests'[r].seen = requests[r].seen
             /\ requests'[r].kind = requests[r].kind
             /\ requests'[r].pc = requests[r].pc + 1
    <3>1. requests[r].seen # {}
      BY <2>5
    <3>2. node'.db = node.db
      BY <1>1, <2>0, <3>1, SeenElsewhere
    <3>3. requests[r].pc \in Nat
      BY <2>0, RunFacts DEF LocksInv
    <3> QED
      BY <2>5, <3>1, <3>2, <3>3 DEF SeenInv
  <2> QED
    BY <1>1, <2>0, <2>2, <2>3, <2>4, <2>5, NoLook
<1>2. ASSUME NEW r \in Requests, NEW kind \in KindsOf(r), Start(r, kind)
      PROVE  SeenInv'
  <2>1. /\ requests'[r] = [Idle EXCEPT !.kind = kind, !.pc = 1]
        /\ \A s \in Requests \ {r} : requests'[s] = requests[s]
    BY <1>2, StartKeeps
  <2>2. requests'[r].seen = {}
    BY <2>1 DEF Idle
  <2>3. node' = node
    BY <1>2 DEF Start
  <2> QED
    BY <2>1, <2>2, <2>3 DEF SeenInv
<1> QED
  BY <1>1, <1>2 DEF LifecycleNext

----------------------------------------------------------------------------
(* The invariant, and what follows from it *)

LifecycleInv == LocksInv /\ StoreType /\ NodeInv /\ PairInv /\ SeenInv

LEMMA InitLifecycle == LifecycleInit => LifecycleInv
<1> SUFFICES ASSUME LifecycleInit PROVE LifecycleInv
  OBVIOUS
<1>1. /\ \A l \in Locks : queues[l] = <<>> /\ Len(queues[l]) = 0
      /\ \A r \in Requests : requests[r] = Idle /\ requests[r].kind = "idle"
      /\ \A p \in Parts : node[p] = 0
      /\ next = 0 /\ states = {} /\ DOMAIN pools = {}
  BY DEF LifecycleInit, Idle
<1>2. QueuesType /\ RequestsType
  BY IdleType, EmptyQueue DEF LifecycleInit, QueuesType, RequestsType
<1>3. RunInv /\ QueueInv /\ HoldInv
  BY <1>1 DEF RunInv, QueueInv, HoldInv, IsRunning
<1>4. StoreType
  BY <1>1 DEF LifecycleInit, StoreType, NodeType, SnapshotsType, PoolsType
<1>5. \A r \in Requests : /\ ~Commits(r) /\ ~Saves(r) /\ ~Restores(r) /\ ~Copied(r)
                          /\ ~Busy(r)
  BY <1>1 DEF Commits, Saves, Restores, Copied, Busy, Resets
<1>6. NodeInv
  BY <1>1, <1>5 DEF NodeInv, Uniform, Parts
<1>7. PairInv
  BY <1>1, <1>5 DEF PairInv, Bounded, ThisPool
<1>8. SeenInv
  BY <1>1 DEF SeenInv, Idle
<1> QED
  BY <1>2, <1>3, <1>4, <1>6, <1>7, <1>8 DEF LifecycleInv, LocksInv

LEMMA StepLifecycle == LifecycleInv /\ [LifecycleNext]_lifecycleVars => LifecycleInv'
<1>1. ASSUME LifecycleInv, LifecycleNext PROVE LifecycleInv'
  <2> USE DEF LifecycleInv
  <2>1. LocksInv' /\ StoreType'
    BY <1>1, LocksStep, StoreStep DEF LocksInv
  <2>2. NodeInv' /\ PairInv'
    BY <1>1, NodeStep
  <2>3. SeenInv'
    BY <1>1, SeenStep
  <2> QED
    BY <2>1, <2>2, <2>3
<1>2. ASSUME LifecycleInv, UNCHANGED lifecycleVars PROVE LifecycleInv'
  <2> USE <1>2 DEF lifecycleVars
  <2>1. LocksInv'
    <3>1. requests' = requests /\ queues' = queues
      OBVIOUS
    <3>2. QueuesType' /\ RequestsType' /\ RunInv'
      BY <3>1 DEF LifecycleInv, LocksInv, QueuesType, RequestsType, RunInv, IsRunning
    <3>3. QueueInv'
      <4> SUFFICES ASSUME NEW l \in Locks, NEW i \in 1..Len(queues[l])
                   PROVE  Rightful(l, queues[l][i])'
        BY <3>1 DEF QueueInv
      <4>1. Rightful(l, queues[l][i])
        BY DEF LifecycleInv, LocksInv, QueueInv
      <4> QED
        BY <3>1, <4>1 DEF Rightful
    <3>4. HoldInv'
      BY <3>1 DEF LifecycleInv, LocksInv, HoldInv, IsRunning, KeptBy, EntryAt
    <3> QED
      BY <3>2, <3>3, <3>4 DEF LocksInv
  <2>2. StoreType'
    BY DEF LifecycleInv, StoreType, NodeType, SnapshotsType, PoolsType
  <2>3. \A s \in Requests : Alike(s)
    BY SameAlike
  <2>4. NodeInv' /\ PairInv'
    BY <2>3, AlikeKeeps DEF LifecycleInv
  <2>5. SeenInv'
    BY DEF LifecycleInv, SeenInv
  <2> QED
    BY <2>1, <2>2, <2>4, <2>5 DEF LifecycleInv
<1> QED
  BY <1>1, <1>2

LEMMA LifecycleInvariant == LifecycleSpec => []LifecycleInv
BY InitLifecycle, StepLifecycle, PTL DEF LifecycleSpec

(* execute, do_mine_block (api.rs:2132): everything that a request sees of the
   node belongs to one incarnation of it, whatever resets run beside it, for
   any number of clients, resets and snapshots.                            *)
THEOREM RequestsSeeOneNode == LifecycleSpec => []OneIncarnation
<1>1. LifecycleInv => OneIncarnation
  <2> SUFFICES ASSUME LifecycleInv, NEW r \in Requests,
                      requests[r].kind # "idle", At(r, "see")
               PROVE  requests[r].seen \subseteq {node[Argument(r)]}
    BY DEF OneIncarnation
  <2>1. /\ requests[r].kind \in Kinds \ Unshielded /\ requests[r].pc > 1
        /\ Argument(r) \in Parts
    BY SeePlaces DEF LifecycleInv, IsRunning
  <2>2. node[Argument(r)] = node.db
    BY <2>1, LooksAtOne DEF LifecycleInv, Uniform
  <2> QED
    BY <2>2 DEF LifecycleInv, SeenInv
<1> QED
  BY <1>1, LifecycleInvariant, PTL

(* evm_snapshot, evm_revert, anvil_reset (api.rs:611, 854, 886): whenever the
   mining mutex is free, the snapshots of the state and those of the pool are
   of the same ids and of this incarnation of the node.                    *)
THEOREM SnapshotsStayPaired == LifecycleSpec => []PoolSnapshotsPaired
<1>1. LifecycleInv => PoolSnapshotsPaired
  <2> SUFFICES ASSUME LifecycleInv, queues["mining"] = <<>>
               PROVE  /\ DOMAIN pools = states
                      /\ \A id \in DOMAIN pools : pools[id] = node.db
    BY DEF PoolSnapshotsPaired
  <2>1. ASSUME NEW r \in Requests, HoldsWrite(r, "mining") PROVE FALSE
    <3>1. PICK k \in 1..(requests[r].pc - 1) :
             KeptBy(r, k) /\ Program[requests[r].kind][k].arg = "mining"
      BY <2>1 DEF HoldsWrite
    <3>2. Holding(queues["mining"], EntryAt(r, k))
      BY <2>1, <3>1 DEF LifecycleInv, LocksInv, HoldInv, HoldsWrite
    <3> QED
      BY <3>2 DEF Holding
  <2>2. \A r \in Requests : ~Busy(r)
    BY <2>1, GuardFacts DEF LifecycleInv
  <2>3. \A r \in Requests : ~Commits(r)
    BY <2>2 DEF Busy
  <2> QED
    BY <2>2, <2>3 DEF LifecycleInv, PairInv, ThisPool
<1> QED
  BY <1>1, LifecycleInvariant, PTL

(* The guards of the handlers (tokio's RwLock and Mutex): from the instruction
   where a handler has taken a lock to write to where it drops it, no other
   handler is between its own taking and dropping of that lock.            *)
THEOREM LocksExclude == LifecycleSpec => []MutualExclusion
<1>1. LifecycleInv => MutualExclusion
  BY Exclusive DEF LifecycleInv
<1> QED
  BY <1>1, LifecycleInvariant, PTL

----------------------------------------------------------------------------
(* Who waits for whom *)

\* r waits for nobody: it is not at a lock, or its turn has come.
CanGo(r) ==
    /\ IsRunning(r)
    /\ At(r, "lock") => Holding(Behind(queues[Argument(r)], Entry(r)), Entry(r))

\* The handlers of api.rs: while requests run, one of them waits for nobody.
NoDeadlock ==
    (\E r \in Requests : IsRunning(r)) => \E r \in Requests : CanGo(r)

\* Who waits for a lock waits for one who can go on, or who waits for a lock
\* that comes later in the order.
LEMMA WaitsUpwards ==
    ASSUME LocksInv, NEW r \in Requests, IsRunning(r), ~CanGo(r)
    PROVE  /\ At(r, "lock") /\ Argument(r) \in Locks
           /\ \E s \in Requests :
                 /\ IsRunning(s)
                 /\ CanGo(s) \/ Rank[Argument(r)] < Rank[Argument(s)]
<1>1. PICK l, q : l = Argument(r) /\ q = queues[l]
  OBVIOUS
<1>2. At(r, "lock") /\ ~Holding(Behind(q, Entry(r)), Entry(r))
  BY <1>1 DEF CanGo
<1>3. l \in Locks /\ Entry(r) \in Entries /\ q \in Seq(Entries)
  BY <1>1, <1>2, RunFacts DEF LocksInv, QueuesType
<1>4. Len(q) \in Nat /\ Len(q) # 0
  <2> SUFFICES ASSUME Len(q) = 0 PROVE FALSE
    BY <1>3
  <2>1. ~Queued(q, Entry(r))
    BY DEF Queued
  <2>2. Behind(q, Entry(r)) = Append(q, Entry(r))
    BY <2>1 DEF Behind
  <2>3. /\ Len(Append(q, Entry(r))) = 1 /\ Append(q, Entry(r))[1] = Entry(r)
    BY <1>3
  <2> QED
    BY <1>2, <2>2, <2>3 DEF Holding
<1>5. PICK e \in Entries : e = q[1]
  BY <1>3, <1>4
<1>6. Rightful(l, e) /\ e.who \in Requests
  BY <1>1, <1>3, <1>4, <1>5 DEF LocksInv, QueueInv, Entries
<1>7. PICK s \in Requests : s = e.who
  BY <1>6
<1>8. IsRunning(s)
  BY <1>6, <1>7 DEF Rightful, IsRunning
<1>9. CASE e.pc = requests[s].pc
  <2>1. At(s, "lock") /\ Argument(s) = l /\ Instruction(s).mode = e.mode
    BY <1>6, <1>7, <1>9 DEF Rightful, At, Argument, Instruction
  <2>2. Entry(s) = e
    BY <1>7, <1>9, <2>1 DEF Entry, Entries
  <2>3. Queued(q, e) /\ Holding(q, e)
    BY <1>4, <1>5 DEF Queued, Holding
  <2>4. CanGo(s)
    BY <1>1, <1>8, <2>1, <2>2, <2>3 DEF CanGo, Behind
  <2> QED
    BY <1>1, <1>2, <1>3, <1>8, <2>4
<1>10. CASE Kept(requests[s].kind, e.pc, requests[s].pc)
  <2>1. CASE ~At(s, "lock")
    BY <1>1, <1>2, <1>3, <1>8, <2>1 DEF CanGo
  <2>2. CASE At(s, "lock")
    <3>1. PICK P : P = Program[requests[s].kind]
      OBVIOUS
    <3>2. /\ Sound(requests[s].kind) /\ requests[s].pc \in 1..Len(P)
          /\ P[e.pc].arg = l
      BY <1>6, <1>7, <1>8, <3>1, RunFacts DEF LocksInv, Rightful
    <3>3. e.pc \in 1..(requests[s].pc - 1)
      BY <1>10 DEF Kept
    <3>4. Rank[P[e.pc].arg] < Rank[P[requests[s].pc].arg]
      BY <1>10, <2>2, <3>1, <3>2, <3>3 DEF Sound, Ordered, At, Instruction
    <3>5. Rank[Argument(r)] < Rank[Argument(s)]
      BY <1>1, <3>1, <3>2, <3>4 DEF Argument, Instruction
    <3> QED
      BY <1>1, <1>2, <1>3, <1>8, <3>5
  <2> QED
    BY <2>1, <2>2
<1> QED
  BY <1>6, <1>7, <1>9, <1>10 DEF Rightful

LEMMA SomebodyCanGo == LocksInv => NoDeadlock
<1> SUFFICES ASSUME LocksInv, NEW z \in Requests, IsRunning(z),
                    \A r \in Requests : ~CanGo(r)
             PROVE  FALSE
  BY DEF NoDeadlock
<1>1. \A l \in Locks : Rank[l] \in 1..6
  BY DEF Locks, Rank
<1> DEFINE S == {n \in 0..6 : \E r \in Requests : /\ IsRunning(r) /\ Argument(r) \in Locks
                                                  /\ n = 6 - Rank[Argument(r)]}
<1>2. S \subseteq Nat
  OBVIOUS
<1>3. S # {}
  <2>1. Argument(z) \in Locks
    BY WaitsUpwards
  <2>2. 6 - Rank[Argument(z)] \in 0..6
    BY <1>1, <2>1
  <2> QED
    BY <2>1, <2>2
<1>4. \E n \in S : \A m \in S : n <= m
  <2> HIDE DEF S
  <2> QED
    BY <1>2, <1>3, LeastIn
<1>5. PICK n \in S : \A m \in S : n <= m
  BY <1>4
<1>6. PICK r \in Requests : /\ IsRunning(r) /\ Argument(r) \in Locks
                            /\ n = 6 - Rank[Argument(r)]
  OBVIOUS
<1>7. PICK s \in Requests : IsRunning(s) /\ Rank[Argument(r)] < Rank[Argument(s)]
  BY <1>6, WaitsUpwards
<1>8. Argument(s) \in Locks
  BY <1>7, WaitsUpwards
<1>9. Rank[Argument(s)] \in 1..6 /\ Rank[Argument(r)] \in 1..6
  BY <1>1, <1>6, <1>8
<1>10. PICK m : m = 6 - Rank[Argument(s)]
  OBVIOUS
<1>11. m \in S /\ m < n
  BY <1>6, <1>7, <1>8, <1>9, <1>10
<1> QED
  BY <1>5, <1>11

(* The lock order of the handlers (api.rs:684, 854, 2132): requests wait for
   one another's locks, but never all of them: whenever a request runs, one
   of those that run waits for nobody.                                     *)
THEOREM RequestsNeverDeadlock == LifecycleSpec => []NoDeadlock
<1>1. LifecycleInv => NoDeadlock
  BY SomebodyCanGo DEF LifecycleInv
<1> QED
  BY <1>1, LifecycleInvariant, PTL

----------------------------------------------------------------------------
(* The bounds *)

\* Resets that have still to publish the instance, snapshots still to be saved:
\* each will raise a counter by one.
ToPublish == {r \in Requests : requests[r].kind \in Resets /\ Stage(r) < 7}
ToSave == {r \in Requests : requests[r].kind = "snapshot" /\ requests[r].pc < 6}

CountInv ==
    /\ node.instance + Cardinality(ToPublish) <= MaxResets
    /\ next + Cardinality(ToSave) <= MaxSnapshots
    /\ states \subseteq 1..MaxSnapshots

LEMMA RequestsFinite == IsFiniteSet(Requests)
BY LifecycleAssumption, FS_AddElement DEF Requests

LEMMA CountTypes ==
    /\ IsFiniteSet(ToPublish) /\ Cardinality(ToPublish) \in Nat
    /\ IsFiniteSet(ToSave) /\ Cardinality(ToSave) \in Nat
<1>1. ToPublish \subseteq Requests /\ ToSave \subseteq Requests
  BY DEF ToPublish, ToSave
<1> QED
  BY <1>1, RequestsFinite, FS_Subset, FS_CardinalityType

LEMMA NoMore ==
    ASSUME NEW S, NEW T, IsFiniteSet(S), T \subseteq S
    PROVE  Cardinality(T) \in Nat /\ Cardinality(S) \in Nat
           /\ Cardinality(T) <= Cardinality(S)
BY FS_Subset, FS_CardinalityType

LEMMA OneLess ==
    ASSUME NEW S, NEW T, IsFiniteSet(S), NEW r \in S, T \subseteq S \ {r}
    PROVE  Cardinality(T) \in Nat /\ Cardinality(S) \in Nat
           /\ Cardinality(T) + 1 <= Cardinality(S)
<1>1. IsFiniteSet(S \ {r}) /\ Cardinality(S \ {r}) = Cardinality(S) - 1
  BY FS_RemoveElement
<1>2. /\ Cardinality(T) \in Nat /\ Cardinality(S \ {r}) \in Nat
      /\ Cardinality(T) <= Cardinality(S \ {r})
  BY <1>1, NoMore
<1>3. Cardinality(S) \in Nat
  BY FS_CardinalityType
<1> QED
  BY <1>1, <1>2, <1>3

LEMMA OneMore ==
    ASSUME NEW S, NEW T, NEW r, IsFiniteSet(S), T \subseteq S \cup {r}
    PROVE  Cardinality(T) \in Nat /\ Cardinality(S) \in Nat
           /\ Cardinality(T) <= Cardinality(S) + 1
<1>1. /\ IsFiniteSet(S \cup {r})
      /\ Cardinality(S \cup {r}) \in {Cardinality(S), Cardinality(S) + 1}
  BY FS_AddElement
<1>2. Cardinality(T) \in Nat /\ Cardinality(T) <= Cardinality(S \cup {r})
  BY <1>1, NoMore
<1>3. Cardinality(S) \in Nat
  BY FS_CardinalityType
<1> QED
  BY <1>1, <1>2, <1>3

LEMMA StepMoves ==
    ASSUME LocksInv, StoreType, NEW r \in Requests, Step(r)
    PROVE  /\ \A s \in Requests \ {r} : requests'[s] = requests[s]
           /\ \/ requests' = requests
              \/ requests'[r] = Idle
              \/ /\ requests'[r].kind = requests[r].kind
                 /\ requests'[r].pc = requests[r].pc + 1
<1>1. /\ IsRunning(r) /\ (Wait(r) \/ End(r) \/ \E req, q : GoesOnBy(r, req, q))
      /\ \A s \in Requests \ {r} : requests'[s] = requests[s]
  BY StepShape, StepTouchesOne DEF LocksInv
<1>2. CASE Wait(r)
  BY <1>1, <1>2 DEF Wait
<1>3. CASE End(r)
  BY <1>1, <1>3, EndFacts DEF LocksInv
<1>4. ASSUME NEW req, NEW q, GoesOnBy(r, req, q)
      PROVE  \/ requests'[r] = Idle
             \/ /\ requests'[r].kind = requests[r].kind
                /\ requests'[r].pc = requests[r].pc + 1
  <2>1. /\ req \in RequestStates /\ Proceed(r, req, q)
        /\ req.kind = requests[r].kind /\ req.pc = requests[r].pc
    BY <1>4 DEF GoesOnBy
  <2> QED
    BY <1>1, <2>1, ProceedFacts DEF LocksInv
<1> QED
  BY <1>1, <1>2, <1>3, <1>4

LEMMA CountsFall ==
    ASSUME LocksInv, StoreType, NEW r \in Requests, Step(r)
    PROVE  ToPublish' \subseteq ToPublish /\ ToSave' \subseteq ToSave
<1>1. IsRunning(r) /\ requests[r].pc \in Nat
  <2>1. IsRunning(r)
    BY DEF Step, IsRunning
  <2> QED
    BY <2>1, RunFacts DEF LocksInv
<1>2. ASSUME NEW s \in Requests
      PROVE  \/ requests'[s] = requests[s] \/ requests'[s] = Idle
             \/ /\ s = r /\ requests'[s].kind = requests[s].kind
                /\ requests'[s].pc = requests[s].pc + 1
  BY StepMoves
<1>3. ASSUME NEW s \in Requests, requests'[s].kind \in Resets, Stage(s)' < 7
      PROVE  requests[s].kind \in Resets /\ Stage(s) < 7
  <2>1. CASE requests'[s] = requests[s]
    BY <1>3, <2>1 DEF Stage
  <2>2. CASE requests'[s] = Idle
    BY <1>3, <2>2 DEF Idle, Resets
  <2>3. CASE /\ s = r /\ requests'[s].kind = requests[s].kind
             /\ requests'[s].pc = requests[s].pc + 1
    <3>1. PICK b \in Int : b = Base(requests[s].kind)
      BY DEF Base
    <3>2. Stage(s)' = (requests[s].pc + 1) - b /\ Stage(s) = requests[s].pc - b
      BY <2>3, <3>1 DEF Stage, Base
    <3> QED
      BY <1>1, <1>3, <2>3, <3>2
  <2> QED
    BY <1>2, <2>1, <2>2, <2>3
<1>4. ASSUME NEW s \in Requests, requests'[s].kind = "snapshot", requests'[s].pc < 6
      PROVE  requests[s].kind = "snapshot" /\ requests[s].pc < 6
  <2>1. CASE requests'[s] = Idle
    BY <1>4, <2>1 DEF Idle
  <2> QED
    BY <1>1, <1>2, <1>4, <2>1
<1> QED
  BY <1>3, <1>4 DEF ToPublish, ToSave

LEMMA CountKept ==
    ASSUME StoreType, CountInv, ToPublish' \subseteq ToPublish,
           ToSave' \subseteq ToSave,
           node'.instance = node.instance, next' = next \/ next' = 0,
           states' \subseteq states
    PROVE  CountInv'
<1>1. /\ Cardinality(ToPublish') \in Nat /\ Cardinality(ToPublish) \in Nat
      /\ Cardinality(ToPublish') <= Cardinality(ToPublish)
  BY CountTypes, NoMore
<1>2. /\ Cardinality(ToSave') \in Nat /\ Cardinality(ToSave) \in Nat
      /\ Cardinality(ToSave') <= Cardinality(ToSave)
  BY CountTypes, NoMore
<1>3. node.instance \in Nat /\ next \in Nat /\ MaxResets \in Nat /\ MaxSnapshots \in Nat
  BY LifecycleAssumption DEF StoreType, NodeType, SnapshotsType, Parts
<1> QED
  BY <1>1, <1>2, <1>3 DEF CountInv

LEMMA CountStep ==
    ASSUME LocksInv, StoreType, PairInv, CountInv, LifecycleNext
    PROVE  CountInv'
<1>0. node \in [Parts -> Nat] /\ next \in Nat /\ MaxResets \in Nat /\ MaxSnapshots \in Nat
      /\ node.instance \in Nat
  BY LifecycleAssumption DEF StoreType, NodeType, SnapshotsType, Parts
<1>1. ASSUME NEW r \in Requests, Step(r) PROVE CountInv'
  <2>0. IsRunning(r) /\ ToPublish' \subseteq ToPublish /\ ToSave' \subseteq ToSave
    BY <1>1, CountsFall DEF Step, IsRunning
  <2>1. CASE \/ Wait(r) \/ Acquire(r) \/ Drop(r) \/ Observe(r) \/ Outcome(r)
             \/ AwaitInclusion(r) \/ CopyPool(r) \/ DropStates(r) \/ DropPools(r)
             \/ SavePool(r) \/ RevertState(r)
    <3>1. node' = node /\ next' = next /\ states' \subseteq states
      BY <2>1 DEF Wait, Acquire, Drop, Observe, Outcome, AwaitInclusion, CopyPool,
                  DropStates, DropPools, SavePool, RevertState
    <3> QED
      BY <2>0, <3>1, CountKept
  <2>2. CASE RestorePool(r)
    <3>1. PICK v : node' = node \/ node' = [node EXCEPT !.pool = v]
      BY <2>2 DEF RestorePool
    <3>2. node'.instance = node.instance
      BY <1>0, <3>1 DEF Parts
    <3>3. next' = next /\ states' = states
      BY <2>2 DEF RestorePool
    <3> QED
      BY <2>0, <3>2, <3>3, CountKept
  <2>3. CASE PublishPart(r)
    <3>1. /\ At(r, "publish")
          /\ node' = [node EXCEPT ![Argument(r)] = node[Argument(r)] + 1]
          /\ (next' = next \/ next' = 0) /\ states' = states
      BY <2>3 DEF PublishPart
    <3>2. /\ requests[r].kind \in Resets
          /\ Argument(r) = "instance" => Stage(r) = 6
          /\ Argument(r) \in {"db", "chain", "pool", "instance"}
      BY <2>0, <3>1, PublishPlaces
    <3>3. CASE Argument(r) # "instance"
      <4>1. node'.instance = node.instance
        BY <1>0, <3>1, <3>2, <3>3 DEF Parts
      <4> QED
        BY <2>0, <3>1, <4>1, CountKept
    <3>4. CASE Argument(r) = "instance"
      <4>1. node'.instance = node.instance + 1
        BY <1>0, <3>1, <3>4 DEF Parts
      <4>2. r \in ToPublish
        BY <3>2, <3>4 DEF ToPublish
      <4>3. r \notin ToPublish'
        <5>1. Continue(r) /\ 6 \in 1..8 /\ 6 # 8
          BY <2>3 DEF PublishPart
        <5>2. Stage(r)' = 6 + 1
          BY <2>0, <3>1, <3>2, <3>4, <5>1, ResetGoesOn
        <5> QED
          BY <5>2 DEF ToPublish
      <4>4. /\ Cardinality(ToPublish') \in Nat /\ Cardinality(ToPublish) \in Nat
            /\ Cardinality(ToPublish') + 1 <= Cardinality(ToPublish)
        BY <2>0, <4>2, <4>3, CountTypes, OneLess
      <4>5. /\ Cardinality(ToSave') \in Nat /\ Cardinality(ToSave) \in Nat
            /\ Cardinality(ToSave') <= Cardinality(ToSave)
        BY <2>0, CountTypes, NoMore
      <4> QED
        BY <1>0, <3>1, <4>1, <4>4, <4>5 DEF CountInv
    <3> QED
      BY <3>3, <3>4
  <2>4. CASE SaveState(r)
    <3>1. /\ At(r, "do") /\ Argument(r) = "save_state"
          /\ next' = next + 1 /\ states' = states \cup {next'} /\ node' = node
      BY <2>4 DEF SaveState, DoesNow
    <3>2. requests[r].kind = "snapshot" /\ requests[r].pc = 5
      BY <2>0, <3>1, RunningInPlace DEF Placed, At, Argument, Instruction
    <3>3. PICK req : GoesOnBy(r, req, queues)
      BY <2>0, <2>4, EffectShapes DEF LocksInv
    <3>4. requests'[r].pc = 6
      <4>1. 5 \in {5, 7} /\ 5 # 7
        OBVIOUS
      <4> QED
        BY <2>0, <3>2, <3>3, <4>1, SnapshotGoesOn
    <3>5. r \in ToSave /\ r \notin ToSave'
      BY <3>2, <3>4 DEF ToSave
    <3>6. /\ Cardinality(ToSave') \in Nat /\ Cardinality(ToSave) \in Nat
          /\ Cardinality(ToSave') + 1 <= Cardinality(ToSave)
      BY <2>0, <3>5, CountTypes, OneLess
    <3>7. /\ Cardinality(ToPublish') \in Nat /\ Cardinality(ToPublish) \in Nat
          /\ Cardinality(ToPublish') <= Cardinality(ToPublish)
      BY <2>0, CountTypes, NoMore
    <3> QED
      BY <1>0, <3>1, <3>6, <3>7 DEF CountInv
  <2> QED
    BY <1>1, <2>1, <2>2, <2>3, <2>4 DEF Step
<1>2. ASSUME NEW r \in Requests, NEW kind \in KindsOf(r), Start(r, kind)
      PROVE  CountInv'
  <2>1. /\ requests'[r] = [Idle EXCEPT !.kind = kind, !.pc = 1]
        /\ \A s \in Requests \ {r} : requests'[s] = requests[s]
    BY <1>2, StartKeeps
  <2>2. requests'[r].kind = kind
    BY <2>1 DEF Idle
  <2>3. /\ node' = node /\ next' = next /\ states' = states
        /\ kind \in Resets => node.instance + Cardinality(Running(Resets)) < MaxResets
        /\ kind = "snapshot" => next + Cardinality(Running({kind})) < MaxSnapshots
    BY <1>2 DEF Start
  <2>4. /\ ToPublish' \subseteq ToPublish \cup {r}
        /\ kind \notin Resets => ToPublish' \subseteq ToPublish
        /\ ToSave' \subseteq ToSave \cup {r}
        /\ kind # "snapshot" => ToSave' \subseteq ToSave
    BY <2>1, <2>2 DEF ToPublish, ToSave, Stage, Base
  <2>5. node'.instance + Cardinality(ToPublish') <= MaxResets
    <3>1. CASE kind \in Resets
      <4>1. /\ IsFiniteSet(Running(Resets))
            /\ ToPublish' \subseteq Running(Resets) \cup {r}
        <5>1. ToPublish \subseteq Running(Resets) /\ Running(Resets) \subseteq Requests
          BY DEF ToPublish, Running
        <5> QED
          BY <2>4, <5>1, RequestsFinite, FS_Subset
      <4>2. /\ Cardinality(ToPublish') \in Nat /\ Cardinality(Running(Resets)) \in Nat
            /\ Cardinality(ToPublish') <= Cardinality(Running(Resets)) + 1
        BY <4>1, OneMore
      <4> QED
        BY <1>0, <2>3, <3>1, <4>2
    <3>2. CASE kind \notin Resets
      <4>1. /\ Cardinality(ToPublish') \in Nat /\ Cardinality(ToPublish) \in Nat
            /\ Cardinality(ToPublish') <= Cardinality(ToPublish)
        BY <2>4, <3>2, CountTypes, NoMore
      <4> QED
        BY <1>0, <2>3, <4>1 DEF CountInv
    <3> QED
      BY <3>1, <3>2
  <2>6. next' + Cardinality(ToSave') <= MaxSnapshots
    <3>1. CASE kind = "snapshot"
      <4> DEFINE R == Running({kind})
      <4>1. IsFiniteSet(R) /\ ToSave' \subseteq R \cup {r}
        <5>1. ToSave \subseteq R /\ R \subseteq Requests
          BY <3>1 DEF ToSave, Running
        <5> QED
          BY <2>4, <5>1, RequestsFinite, FS_Subset
      <4> HIDE DEF R
      <4>2. /\ Cardinality(ToSave') \in Nat /\ Cardinality(R) \in Nat
            /\ Cardinality(ToSave') <= Cardinality(R) + 1
        BY <4>1, OneMore
      <4> QED
        BY <1>0, <2>3, <3>1, <4>2 DEF R
    <3>2. CASE kind # "snapshot"
      <4>1. /\ Cardinality(ToSave') \in Nat /\ Cardinality(ToSave) \in Nat
            /\ Cardinality(ToSave') <= Cardinality(ToSave)
        BY <2>4, <3>2, CountTypes, NoMore
      <4> QED
        BY <1>0, <2>3, <4>1 DEF CountInv
    <3> QED
      BY <3>1, <3>2
  <2> QED
    BY <2>3, <2>5, <2>6 DEF CountInv
<1> QED
  BY <1>1, <1>2 DEF LifecycleNext

LEMMA CountAlways == LifecycleSpec => []CountInv
<1>1. LifecycleInit => CountInv
  <2> SUFFICES ASSUME LifecycleInit PROVE CountInv
    OBVIOUS
  <2>1. ToPublish = {} /\ ToSave = {}
    BY DEF LifecycleInit, ToPublish, ToSave, Idle, Resets
  <2>2. Cardinality(ToPublish) = 0 /\ Cardinality(ToSave) = 0
    BY <2>1, FS_EmptySet
  <2>3. node.instance = 0 /\ next = 0 /\ states = {}
    BY DEF LifecycleInit, Parts
  <2> QED
    BY <2>2, <2>3, LifecycleAssumption DEF CountInv
<1>2. LifecycleInv /\ CountInv /\ [LifecycleNext]_lifecycleVars => CountInv'
  <2>1. ASSUME LifecycleInv, CountInv, LifecycleNext PROVE CountInv'
    BY <2>1, CountStep DEF LifecycleInv
  <2>2. ASSUME CountInv, UNCHANGED lifecycleVars PROVE CountInv'
    BY <2>2 DEF CountInv, ToPublish, ToSave, Stage, lifecycleVars
  <2> QED
    BY <2>1, <2>2
<1> QED
  BY <1>1, <1>2, LifecycleInvariant, PTL DEF LifecycleSpec

\* No part of the node is ahead of what the resets may publish.
LEMMA PartsBounded ==
    ASSUME LifecycleInv, CountInv
    PROVE  node \in [Parts -> 0..MaxResets]
<1>0. /\ node.db \in Nat /\ node.chain \in Nat /\ node.instance \in Nat
      /\ node.pool \in Nat /\ node \in [Parts -> Nat] /\ MaxResets \in Nat
  BY LifecycleAssumption DEF LifecycleInv, StoreType, NodeType, Parts
<1>1. node.instance + Cardinality(ToPublish) <= MaxResets
      /\ Cardinality(ToPublish) \in Nat
  BY CountTypes DEF CountInv
<1>2. /\ node.db <= MaxResets /\ node.chain <= MaxResets
      /\ node.instance <= MaxResets /\ node.pool <= MaxResets
  <2>1. CASE \A r \in Requests : ~Commits(r)
    <3>1. node.chain = node.db /\ node.instance = node.db /\ node.pool = node.db
      BY <2>1 DEF LifecycleInv, NodeInv, Uniform, Parts
    <3> QED
      BY <1>0, <1>1, <3>1
  <2>2. ASSUME NEW r \in Requests, Commits(r)
        PROVE  /\ node.db <= MaxResets /\ node.chain <= MaxResets
               /\ node.instance <= MaxResets /\ node.pool <= MaxResets
    <3>1. /\ node.db = node.chain + Ahead(2, Stage(r))
          /\ node.db = node.instance + Ahead(6, Stage(r))
          /\ node.db = node.pool + Ahead(7, Stage(r))
      BY <2>2 DEF LifecycleInv, NodeInv
    <3>2. \A p, n : Ahead(p, n) \in {0, 1}
      BY DEF Ahead
    <3>3. node.db <= MaxResets
      <4>1. CASE Stage(r) > 6
        BY <1>0, <1>1, <3>1, <4>1 DEF Ahead
      <4>2. CASE ~(Stage(r) > 6)
        <5>1. r \in ToPublish
          BY <2>2, <4>2 DEF ToPublish, Commits
        <5>2. Cardinality({}) + 1 <= Cardinality(ToPublish)
          BY <5>1, CountTypes, OneLess
        <5>3. Cardinality({}) = 0
          BY FS_EmptySet
        <5> QED
          BY <1>0, <1>1, <3>1, <3>2, <5>2, <5>3
      <4> QED
        BY <4>1, <4>2
    <3> QED
      BY <1>0, <3>1, <3>2, <3>3
  <2> QED
    BY <2>1, <2>2
<1> QED
  BY <1>0, <1>2 DEF Parts

(* The shape of the state; and that only running requests hold or wait for a
   lock: the guards of a handler are dropped on every way out of it, whether
   it ends, fails, or is refused (api.rs:684, 854, 2132).                  *)
THEOREM LifecycleTypeCorrect == LifecycleSpec => []LifecycleTypeOK
<1>1. LifecycleInv /\ CountInv => LifecycleTypeOK
  <2> SUFFICES ASSUME LifecycleInv, CountInv PROVE LifecycleTypeOK
    OBVIOUS
  <2>1. node \in [Parts -> 0..MaxResets]
    BY PartsBounded
  <2>2. next \in 0..MaxSnapshots /\ states \subseteq 1..MaxSnapshots
    BY CountTypes, LifecycleAssumption
       DEF CountInv, LifecycleInv, StoreType, SnapshotsType
  <2>3. ASSUME NEW r \in Requests
        PROVE  /\ requests[r].kind \in KindsOf(r) \cup {"idle"}
               /\ requests[r].seen \subseteq 0..MaxResets
    <3>1. requests[r].kind \in KindsOf(r) \cup {"idle"}
      BY DEF LifecycleInv, LocksInv, RunInv, IsRunning
    <3>2. requests[r].seen \subseteq {node.db}
      BY DEF LifecycleInv, SeenInv
    <3>3. node.db \in 0..MaxResets
      BY <2>1 DEF Parts
    <3> QED
      BY <3>1, <3>2, <3>3
  <2>4. \A l \in Locks : \A i \in 1..Len(queues[l]) :
           requests[queues[l][i].who].kind # "idle"
    BY DEF LifecycleInv, LocksInv, QueueInv, Rightful
  <2> QED
    BY <2>1, <2>2, <2>3, <2>4 DEF LifecycleTypeOK
<1> QED
  BY <1>1, LifecycleInvariant, CountAlways, PTL


(***************************************************************************)
(* Block production (NodeService).                                         *)
(***************************************************************************)

USE MiningAssumption

(* What the pool holds is finite, so its size is a number. *)
LEMMA ReadyCount ==
    ASSUME NEW S, S \subseteq Txs
    PROVE  IsFiniteSet(S) /\ Cardinality(S) \in Nat
BY FS_Subset, FS_CardinalityType

(* The miner's own updates stay within its states. *)
MinerType == [mode : Modes, hasPending : {"unknown", "yes", "no"},
              coalesce : {"none", "running", "elapsed"}, tickDue : BOOLEAN]

LEMMA MinerUpdates ==
    ASSUME NEW m \in MinerType, NEW g, NEW b \in BOOLEAN
    PROVE  /\ HandleFailedCandidate(m, g) \in MinerType
           /\ Drained(m) \in MinerType
           /\ Armed(m) \in MinerType
           /\ AfterSelect(m) \in MinerType
           /\ Resumed(m) \in MinerType
           /\ [m EXCEPT !.hasPending = "yes"] \in MinerType
           /\ [m EXCEPT !.tickDue = b] \in MinerType
           /\ [m EXCEPT !.coalesce = "elapsed"] \in MinerType
<1>1. [m EXCEPT !.hasPending = "yes"] \in MinerType
  BY DEF MinerType
<1>2. [m EXCEPT !.tickDue = b] \in MinerType
  BY DEF MinerType
<1>3. [m EXCEPT !.coalesce = "elapsed"] \in MinerType
  BY DEF MinerType
<1>4. HandleFailedCandidate(m, g) \in MinerType
  BY DEF MinerType, HandleFailedCandidate
<1>5. Drained(m) \in MinerType
  BY DEF MinerType, Drained
<1>6. Armed(m) \in MinerType
  BY <1>5 DEF MinerType, Armed
<1>7. AfterSelect(m) \in MinerType
  BY DEF MinerType, AfterSelect
<1>8. Resumed(m) \in MinerType
  BY DEF MinerType, Resumed
<1> QED
  BY <1>1, <1>2, <1>3, <1>4, <1>5, <1>6, <1>7, <1>8

LEMMA NewModeType ==
    ASSUME NEW mode \in Modes
    PROVE  NewMode(mode) \in MinerType
BY DEF NewMode, MinerType

(* TypeOK in parts, so that a step has only to look at what it changes. *)
ChannelType == channel \in 0..ListenerBuffer
EpochType == generation \in Nat /\ pauseEpoch \in Nat
WakeType == woken \in BOOLEAN /\ registered \in BOOLEAN
Tasks == [state : {"none", "waiting", "mining", "done"},
          selected : Nat, generation : Nat, pauseEpoch : Nat,
          txs : SUBSET Txs,
          result : {"none", "mined", "skipped", "failed"}]
TaskType == task \in Tasks
LockType == lock \in {"free", "submit", "manual", "task"}
TxsType == /\ ready \subseteq Txs /\ waiting \subseteq Txs
           /\ submitted \subseteq Txs /\ manualTxs \subseteq Txs
FlagType == /\ unnotified \in BOOLEAN /\ renotify \in BOOLEAN
            /\ pausing \in BOOLEAN /\ quiet \in BOOLEAN
            /\ gaveUp \in BOOLEAN /\ autoWanted \in BOOLEAN

LEMMA TypeParts ==
    TypeOK <=> /\ miner \in MinerType /\ ChannelType /\ EpochType /\ WakeType
               /\ TaskType /\ LockType /\ TxsType /\ FlagType
BY Zenon DEF TypeOK, MinerType, ChannelType, EpochType, WakeType, TaskType,
             Tasks, LockType, TxsType, FlagType

LEMMA TypePartsNext ==
    (miner \in MinerType /\ ChannelType /\ EpochType /\ WakeType /\ TaskType
        /\ LockType /\ TxsType /\ FlagType)' => TypeOK'
BY Zenon DEF TypeOK, MinerType, ChannelType, EpochType, WakeType, TaskType,
             Tasks, LockType, TxsType, FlagType

LEMMA MinimumType ==
    ASSUME NEW a \in Nat, NEW b \in Nat
    PROVE  Minimum(a, b) \in Nat /\ Minimum(a, b) <= b
BY DEF Minimum

LEMMA ChannelGrows ==
    ASSUME ChannelType
    PROVE  Minimum(channel + 1, ListenerBuffer) \in 0..ListenerBuffer
BY DEF ChannelType, Minimum

(* A notification keeps the channel within its buffer. *)
LEMMA NotifyType ==
    ASSUME ChannelType, WakeType, Notify
    PROVE  ChannelType' /\ WakeType'
<1>1. ChannelType'
  BY ChannelGrows DEF ChannelType, Notify
<1>2. WakeType'
  BY DEF WakeType, Notify, Wake, wakeVars
<1> QED
  BY <1>1, <1>2

LEMMA WakeKeepsType ==
    ASSUME WakeType, Wake
    PROVE  WakeType'
BY Zenon DEF WakeType, Wake

(* A mined block moves transactions between the two sets and out of them. *)
LEMMA MinedBlockType ==
    ASSUME TypeOK, NEW S, S \subseteq Txs, NEW b \in BOOLEAN, MinedBlock(S, b)
    PROVE  /\ miner' \in MinerType
           /\ ChannelType'
           /\ WakeType'
           /\ ready' \subseteq Txs /\ waiting' \subseteq Txs
           /\ submitted' = submitted
           /\ renotify' \in BOOLEAN /\ unnotified' \in BOOLEAN
           /\ gaveUp' \in BOOLEAN
<1> USE TypeParts
<1>1. miner' \in MinerType
  <2>1. miner' = miner \/ miner' = [miner EXCEPT !.hasPending = "yes"]
    BY Zenon DEF MinedBlock
  <2> QED
    BY <2>1, MinerUpdates
<1>2. ChannelType'
  <2>1. \/ channel' = channel
        \/ channel' = Minimum(channel + 1, ListenerBuffer)
    BY Zenon DEF MinedBlock
  <2> QED
    BY <2>1, ChannelGrows DEF ChannelType
<1>3. WakeType'
  BY Zenon DEF MinedBlock, WakeType
<1>4. ready' \subseteq Txs /\ waiting' \subseteq Txs
  BY DEF MinedBlock, TxsType
<1>5. submitted' = submitted /\ unnotified' \in BOOLEAN
  BY Zenon DEF MinedBlock, FlagType
<1>6. renotify' \in BOOLEAN /\ gaveUp' \in BOOLEAN
  BY Zenon DEF MinedBlock, FlagType
<1> QED
  BY <1>1, <1>2, <1>3, <1>4, <1>5, <1>6

LEMMA NoTaskType == NoTask \in Tasks
BY DEF NoTask, Tasks

(* What ServicePoll selects is a number of transactions. *)
LEMMA SelectedType ==
    ASSUME TypeOK, NEW m \in MinerType
    PROVE  Selected(m) \in Nat
BY ReadyCount, MinimumType, TypeParts DEF Selected, TxsType

LEMMA SetMiningModeType ==
    ASSUME TypeOK, NEW mode \in Modes, SetMiningMode(mode)
    PROVE  miner' \in MinerType /\ ChannelType' /\ EpochType' /\ WakeType'
<1>1. miner' \in MinerType
  BY NewModeType DEF SetMiningMode
<1>2. ChannelType' /\ EpochType'
  BY TypeParts DEF SetMiningMode, ChannelType, EpochType
<1>3. WakeType'
  BY TypeParts, WakeKeepsType DEF SetMiningMode
<1> QED
  BY <1>1, <1>2, <1>3

LEMMA InitType == Init => TypeOK
<1> SUFFICES ASSUME Init PROVE TypeOK
  OBVIOUS
<1>1. miner \in MinerType /\ ChannelType /\ EpochType
  BY NewModeType DEF Init, ChannelType, EpochType
<1>2. WakeType /\ LockType
  BY Zenon DEF Init, WakeType, LockType
<1>3. TaskType
  BY NoTaskType DEF Init, TaskType
<1>4. TxsType
  BY DEF Init, TxsType
<1>5. FlagType
  <2>1. autoWanted \in BOOLEAN
    BY DEF Init, IsAuto
  <2> QED
    BY <2>1, Zenon DEF Init, FlagType
<1> QED
  BY <1>1, <1>2, <1>3, <1>4, <1>5, TypeParts

LEMMA TypeStep == TypeOK /\ [Next]_vars => TypeOK'
<1> SUFFICES ASSUME TypeOK, [Next]_vars PROVE TypeOK'
  OBVIOUS
<1> USE TypeParts, TypePartsNext
<1> USE DEF minerVars, wakeVars, poolVars
<1>1. ASSUME NEW t \in Txs, SubmitTx(t) PROVE TypeOK'
  <2>1. miner' \in MinerType /\ ChannelType' /\ EpochType' /\ TaskType'
    BY <1>1 DEF SubmitTx, ChannelType, EpochType, TaskType
  <2>2. WakeType' /\ LockType' /\ FlagType'
    BY <1>1, Zenon DEF SubmitTx, WakeType, LockType, FlagType
  <2>3. TxsType'
    BY <1>1 DEF SubmitTx, TxsType
  <2> QED
    BY <2>1, <2>2, <2>3
<1>2. ASSUME FinishSubmit PROVE TypeOK'
  <2>1. miner' \in MinerType /\ EpochType' /\ TaskType' /\ TxsType'
    BY <1>2 DEF FinishSubmit, EpochType, TaskType, TxsType
  <2>2. LockType' /\ FlagType'
    BY <1>2, Zenon DEF FinishSubmit, LockType, FlagType
  <2>3. ChannelType' /\ WakeType'
    <3>1. CASE unnotified
      BY <1>2, <3>1, NotifyType DEF FinishSubmit
    <3>2. CASE ~unnotified
      BY <1>2, <3>2 DEF FinishSubmit, ChannelType, WakeType
    <3> QED
      BY <3>1, <3>2
  <2> QED
    BY <2>1, <2>2, <2>3
<1>3. ASSUME NEW S \in SUBSET Txs, DropTxs(S) PROVE TypeOK'
  <2>1. miner' \in MinerType /\ ChannelType' /\ EpochType' /\ TaskType'
    BY <1>3 DEF DropTxs, ChannelType, EpochType, TaskType
  <2>2. WakeType' /\ LockType' /\ FlagType'
    BY <1>3, Zenon DEF DropTxs, WakeType, LockType, FlagType
  <2>3. TxsType'
    BY <1>3 DEF DropTxs, TxsType
  <2> QED
    BY <2>1, <2>2, <2>3
<1>4. ASSUME Renotify PROVE TypeOK'
  <2>1. miner' \in MinerType /\ EpochType' /\ TaskType' /\ TxsType'
    BY <1>4 DEF Renotify, EpochType, TaskType, TxsType
  <2>2. LockType' /\ FlagType'
    BY <1>4, Zenon DEF Renotify, LockType, FlagType
  <2>3. ChannelType' /\ WakeType'
    BY <1>4, NotifyType DEF Renotify
  <2> QED
    BY <2>1, <2>2, <2>3
<1>5. ASSUME ManualLock PROVE TypeOK'
  <2>1. miner' \in MinerType /\ ChannelType' /\ EpochType' /\ TaskType'
    BY <1>5 DEF ManualLock, ChannelType, EpochType, TaskType
  <2>2. WakeType' /\ LockType' /\ FlagType'
    BY <1>5, Zenon DEF ManualLock, WakeType, LockType, FlagType
  <2>3. TxsType'
    BY <1>5 DEF ManualLock, TxsType
  <2> QED
    BY <2>1, <2>2, <2>3
<1>6. ASSUME ManualMine PROVE TypeOK'
  <2>1. MinedBlock(manualTxs, FALSE) /\ manualTxs \subseteq Txs
    BY <1>6 DEF ManualMine, TxsType
  <2>2. EpochType' /\ TaskType'
    BY <1>6 DEF ManualMine, EpochType, TaskType
  <2>3. LockType' /\ pausing' \in BOOLEAN /\ quiet' \in BOOLEAN
        /\ autoWanted' \in BOOLEAN
    BY <1>6, Zenon DEF ManualMine, LockType, FlagType
  <2>4. manualTxs' \subseteq Txs
    BY <1>6 DEF ManualMine
  <2> QED
    BY <2>1, <2>2, <2>3, <2>4, MinedBlockType, Zenon DEF TxsType, FlagType
<1>7. ASSUME ManualFail PROVE TypeOK'
  <2>1. miner' \in MinerType /\ ChannelType' /\ EpochType' /\ TaskType'
    BY <1>7 DEF ManualFail, ChannelType, EpochType, TaskType
  <2>2. WakeType' /\ LockType' /\ FlagType'
    BY <1>7, Zenon DEF ManualFail, WakeType, LockType, FlagType
  <2>3. TxsType'
    BY <1>7 DEF ManualFail, TxsType
  <2> QED
    BY <2>1, <2>2, <2>3
<1>8. ASSUME TaskLock PROVE TypeOK'
  <2>1. miner' \in MinerType /\ ChannelType' /\ EpochType' /\ TxsType'
    BY <1>8 DEF TaskLock, ChannelType, EpochType, TxsType
  <2>2. WakeType' /\ LockType' /\ FlagType'
    BY <1>8, Zenon DEF TaskLock, WakeType, LockType, FlagType
  <2>3. TaskType'
    <3>1. PICK S \in SUBSET ready :
             \/ task' = [task EXCEPT !.state = "done", !.result = "skipped"]
             \/ task' = [task EXCEPT !.state = "mining", !.txs = S]
      BY <1>8, Zenon DEF TaskLock
    <3>2. S \in SUBSET Txs
      BY DEF TxsType
    <3> QED
      BY <3>1, <3>2 DEF TaskType, Tasks
  <2> QED
    BY <2>1, <2>2, <2>3
<1>9. ASSUME TaskMine PROVE TypeOK'
  <2>1. MinedBlock(task.txs, TRUE) /\ task.txs \subseteq Txs
    BY <1>9 DEF TaskMine, TaskType, Tasks
  <2>2. EpochType' /\ TaskType'
    BY <1>9 DEF TaskMine, EpochType, TaskType, Tasks
  <2>3. LockType' /\ pausing' \in BOOLEAN /\ quiet' \in BOOLEAN
        /\ autoWanted' \in BOOLEAN
    BY <1>9, Zenon DEF TaskMine, LockType, FlagType
  <2>4. manualTxs' \subseteq Txs
    BY <1>9 DEF TaskMine, TxsType
  <2> QED
    BY <2>1, <2>2, <2>3, <2>4, MinedBlockType, Zenon DEF TxsType, FlagType
<1>10. ASSUME TaskFail PROVE TypeOK'
  <2>1. miner' \in MinerType /\ ChannelType' /\ EpochType' /\ TaskType'
    BY <1>10 DEF TaskFail, ChannelType, EpochType, TaskType, Tasks
  <2>2. WakeType' /\ LockType' /\ FlagType'
    BY <1>10, Zenon DEF TaskFail, WakeType, LockType, FlagType
  <2>3. TxsType'
    BY <1>10 DEF TaskFail, TxsType
  <2> QED
    BY <2>1, <2>2, <2>3
<1>11. ASSUME ServicePoll PROVE TypeOK'
  <2>1. LockType' /\ TxsType' /\ EpochType'
    BY <1>11 DEF ServicePoll, LockType, TxsType, EpochType
  <2>2. WakeType' /\ FlagType'
    BY <1>11, Zenon DEF ServicePoll, WakeType, FlagType
  <2>3. miner' \in MinerType /\ ChannelType' /\ TaskType'
    <3>1. CASE task.state \in {"waiting", "mining"}
      BY <1>11, <3>1 DEF ServicePoll, ChannelType, TaskType
    <3>2. CASE task.state \notin {"waiting", "mining"}
      <4> DEFINE m == IF task.result = "failed"
                      THEN HandleFailedCandidate(miner, task.generation)
                      ELSE miner
      <4>1. m \in MinerType
        BY MinerUpdates
      <4> HIDE DEF m
      <4>2. /\ channel' = IF IsAuto(m) THEN 0 ELSE channel
            /\ IF IsPaused
               THEN miner' = Drained(m) /\ task' = NoTask
               ELSE /\ miner' = AfterSelect(Armed(m))
                    /\ task' = IF YieldsWork(Armed(m))
                               THEN [NoTask EXCEPT
                                       !.state = "waiting",
                                       !.selected = Selected(Armed(m)),
                                       !.generation = generation,
                                       !.pauseEpoch = pauseEpoch]
                               ELSE NoTask
        BY <1>11, <3>2, Zenon DEF ServicePoll, m
      <4>3. ChannelType'
        BY <4>2 DEF ChannelType
      <4>4. miner' \in MinerType
        BY <4>1, <4>2, MinerUpdates
      <4>5. TaskType'
        <5>1. Selected(Armed(m)) \in Nat
          BY <4>1, MinerUpdates, SelectedType
        <5> QED
          BY <4>2, <5>1, NoTaskType DEF TaskType, Tasks, EpochType
      <4> QED
        BY <4>3, <4>4, <4>5
    <3> QED
      BY <3>1, <3>2
  <2> QED
    BY <2>1, <2>2, <2>3
<1>12. ASSUME IntervalTick \/ CoalesceElapsed PROVE TypeOK'
  <2>1. miner' \in MinerType
    BY <1>12, MinerUpdates DEF IntervalTick, CoalesceElapsed
  <2>2. ChannelType' /\ EpochType' /\ TaskType' /\ TxsType'
    BY <1>12 DEF IntervalTick, CoalesceElapsed, ChannelType, EpochType,
                 TaskType, TxsType
  <2>3. LockType' /\ FlagType'
    BY <1>12, Zenon DEF IntervalTick, CoalesceElapsed, LockType, FlagType
  <2>4. WakeType'
    BY <1>12, WakeKeepsType DEF IntervalTick, CoalesceElapsed
  <2> QED
    BY <2>1, <2>2, <2>3, <2>4
<1>13. ASSUME NEW b \in BOOLEAN, SetAutoMine(b) PROVE TypeOK'
  <2>1. miner' \in MinerType /\ ChannelType' /\ EpochType' /\ WakeType'
    <3>1. \/ SetMiningMode("none") \/ SetMiningMode("auto")
          \/ UNCHANGED <<minerVars, wakeVars>>
      BY <1>13 DEF SetAutoMine
    <3>2. ASSUME UNCHANGED <<minerVars, wakeVars>>
          PROVE  miner' \in MinerType /\ ChannelType' /\ EpochType' /\ WakeType'
      BY <3>2 DEF ChannelType, EpochType, WakeType
    <3> QED
      BY <3>1, <3>2, SetMiningModeType DEF Modes
  <2>2. TaskType' /\ TxsType'
    BY <1>13 DEF SetAutoMine, TaskType, TxsType
  <2>3. LockType' /\ FlagType'
    BY <1>13, Zenon DEF SetAutoMine, LockType, FlagType
  <2> QED
    BY <2>1, <2>2, <2>3
<1>14. ASSUME NEW b \in BOOLEAN, SetIntervalMining(b) PROVE TypeOK'
  <2>1. miner' \in MinerType /\ ChannelType' /\ EpochType' /\ WakeType'
    <3>1. SetMiningMode("none") \/ SetMiningMode("fixed")
      BY <1>14 DEF SetIntervalMining
    <3> QED
      BY <3>1, SetMiningModeType DEF Modes
  <2>2. TaskType' /\ TxsType'
    BY <1>14 DEF SetIntervalMining, TaskType, TxsType
  <2>3. LockType' /\ FlagType'
    BY <1>14, Zenon DEF SetIntervalMining, LockType, FlagType
  <2> QED
    BY <2>1, <2>2, <2>3
<1>15. ASSUME NEW b \in BOOLEAN, SetPaused(b) PROVE TypeOK'
  <2>1. miner' \in MinerType
    BY <1>15, MinerUpdates DEF SetPaused
  <2>2. ChannelType' /\ EpochType' /\ TaskType' /\ TxsType'
    BY <1>15 DEF SetPaused, ChannelType, EpochType, TaskType, TxsType
  <2>3. LockType' /\ FlagType'
    BY <1>15, Zenon DEF SetPaused, LockType, FlagType
  <2>4. WakeType'
    BY <1>15, WakeKeepsType DEF SetPaused
  <2> QED
    BY <2>1, <2>2, <2>3, <2>4
<1>16. ASSUME PauseReturns PROVE TypeOK'
  <2>1. miner' \in MinerType /\ ChannelType' /\ EpochType' /\ TaskType'
        /\ TxsType'
    BY <1>16 DEF PauseReturns, ChannelType, EpochType, TaskType, TxsType
  <2>2. WakeType' /\ LockType' /\ FlagType'
    BY <1>16, Zenon DEF PauseReturns, WakeType, LockType, FlagType, IsPaused
  <2> QED
    BY <2>1, <2>2
<1>17. CASE UNCHANGED vars
  <2>1. miner' \in MinerType /\ ChannelType' /\ EpochType' /\ TaskType'
        /\ LockType' /\ TxsType'
    BY <1>17 DEF vars, ChannelType, EpochType, TaskType, LockType, TxsType
  <2>2. WakeType' /\ FlagType'
    BY <1>17, Zenon DEF vars, WakeType, FlagType
  <2> QED
    BY <2>1, <2>2
<1> QED
  BY <1>1, <1>2, <1>3, <1>4, <1>5, <1>6, <1>7, <1>8, <1>9, <1>10, <1>11,
     <1>12, <1>13, <1>14, <1>15, <1>16, <1>17, Zenon
     DEF Next, PoolStep, ManualStep, TaskStep, ModeStep

----------------------------------------------------------------------------
(* Why a pause holds.  A pause request that has returned has seen the      *)
(* mutex free, so no block was being built then; a candidate selected      *)
(* before the pause carries an even epoch, and is stale until mining       *)
(* resumes.                                                                *)
PauseInv ==
    /\ PauseHonoured
    /\ quiet => IsPaused
    /\ task.state = "waiting" => task.pauseEpoch % 2 = 0
    /\ task.state = "mining" <=> lock = "task"

(* Why the service does not oversleep.  It sleeps without a task in flight *)
(* only with its waker registered, and, unless mining is paused, with the  *)
(* miner having nothing to select.                                         *)
SleepInv ==
    (~woken /\ task.state \notin {"waiting", "mining"}) =>
        /\ task.state = "none"
        /\ registered
        /\ ~IsPaused => /\ ~TickSelects(miner)
                        /\ IsAuto(miner) => channel = 0
                        /\ ~AutoSelects(miner)

(* Why no wake-up is lost.  Ready transactions that instant mining should  *)
(* take up.                                                                *)
Unserved == IsAuto(miner) /\ ~IsPaused /\ ready # {} /\ ~gaveUp

\* Somebody else will look at them, whatever becomes of the task.
Announced == miner.hasPending # "no" \/ channel > 0 \/ unnotified \/ renotify

\* The task will execute some transaction.
TaskServes ==
    \/ task.state = "waiting" /\ ~IsStale /\ task.selected > 0
    \/ task.state = "mining" /\ task.txs # {}

WakeupInv == Unserved => Announced \/ TaskServes

LEMMA PauseStep == TypeOK /\ PauseInv /\ [Next]_vars => PauseInv'
<1> SUFFICES ASSUME TypeOK, PauseInv, [Next]_vars PROVE PauseInv'
  OBVIOUS
<1> USE DEF minerVars, wakeVars, poolVars, PauseInv, PauseHonoured, IsPaused
<1>0. quiet \in BOOLEAN /\ task \in Tasks /\ pauseEpoch \in Nat
  BY TypeParts DEF TaskType, EpochType, FlagType
<1>1. ASSUME NEW t \in Txs, SubmitTx(t) PROVE PauseInv'
  BY <1>1 DEF SubmitTx
<1>2. ASSUME FinishSubmit PROVE PauseInv'
  BY <1>2 DEF FinishSubmit
<1>3. ASSUME NEW S \in SUBSET Txs, DropTxs(S) PROVE PauseInv'
  BY <1>3 DEF DropTxs
<1>4. ASSUME Renotify PROVE PauseInv'
  BY <1>4 DEF Renotify
<1>5. ASSUME ManualLock PROVE PauseInv'
  BY <1>5 DEF ManualLock
<1>6. ASSUME ManualMine PROVE PauseInv'
  BY <1>6 DEF ManualMine
<1>7. ASSUME ManualFail PROVE PauseInv'
  BY <1>7 DEF ManualFail
<1>8. ASSUME TaskLock PROVE PauseInv'
  <2>1. CASE IsStale
    <3>1. task' = [task EXCEPT !.state = "done", !.result = "skipped"]
          /\ UNCHANGED <<lock, quiet, pauseEpoch>>
      BY <1>8, <2>1 DEF TaskLock
    <3> QED
      BY <1>0, <1>8, <3>1 DEF Tasks, TaskLock
  <2>2. CASE ~IsStale
    <3>1. ~quiet
      BY <1>8, <2>2 DEF TaskLock, IsStale
    <3>2. UNCHANGED <<quiet, pauseEpoch>>
      BY <1>8 DEF TaskLock
    <3>3. \/ /\ task' = [task EXCEPT !.state = "done", !.result = "skipped"]
             /\ lock' = lock
          \/ /\ \E S : task' = [task EXCEPT !.state = "mining", !.txs = S]
             /\ lock' = "task"
      BY <1>8, Zenon DEF TaskLock
    <3>4. \/ task'.state = "done" /\ lock' = "free"
          \/ task'.state = "mining" /\ lock' = "task"
      BY <1>0, <1>8, <3>3 DEF Tasks, TaskLock
    <3> QED
      BY <3>1, <3>2, <3>4
  <2> QED
    BY <2>1, <2>2
<1>9. ASSUME TaskMine \/ TaskFail PROVE PauseInv'
  <2>1. /\ task'.state = "done" /\ lock' = "free"
        /\ UNCHANGED <<quiet, pauseEpoch>>
    BY <1>0, <1>9 DEF TaskMine, TaskFail, Tasks
  <2> QED
    BY <2>1
<1>10. ASSUME ServicePoll PROVE PauseInv'
  <2>1. UNCHANGED <<lock, quiet, pauseEpoch>>
    BY <1>10 DEF ServicePoll
  <2>2. CASE task' = task
    BY <2>1, <2>2
  <2>3. CASE task' = NoTask
    BY <1>10, <2>1, <2>3 DEF NoTask, ServicePoll
  <2>4. CASE /\ ~IsPaused
             /\ \E n : task' = [NoTask EXCEPT !.state = "waiting",
                                              !.selected = n,
                                              !.generation = generation,
                                              !.pauseEpoch = pauseEpoch]
    <3>1. task'.state = "waiting" /\ task'.pauseEpoch = pauseEpoch
      BY <2>4 DEF NoTask
    <3>2. ~quiet /\ pauseEpoch % 2 = 0
      BY <1>0, <2>4
    <3> QED
      BY <1>10, <2>1, <3>1, <3>2 DEF ServicePoll
  <2> QED
    BY <1>10, <2>2, <2>3, <2>4, Zenon DEF ServicePoll
<1>11. ASSUME IntervalTick \/ CoalesceElapsed PROVE PauseInv'
  BY <1>11 DEF IntervalTick, CoalesceElapsed
<1>12. ASSUME NEW b \in BOOLEAN, SetAutoMine(b) \/ SetIntervalMining(b)
       PROVE  PauseInv'
  BY <1>12 DEF SetAutoMine, SetIntervalMining, SetMiningMode
<1>13. ASSUME NEW b \in BOOLEAN, SetPaused(b) PROVE PauseInv'
  <2>1. UNCHANGED <<lock, task>> /\ quiet' = (quiet /\ b)
    BY <1>13 DEF SetPaused
  <2>2. quiet' => quiet /\ pauseEpoch' = pauseEpoch
    BY <1>0, <1>13, <2>1 DEF SetPaused
  <2> QED
    BY <2>1, <2>2
<1>14. ASSUME PauseReturns PROVE PauseInv'
  BY <1>14 DEF PauseReturns
<1>15. CASE UNCHANGED vars
  BY <1>15 DEF vars
<1> QED
  BY <1>1, <1>2, <1>3, <1>4, <1>5, <1>6, <1>7, <1>8, <1>9, <1>10, <1>11,
     <1>12, <1>13, <1>14, <1>15, Zenon
     DEF Next, PoolStep, ManualStep, TaskStep, ModeStep

(* A wake-up finds the service's waker, or a task whose end wakes it. *)
LEMMA WakeWakes ==
    ASSUME TypeOK, SleepInv, Wake, task' = task
    PROVE  SleepInv'
<1>1. WakeType
  BY TypeParts
<1> QED
  BY <1>1, Zenon DEF SleepInv, Wake, WakeType

LEMMA SleepUndisturbed ==
    ASSUME SleepInv, task' = task, UNCHANGED <<minerVars, wakeVars>>
    PROVE  SleepInv'
BY Zenon DEF SleepInv, minerVars, wakeVars, IsPaused, TickSelects, AutoSelects,
             IsAuto, IsFixed

(* After it has selected, the miner has nothing left to select. *)
LEMMA AfterSelectIdle ==
    ASSUME NEW m \in MinerType
    PROVE  /\ ~TickSelects(AfterSelect(m))
           /\ ~AutoSelects(AfterSelect(m))
           /\ IsAuto(AfterSelect(m)) <=> IsAuto(m)
           /\ IsAuto(Armed(m)) <=> IsAuto(m)
<1>1. ~TickSelects(AfterSelect(m)) /\ ~AutoSelects(AfterSelect(m))
  BY DEF MinerType, AfterSelect, TickSelects, AutoSelects, IsAuto, IsFixed
<1>2. IsAuto(AfterSelect(m)) <=> IsAuto(m)
  BY DEF MinerType, AfterSelect, IsAuto
<1>3. IsAuto(Armed(m)) <=> IsAuto(m)
  BY DEF MinerType, Armed, Drained, IsAuto
<1> QED
  BY <1>1, <1>2, <1>3

LEMMA SleepStep == TypeOK /\ SleepInv /\ [Next]_vars => SleepInv'
<1> SUFFICES ASSUME TypeOK, SleepInv, [Next]_vars PROVE SleepInv'
  OBVIOUS
<1> USE TypeParts
<1>1. ASSUME NEW t \in Txs, SubmitTx(t) PROVE SleepInv'
  BY <1>1, SleepUndisturbed DEF SubmitTx
<1>2. ASSUME Notify, UNCHANGED <<miner, generation, pauseEpoch, task>>
      PROVE  SleepInv'
  <2>1. CASE IsAuto(miner)
    BY <1>2, <2>1, WakeWakes DEF Notify
  <2>2. CASE ~IsAuto(miner)
    BY <1>2, <2>2, SleepUndisturbed DEF Notify, minerVars
  <2> QED
    BY <2>1, <2>2
<1>3. ASSUME FinishSubmit PROVE SleepInv'
  <2>1. CASE unnotified
    BY <1>2, <1>3, <2>1 DEF FinishSubmit
  <2>2. CASE ~unnotified
    BY <1>3, <2>2, SleepUndisturbed DEF FinishSubmit, minerVars
  <2> QED
    BY <2>1, <2>2
<1>4. ASSUME NEW S \in SUBSET Txs, DropTxs(S) PROVE SleepInv'
  BY <1>4, SleepUndisturbed DEF DropTxs
<1>5. ASSUME Renotify PROVE SleepInv'
  BY <1>2, <1>5 DEF Renotify
<1>6. ASSUME ManualLock \/ ManualFail \/ PauseReturns PROVE SleepInv'
  BY <1>6, SleepUndisturbed DEF ManualLock, ManualFail, PauseReturns
<1>7. ASSUME ManualMine PROVE SleepInv'
  <2>1. UNCHANGED <<generation, pauseEpoch, task>>
    BY <1>7 DEF ManualMine
  <2>2. \/ Wake
        \/ UNCHANGED <<miner, channel, woken, registered>>
    BY <1>7, Zenon DEF ManualMine, MinedBlock, Wake, WakeType
  <2> QED
    BY <2>1, <2>2, WakeWakes, SleepUndisturbed DEF minerVars, wakeVars
<1>8. ASSUME TaskLock PROVE SleepInv'
  <2>1. woken' = TRUE \/ task'.state = "mining"
    BY <1>8 DEF TaskLock, TaskType, Tasks
  <2> QED
    BY <2>1, Zenon DEF SleepInv
<1>9. ASSUME TaskMine \/ TaskFail PROVE SleepInv'
  <2>1. woken'
    BY <1>9, Zenon DEF TaskMine, TaskFail, MinedBlock
  <2> QED
    BY <2>1, Zenon DEF SleepInv
<1>10. ASSUME ServicePoll PROVE SleepInv'
  <2>1. CASE task.state \in {"waiting", "mining"}
    BY <1>10, <2>1, Zenon DEF ServicePoll, SleepInv
  <2>2. CASE task.state \notin {"waiting", "mining"}
    <3> DEFINE m == IF task.result = "failed"
                    THEN HandleFailedCandidate(miner, task.generation)
                    ELSE miner
    <3>1. m \in MinerType
      BY MinerUpdates
    <3> HIDE DEF m
    <3>2. /\ registered' = TRUE /\ pauseEpoch' = pauseEpoch
          /\ channel' = IF IsAuto(m) THEN 0 ELSE channel
          /\ \/ IsPaused /\ task' = NoTask
             \/ task'.state = "waiting"
             \/ task' = NoTask /\ miner' = AfterSelect(Armed(m))
      <4>1. registered' = TRUE /\ pauseEpoch' = pauseEpoch
            /\ channel' = IF IsAuto(m) THEN 0 ELSE channel
        BY <1>10, <2>2, Zenon DEF ServicePoll, m
      <4>2. IF IsPaused
            THEN task' = NoTask
            ELSE /\ miner' = AfterSelect(Armed(m))
                 /\ task' = IF YieldsWork(Armed(m))
                            THEN [NoTask EXCEPT
                                    !.state = "waiting",
                                    !.selected = Selected(Armed(m)),
                                    !.generation = generation,
                                    !.pauseEpoch = pauseEpoch]
                            ELSE NoTask
        BY <1>10, <2>2, Zenon DEF ServicePoll, m
      <4>3. \/ IsPaused /\ task' = NoTask
            \/ task'.state = "waiting"
            \/ task' = NoTask /\ miner' = AfterSelect(Armed(m))
        BY <4>2 DEF NoTask
      <4> QED
        BY <4>1, <4>3
    <3>3. CASE IsPaused /\ task' = NoTask
      <4>1. task'.state = "none"
        BY <3>3 DEF NoTask
      <4>2. IsPaused'
        BY <3>2, <3>3 DEF IsPaused
      <4> QED
        BY <3>2, <4>1, <4>2, Zenon DEF SleepInv
    <3>4. CASE task'.state = "waiting"
      BY <3>4, Zenon DEF SleepInv
    <3>5. CASE task' = NoTask /\ miner' = AfterSelect(Armed(m))
      <4>1. task'.state = "none"
        BY <3>5 DEF NoTask
      <4>2. Armed(m) \in MinerType
        BY <3>1, MinerUpdates
      <4>3. ~TickSelects(miner') /\ ~AutoSelects(miner')
            /\ (IsAuto(miner') => IsAuto(m))
        BY <3>1, <3>5, <4>2, AfterSelectIdle, Zenon
      <4> QED
        BY <3>2, <4>1, <4>3, Zenon
           DEF SleepInv, TickSelects, AutoSelects, IsAuto, IsFixed
    <3> QED
      BY <3>2, <3>3, <3>4, <3>5
  <2> QED
    BY <2>1, <2>2
<1>11. ASSUME IntervalTick \/ CoalesceElapsed PROVE SleepInv'
  BY <1>11, WakeWakes DEF IntervalTick, CoalesceElapsed
<1>12. ASSUME NEW b \in BOOLEAN, SetAutoMine(b) \/ SetIntervalMining(b)
       PROVE  SleepInv'
  <2>1. task' = task
    BY <1>12 DEF SetAutoMine, SetIntervalMining
  <2>2. Wake \/ UNCHANGED <<minerVars, wakeVars>>
    BY <1>12 DEF SetAutoMine, SetIntervalMining, SetMiningMode
  <2> QED
    BY <2>1, <2>2, WakeWakes, SleepUndisturbed
<1>13. ASSUME NEW b \in BOOLEAN, SetPaused(b) PROVE SleepInv'
  BY <1>13, WakeWakes DEF SetPaused
<1>14. CASE UNCHANGED vars
  BY <1>14, SleepUndisturbed DEF vars
<1> QED
  BY <1>1, <1>3, <1>4, <1>5, <1>6, <1>7, <1>8, <1>9, <1>10, <1>11, <1>12,
     <1>13, <1>14, Zenon DEF Next, PoolStep, ManualStep, TaskStep, ModeStep

(* Steps that announce nothing and withdraw nothing. *)
LEMMA ServedUndisturbed ==
    ASSUME WakeupInv, ready' \subseteq ready,
           miner'.hasPending = miner.hasPending, IsAuto(miner') => IsAuto(miner),
           UNCHANGED <<pauseEpoch, task, channel, unnotified, renotify, gaveUp>>
    PROVE  WakeupInv'
<1>1. Unserved' => Unserved
  BY Zenon DEF Unserved, IsPaused, IsAuto
<1>2. Announced => Announced'
  BY Zenon DEF Announced
<1>3. TaskServes => TaskServes'
  BY Zenon DEF TaskServes, IsStale
<1> QED
  BY <1>1, <1>2, <1>3 DEF WakeupInv

(* A notification to an instant miner is in its channel. *)
LEMMA NotifyAnnounces ==
    ASSUME TypeOK, Notify, miner' = miner
    PROVE  WakeupInv'
<1>1. IsAuto(miner) => channel' > 0
  BY TypeParts DEF Notify, ChannelType, Minimum
<1> QED
  BY <1>1, Zenon DEF WakeupInv, Unserved, Announced, IsAuto

(* A mined block announces what it leaves behind, or it has used nothing:  *)
(* then it changed nothing either, and an automatic one had no             *)
(* transactions.                                                           *)
LEMMA MinedAnnounces ==
    ASSUME TypeOK, NEW S, NEW b \in BOOLEAN, MinedBlock(S, b),
           pauseEpoch' = pauseEpoch, Unserved'
    PROVE  Announced' \/ (Unserved /\ ~Announced /\ (b => S = {}))
<1>1. PICK gone \in SUBSET S, early \in SUBSET S, promoted \in SUBSET waiting :
         /\ promoted # {} => gone # {}
         /\ ready' = (ready \ gone) \cup promoted
         /\ renotify' = (renotify \/ early # {})
         /\ LET retry == gone # {} /\ early = {} /\ ready' # {} /\ IsAuto(miner)
                notify == promoted # {} /\ IsAuto(miner)
            IN  /\ miner' = IF retry THEN [miner EXCEPT !.hasPending = "yes"]
                            ELSE miner
                /\ channel' = IF notify
                              THEN Minimum(channel + 1, ListenerBuffer)
                              ELSE channel
         /\ gaveUp' = IF gone \cup early = {}
                      THEN gaveUp \/ (b /\ S # {}) ELSE FALSE
         /\ unnotified' = unnotified
  BY Zenon DEF MinedBlock
<1>2. miner \in MinerType
  BY TypeParts
<1>3. IsAuto(miner') => IsAuto(miner)
  BY <1>1, <1>2 DEF MinerType, IsAuto
<1>4. IsAuto(miner) /\ ready' # {} /\ ~gaveUp' /\ ~IsPaused
  BY <1>3, Zenon DEF Unserved, IsPaused, IsAuto
<1>5. CASE early # {}
  BY <1>1, <1>5, Zenon DEF Announced
<1>6. CASE early = {} /\ gone # {}
  <2>1. miner' = [miner EXCEPT !.hasPending = "yes"]
    BY <1>1, <1>4, <1>6, Zenon
  <2>2. miner'.hasPending # "no"
    BY <1>2, <2>1 DEF MinerType
  <2> QED
    BY <2>2, Zenon DEF Announced
<1>7. CASE early = {} /\ gone = {}
  <2>1. promoted = {} /\ miner' = miner /\ channel' = channel
    BY <1>1, <1>7, Zenon
  <2>2. ready' = ready
    BY <1>1, <1>7, <2>1
  <2>3. ~gaveUp /\ (b => S = {})
    BY <1>1, <1>4, <1>7, Zenon
  <2>4. Unserved
    BY <1>4, <2>2, <2>3, Zenon DEF Unserved
  <2>5. renotify => renotify'
    BY <1>1, Zenon
  <2>6. Announced => Announced'
    BY <1>1, <2>1, <2>5, Zenon DEF Announced
  <2> QED
    BY <2>3, <2>4, <2>6
<1> QED
  BY <1>5, <1>6, <1>7

LEMMA EmptyReady ==
    ASSUME TypeOK, ready # {}
    PROVE  Cardinality(ready) \in Nat /\ Cardinality(ready) > 0
<1>1. IsFiniteSet(ready) /\ Cardinality(ready) \in Nat
  BY TypeParts, ReadyCount DEF TxsType
<1> QED
  BY <1>1, FS_EmptySet

(* The miner forgets a pending selection only by selecting. *)
LEMMA PendingKept ==
    ASSUME NEW m \in MinerType, NEW g, TypeOK
    PROVE  /\ HandleFailedCandidate(m, g).hasPending = "no"
                 => m.hasPending = "no"
           /\ IsAuto(HandleFailedCandidate(m, g)) <=> IsAuto(m)
           /\ IsAuto(m) /\ Armed(m).hasPending = "no"
                 => m.hasPending = "no" /\ channel = 0
           /\ ~AutoSelects(m) => AfterSelect(m).hasPending = m.hasPending
<1>1. /\ HandleFailedCandidate(m, g).hasPending = "no" => m.hasPending = "no"
      /\ IsAuto(HandleFailedCandidate(m, g)) <=> IsAuto(m)
  BY DEF MinerType, HandleFailedCandidate, IsAuto
<1>2. IsAuto(m) /\ Armed(m).hasPending = "no" => m.hasPending = "no" /\ channel = 0
  BY TypeParts DEF MinerType, Armed, Drained, ChannelType
<1>3. ~AutoSelects(m) => AfterSelect(m).hasPending = m.hasPending
  BY DEF MinerType, AfterSelect
<1> QED
  BY <1>1, <1>2, <1>3

LEMMA WakeupStep ==
    ASSUME MaxTransactions > 0
    PROVE  TypeOK /\ WakeupInv /\ [Next]_vars => WakeupInv'
<1> SUFFICES ASSUME TypeOK, WakeupInv, [Next]_vars PROVE WakeupInv'
  OBVIOUS
<1> USE TypeParts
<1>1. ASSUME NEW t \in Txs, SubmitTx(t) PROVE WakeupInv'
  <2>1. CASE unnotified' = TRUE
    BY <2>1, Zenon DEF WakeupInv, Announced
  <2>2. CASE UNCHANGED <<ready, unnotified, gaveUp>>
    BY <1>1, <2>2, ServedUndisturbed DEF SubmitTx, minerVars
  <2> QED
    BY <1>1, <2>1, <2>2, Zenon DEF SubmitTx
<1>2. ASSUME FinishSubmit PROVE WakeupInv'
  <2>1. CASE unnotified
    BY <1>2, <2>1, NotifyAnnounces DEF FinishSubmit
  <2>2. CASE ~unnotified
    <3>1. unnotified' = unnotified
      BY <1>2, <2>2, Zenon DEF FinishSubmit, FlagType
    <3> QED
      BY <1>2, <2>2, <3>1, ServedUndisturbed DEF FinishSubmit
  <2> QED
    BY <2>1, <2>2
<1>3. ASSUME NEW S \in SUBSET Txs, DropTxs(S) PROVE WakeupInv'
  BY <1>3, ServedUndisturbed DEF DropTxs, minerVars
<1>4. ASSUME Renotify PROVE WakeupInv'
  BY <1>4, NotifyAnnounces DEF Renotify
<1>5. ASSUME ManualLock \/ ManualFail \/ PauseReturns PROVE WakeupInv'
  BY <1>5, ServedUndisturbed DEF ManualLock, ManualFail, PauseReturns,
                                 minerVars, poolVars
<1>6. ASSUME ManualMine PROVE WakeupInv'
  <2>1. MinedBlock(manualTxs, FALSE) /\ UNCHANGED <<pauseEpoch, task>>
    BY <1>6 DEF ManualMine
  <2>2. TaskServes => TaskServes'
    BY <2>1, Zenon DEF TaskServes, IsStale
  <2> QED
    BY <2>1, <2>2, MinedAnnounces, Zenon DEF WakeupInv
<1>7. ASSUME TaskLock PROVE WakeupInv'
  <2>1. UNCHANGED <<miner, pauseEpoch, channel, ready, unnotified, renotify,
                    gaveUp>>
    BY <1>7 DEF TaskLock, minerVars, poolVars
  <2>2. (Unserved' => Unserved) /\ (Announced => Announced')
    BY <2>1, Zenon DEF Unserved, Announced, IsPaused, IsAuto
  <2>3. PICK S \in SUBSET ready :
           /\ Cardinality(S) = Minimum(task.selected, Cardinality(ready))
           /\ IsStale \/ (task.selected > 0 /\ S = {})
              \/ task' = [task EXCEPT !.state = "mining", !.txs = S]
    BY <1>7, Zenon DEF TaskLock
  <2>4. TaskServes => ~IsStale /\ task.selected > 0
    BY <1>7 DEF TaskLock, TaskServes
  <2>5. ASSUME Unserved, TaskServes PROVE TaskServes'
    <3>1. Cardinality(ready) \in Nat /\ Cardinality(ready) > 0
      BY <2>5, EmptyReady DEF Unserved
    <3>2. task.selected \in Nat
      BY DEF TaskType, Tasks
    <3>3. S # {}
      BY <2>3, <2>4, <2>5, <3>1, <3>2, FS_EmptySet DEF Minimum
    <3>4. task' = [task EXCEPT !.state = "mining", !.txs = S]
      BY <2>3, <2>4, <2>5, <3>3, Zenon
    <3>5. task'.state = "mining" /\ task'.txs # {}
      BY <3>3, <3>4 DEF TaskType, Tasks
    <3> QED
      BY <3>5 DEF TaskServes
  <2> QED
    BY <2>2, <2>5 DEF WakeupInv
<1>8. ASSUME TaskMine PROVE WakeupInv'
  <2>1. MinedBlock(task.txs, TRUE) /\ pauseEpoch' = pauseEpoch
    BY <1>8 DEF TaskMine
  <2>2. TaskServes => task.txs # {}
    BY <1>8 DEF TaskMine, TaskServes
  <2> QED
    BY <2>1, <2>2, MinedAnnounces, Zenon DEF WakeupInv
<1>9. ASSUME TaskFail PROVE WakeupInv'
  BY <1>9, Zenon DEF TaskFail, WakeupInv, Unserved
<1>10. ASSUME ServicePoll PROVE WakeupInv'
  <2>1. CASE task.state \in {"waiting", "mining"}
    BY <1>10, <2>1, ServedUndisturbed DEF ServicePoll, minerVars, poolVars
  <2>2. CASE task.state \notin {"waiting", "mining"} /\ ~IsPaused
    <3> DEFINE m == IF task.result = "failed"
                    THEN HandleFailedCandidate(miner, task.generation)
                    ELSE miner
               a == Armed(m)
    <3>1. m \in MinerType /\ a \in MinerType
      BY MinerUpdates
    <3>2. IsAuto(a) <=> IsAuto(miner)
      BY <3>1, AfterSelectIdle, PendingKept
    <3>3. IsAuto(miner) /\ a.hasPending = "no"
             => miner.hasPending = "no" /\ channel = 0
      BY <3>1, PendingKept
    <3> HIDE DEF m
    <3>4. /\ miner' = AfterSelect(a)
          /\ task' = IF YieldsWork(a)
                     THEN [NoTask EXCEPT !.state = "waiting",
                                         !.selected = Selected(a),
                                         !.generation = generation,
                                         !.pauseEpoch = pauseEpoch]
                     ELSE NoTask
          /\ pauseEpoch' = pauseEpoch
      BY <1>10, <2>2, Zenon DEF ServicePoll, m
    <3>5. UNCHANGED <<ready, unnotified, renotify, gaveUp>>
      BY <1>10, Zenon DEF ServicePoll, poolVars
    <3> HIDE DEF a
    <3>6. Unserved' => Unserved
      <4>1. IsAuto(miner') => IsAuto(miner)
        BY <3>1, <3>2, <3>4, AfterSelectIdle
      <4> QED
        BY <2>2, <3>5, <4>1, Zenon DEF Unserved, IsAuto
    <3>7. CASE AutoSelects(a)
      <4>1. ASSUME Unserved' PROVE TaskServes'
        <5>1. Cardinality(ready) \in Nat /\ Cardinality(ready) > 0
          BY <3>6, <4>1, EmptyReady DEF Unserved
        <5>2. Selected(a) > 0
          BY <5>1 DEF Selected, Minimum
        <5>3. task' = [NoTask EXCEPT !.state = "waiting",
                                     !.selected = Selected(a),
                                     !.generation = generation,
                                     !.pauseEpoch = pauseEpoch]
          BY <3>4, <3>7, <5>2, Zenon DEF YieldsWork
        <5>4. task'.state = "waiting" /\ task'.selected > 0
              /\ task'.pauseEpoch = pauseEpoch'
          BY <3>4, <5>2, <5>3 DEF NoTask
        <5> QED
          BY <5>4 DEF TaskServes, IsStale
      <4> QED
        BY <4>1 DEF WakeupInv
    <3>8. CASE ~AutoSelects(a)
      <4>1. miner'.hasPending = a.hasPending
        BY <3>1, <3>4, <3>8, PendingKept
      <4>2. ASSUME Unserved', ~Announced' PROVE FALSE
        <5>1. a.hasPending = "no" /\ ~unnotified /\ ~renotify
          BY <3>5, <4>1, <4>2, Zenon DEF Announced
        <5>2. IsAuto(miner)
          BY <3>6, <4>2 DEF Unserved
        <5>3. miner.hasPending = "no" /\ channel = 0
          BY <3>3, <5>1, <5>2
        <5>4. ~Announced
          BY <5>1, <5>3 DEF Announced
        <5>5. ~TaskServes
          BY <2>2 DEF TaskServes
        <5> QED
          BY <3>6, <4>2, <5>4, <5>5 DEF WakeupInv
      <4> QED
        BY <4>2 DEF WakeupInv
    <3> QED
      BY <3>7, <3>8
  <2>3. CASE task.state \notin {"waiting", "mining"} /\ IsPaused
    <3>1. IsPaused'
      BY <1>10, <2>3 DEF ServicePoll, IsPaused
    <3> QED
      BY <3>1 DEF WakeupInv, Unserved
  <2> QED
    BY <2>1, <2>2, <2>3
<1>11. ASSUME IntervalTick \/ CoalesceElapsed PROVE WakeupInv'
  <2>1. /\ miner'.hasPending = miner.hasPending
        /\ IsAuto(miner') => IsAuto(miner)
    BY <1>11 DEF IntervalTick, CoalesceElapsed, MinerType, IsAuto
  <2> QED
    BY <1>11, <2>1, ServedUndisturbed DEF IntervalTick, CoalesceElapsed, poolVars
<1>12. ASSUME NEW b \in BOOLEAN, SetAutoMine(b) \/ SetIntervalMining(b)
       PROVE  WakeupInv'
  <2>1. CASE \E mode \in Modes : SetMiningMode(mode)
    <3>1. miner'.hasPending # "no"
      BY <2>1 DEF SetMiningMode, NewMode
    <3> QED
      BY <3>1 DEF WakeupInv, Announced
  <2>2. CASE UNCHANGED <<minerVars, wakeVars>>
    BY <1>12, <2>2, ServedUndisturbed
       DEF SetAutoMine, SetIntervalMining, minerVars, poolVars
  <2> QED
    BY <1>12, <2>1, <2>2 DEF SetAutoMine, SetIntervalMining, Modes
<1>13. ASSUME NEW b \in BOOLEAN, SetPaused(b) PROVE WakeupInv'
  <2>1. CASE b = IsPaused
    BY <1>13, <2>1, ServedUndisturbed DEF SetPaused, poolVars
  <2>2. CASE b # IsPaused /\ b
    <3>1. ~IsPaused
      BY <2>2, Zenon
    <3>2. pauseEpoch' = pauseEpoch + 1
      BY <1>13, <2>2, Zenon DEF SetPaused
    <3>3. pauseEpoch \in Nat
      BY DEF EpochType
    <3>4. IsPaused'
      BY <3>1, <3>2, <3>3 DEF IsPaused
    <3> QED
      BY <3>4, Zenon DEF WakeupInv, Unserved
  <2>3. CASE b # IsPaused /\ ~b
    <3>1. miner' = Resumed(miner)
      BY <1>13, <2>3 DEF SetPaused
    <3>2. IsAuto(miner') => miner'.hasPending = "yes"
      BY <3>1 DEF Resumed, MinerType, IsAuto
    <3> QED
      BY <3>2, Zenon DEF WakeupInv, Unserved, Announced, IsAuto
  <2> QED
    BY <2>1, <2>2, <2>3
<1>14. CASE UNCHANGED vars
  BY <1>14, ServedUndisturbed DEF vars, minerVars, poolVars
<1> QED
  BY <1>1, <1>2, <1>3, <1>4, <1>5, <1>6, <1>7, <1>8, <1>9, <1>10, <1>11,
     <1>12, <1>13, <1>14, Zenon DEF Next, PoolStep, ManualStep, TaskStep,
                                     ModeStep

----------------------------------------------------------------------------
(* Every reachable state of the service is well typed, however many        *)
(* transactions, mode switches and pauses there are.                       *)
THEOREM TypeCorrect == Spec => []TypeOK
BY InitType, TypeStep, PTL DEF Spec

(* Once a pause request has returned, no automatic block is built until    *)
(* mining resumes (Miner::set_paused, is_stale, anvil_setMiningPaused).    *)
THEOREM PauseIsHonoured == Spec => []PauseHonoured
<1>1. Init => PauseInv
  BY DEF Init, PauseInv, PauseHonoured, NoTask
<1>2. PauseInv => PauseHonoured
  BY DEF PauseInv
<1> QED
  BY <1>1, <1>2, InitType, TypeStep, PauseStep, PTL DEF Spec

(* The service never sleeps on work it could take up: every event that     *)
(* makes the miner due finds the service scheduled or its waker registered *)
(* (NodeService::poll, Miner::poll, MinerInner).                           *)
THEOREM NeverOversleeps == Spec => []SleepsOnlyWhenIdle
<1>1. Init => SleepInv
  BY Zenon DEF Init, SleepInv
<1>2. SleepInv => SleepsOnlyWhenIdle
  BY Zenon DEF SleepInv, SleepsOnlyWhenIdle
<1> QED
  BY <1>1, <1>2, InitType, TypeStep, SleepStep, PTL DEF Spec

(* With room for a transaction in a block, instant mining never loses      *)
(* track of ready transactions, across dropped notifications, blocks that  *)
(* leave some behind, skipped candidates, mode switches and pauses.        *)
THEOREM WakeupsAreKept ==
    ASSUME MaxTransactions > 0
    PROVE  Spec => []NoLostWakeup
<1>1. Init => WakeupInv
  BY DEF Init, WakeupInv, Unserved
<1>2. WakeupInv => NoLostWakeup
  BY DEF WakeupInv, NoLostWakeup, Unserved, Announced, TaskServes
<1> QED
  BY <1>1, <1>2, InitType, TypeStep, WakeupStep, PTL DEF Spec
=============================================================================
