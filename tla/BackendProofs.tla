---------------------------- MODULE BackendProofs ----------------------------
(***************************************************************************)
(* Proofs about Backend: for any number of blocks, requests and snapshots, *)
(* the pieces that mining, evm_revert, anvil_rollback, anvil_reorg and     *)
(* anvil_reset replace one by one belong to one chain whenever the mining  *)
(* mutex is free, and requests see one block of it.                        *)
(***************************************************************************)
EXTENDS Backend, FiniteSetTheorems, TLAPS

----------------------------------------------------------------------------
(* The inductive invariant *)

Header == [parent : Blocks \cup {None}, number : Nat, prevrandao : Nat \cup {None}]
Env == [at : Blocks, coinbase : Coinbases]
Override == [value : Nat \cup {None}, generation : Nat]
Hashes == UNION {[0..n -> Blocks] : n \in Nat}
Snapshot ==
    [block : Blocks, number : Nat, db : Blocks, fees : Blocks,
     override : Nat \cup {None}, hashes : Hashes]
Kinds == {"none", "mine", "revert", "rollback"}
JobPhase ==
    {"none", "begin", "lock", "execute", "insert", "storage", "unwind", "states", "env",
     "fees", "db"}
Job ==
    [kind : Kinds, phase : JobPhase, parent : Blocks \cup {None},
     block : Blocks \cup {None}, env : Env \cup {None}, state : Blocks \cup {None},
     used : Override, left : Nat, exclusive : BOOLEAN,
     snapshot : Snapshot \cup {None}, removed : SUBSET Blocks]
ReadPhase ==
    {"idle", "current", "lock", "env", "fees", "parent", "block", "state", "done"}
Reader ==
    [phase : ReadPhase, number : Nat \cup {None}, live : BOOLEAN, guarded : BOOLEAN,
     promised : BOOLEAN, overlapped : BOOLEAN, block : Blocks \cup {None},
     db : Blocks \cup {None}, env : Blocks \cup {None}, fees : Blocks \cup {None}]

Typed ==
    /\ env \in Env /\ overrides \in Override /\ job \in Job
    /\ snapshots \in Seq(Snapshot) /\ Len(snapshots) <= MaxSnapshots
    /\ readers \in [Readers -> Reader]

\* Blocks are built one after the other.
Built == DOMAIN headers
HeadersOK ==
    /\ Built \subseteq Blocks /\ IsFiniteSet(Built)
    /\ Built = 1..Cardinality(Built)
    /\ \A b \in Built : headers[b] \in Header

ChainOK ==
    /\ storage.number \in Nat
    /\ DOMAIN storage.hashes = 0..storage.number
    /\ storage.hashes \in Hashes
    /\ storage.head = storage.hashes[storage.number]
    /\ storage.blocks = {storage.hashes[n] : n \in 0..storage.number}
    /\ \A n \in 0..storage.number :
         storage.hashes[n] \in Built /\ headers[storage.hashes[n]].number = n
    /\ \A n \in 1..storage.number :
         headers[storage.hashes[n]].parent = storage.hashes[n-1]

\* The states of blocks of the chain, while no evm_revert or rollback is between
\* unwinding the chain and removing the states.
KeptOK ==
    /\ DOMAIN kept \subseteq Built
    /\ \A b \in DOMAIN kept : kept[b] \in Built /\ (Persistent => kept[b] = b)
    /\ demoted \subseteq DOMAIN kept
    /\ DOMAIN kept \subseteq
         storage.blocks \cup (IF job.kind \in {"revert", "rollback"} /\ job.phase = "states"
                              THEN job.removed ELSE {})

FeesOK == fees = storage.head \/ fees \notin storage.blocks
\* The live state is that of the head; on a fork it may be another one.
DbOf(b) == Persistent => db = b

\* A block that is built and not yet in the chain.
InFlight == job.kind = "mine" /\ job.phase \in {"insert", "storage"}

MiningOK ==
    job.kind = "mine" =>
      /\ job.phase \in {"begin", "lock", "execute", "insert", "storage", "env", "fees"}
      /\ job.phase \in {"begin", "lock", "execute"} =>
           DbOf(storage.head) /\ env.at = storage.head /\ FeesOK
      /\ job.phase \in {"lock", "execute", "insert", "storage"} =>
           job.parent = storage.head
      /\ job.phase \in {"lock", "execute", "insert", "storage", "env"} => job.env \in Env
      /\ InFlight =>
           /\ job.block \in Built \ storage.blocks /\ db = job.block /\ fees # job.block
           /\ job.state \in Built /\ (Persistent => job.state = storage.head)
           /\ headers[job.block].parent = storage.head
           /\ headers[job.block].number = storage.number + 1
      /\ job.phase \in {"env", "fees"} => job.block = storage.head /\ db = job.block
      /\ job.phase = "fees" => env.at = storage.head

\* A snapshot of the chain `hashes`, whose head is `block`.
SnapshotOK(s) ==
    /\ s.block \in Built /\ headers[s.block].number = s.number
    /\ InFlight => s.block # job.block
    /\ s.db \in Built /\ (Persistent => s.db = s.block)
    /\ s.fees \in Built
    /\ s.fees = s.block \/ \A n \in 0..s.number : s.hashes[n] # s.fees
    /\ s.block \in storage.blocks =>
         \A n \in 0..s.number : storage.hashes[n] = s.hashes[n]
    /\ \A n \in 0..s.number : s.hashes[n] \in Built
    /\ s.override # None =>
         /\ s.override <= overrides.generation
         /\ \A n \in 0..s.number : headers[s.hashes[n]].prevrandao # s.override

RevertOK ==
    job.kind = "revert" =>
      /\ job.phase \in {"lock", "unwind", "states", "env", "fees"}
      /\ job.snapshot \in Snapshot /\ SnapshotOK(job.snapshot)
      /\ job.snapshot.block \in storage.blocks
      /\ job.phase = "lock" => job.left \in 1..Len(snapshots)
      /\ job.phase # "lock" => db = job.snapshot.db
      /\ job.phase \in {"states", "env", "fees"} =>
           storage.head = job.snapshot.block /\ storage.number = job.snapshot.number
      /\ job.phase = "fees" => env.at = storage.head
      /\ job.phase # "fees" => overrides.generation <= MaxOverrides

\* A rollback to job.block, whose state was looked up as job.state.
RollbackOK ==
    job.kind = "rollback" =>
      /\ job.phase \in {"lock", "states", "env", "db"}
      /\ job.exclusive
      /\ job.block \in storage.blocks
      /\ job.state \in Built /\ (Persistent => job.state = job.block)
      /\ job.phase = "lock" =>
           /\ DbOf(storage.head) /\ env.at = storage.head /\ FeesOK
           /\ job.block # storage.head
      /\ job.phase # "lock" => job.block = storage.head /\ fees \notin storage.blocks
      /\ job.phase = "db" => env.at = storage.head
      /\ job.phase # "db" => overrides.generation <= MaxOverrides

JobOK ==
    /\ db \in Built /\ fees \in Built /\ env.at \in Built
    /\ job.kind = "none" => DbOf(storage.head) /\ env.at = storage.head /\ FeesOK
    /\ MiningOK /\ RevertOK /\ RollbackOK

SnapshotsOK == \A i \in 1..Len(snapshots) : SnapshotOK(snapshots[i])

\* v was used by no block of the chain.
Unused(v) == v # None => \A b \in storage.blocks : headers[b].prevrandao # v

OverridesOK ==
    /\ overrides.generation <= MaxOverrides + 1
    /\ overrides.value # None => overrides.value <= overrides.generation
    /\ \A b \in Built : headers[b].prevrandao # None =>
                          headers[b].prevrandao <= overrides.generation
    /\ Unused(overrides.value)
    /\ OverrideUsedOnce
    /\ job.kind = "mine" /\ job.phase \in {"lock", "execute"} =>
         /\ Unused(job.used.value)
         /\ job.used.value # None => job.used.value <= overrides.generation
         /\ job.used.generation <= overrides.generation
         /\ job.used.generation = overrides.generation => job.used = overrides
         /\ job.used.generation # overrides.generation =>
              overrides.value = None \/ overrides.value # job.used.value
    /\ InFlight =>
         /\ Unused(headers[job.block].prevrandao)
         /\ headers[job.block].prevrandao # None =>
              headers[job.block].prevrandao # overrides.value

\* A request: what its phase says of its fields, the locks it holds, the blocks
\* it has read, and, when no evm_revert overlaps it, that all it has read is of
\* one block.
Shape(q) ==
    /\ q.phase \in {"current", "lock", "block", "state", "env"} =>
         q.env = None /\ q.fees = None
    /\ q.phase \in {"idle", "current", "lock", "block", "state"} => ~q.live
    /\ q.phase \notin {"block", "state", "done"} => ~q.promised /\ ~q.guarded
    /\ q.phase = "idle" => q.env = None /\ q.fees = None

Active(q) == q.phase \notin {"idle", "done"}
Holds(q) ==
    \/ q.phase \in {"env", "fees", "parent"}
    \/ q.phase \in {"block", "state"} /\ q.guarded

Locked(q) ==
    /\ Active(q) /\ ~q.overlapped => job.kind # "revert"
    /\ Active(q) => job.kind # "rollback"
    /\ Holds(q) => ~DbWriteLocked

Refers(q) ==
    /\ q.fees # None => q.fees \in Built /\ (InFlight => q.fees # job.block)
    /\ q.env # None => q.env \in Built

Sees(q) ==
    /\ q.phase = "lock" => q.number \in Nat /\ q.number <= storage.number
    /\ q.phase = "env" =>
         /\ Persistent => q.db = storage.head
         /\ q.live => /\ q.number \in Nat /\ q.number <= storage.number
                      /\ HistorySupported => q.number = storage.number
    /\ q.phase \in {"fees", "parent"} =>
         q.env = storage.head /\ (Persistent => q.db = storage.head) /\ ~q.live
    /\ q.phase = "fees" => q.fees = None
    /\ q.phase = "parent" =>
         q.fees # None /\ (q.fees = storage.head \/ q.fees \notin storage.blocks)
    /\ q.phase = "done" /\ q.env # None =>
         /\ Persistent => q.db = q.env
         /\ q.live => /\ q.number <= headers[q.env].number
                      /\ HistorySupported => headers[q.env].number = q.number
         /\ q.fees # None =>
              q.block = q.env /\ (q.fees = q.env \/ q.fees \notin storage.blocks)
    /\ q.promised =>
         /\ q.phase = "block" => q.guarded /\ Stored(q)
         /\ q.phase = "state" => q.guarded /\ q.block \in DOMAIN kept
         /\ q.phase = "done" => q.env # None

ReaderOK(q) == Shape(q) /\ Locked(q) /\ Refers(q) /\ (~q.overlapped => Sees(q))

ReadersOK == \A r \in Readers : ReaderOK(readers[r])

BackendInv ==
    /\ Typed /\ HeadersOK /\ ChainOK /\ KeptOK /\ JobOK /\ SnapshotsOK
    /\ OverridesOK /\ ReadersOK

----------------------------------------------------------------------------
(* Typing of the records *)

\* The sets of the fields, hidden from the provers where only the fields matter.
OptBlocks == Blocks \cup {None}
OptNat == Nat \cup {None}
OptEnv == Env \cup {None}
OptSnapshot == Snapshot \cup {None}
JobOf ==
    [kind : Kinds, phase : JobPhase, parent : OptBlocks,
     block : OptBlocks, env : OptEnv, state : OptBlocks, used : Override, left : Nat,
     exclusive : BOOLEAN, snapshot : OptSnapshot, removed : SUBSET Blocks]
ReaderOf ==
    [phase : ReadPhase, number : OptNat, live : BOOLEAN, guarded : BOOLEAN,
     promised : BOOLEAN, overlapped : BOOLEAN, block : OptBlocks, db : OptBlocks,
     env : OptBlocks, fees : OptBlocks]

LEMMA JobIsOf == Job = JobOf
BY DEF Job, JobOf, OptBlocks, OptEnv, OptSnapshot

LEMMA ReaderIsOf == Reader = ReaderOf
BY DEF Reader, ReaderOf, OptBlocks, OptNat

LEMMA NoJobTyped ==
    /\ NoJob \in Job /\ NoJob.kind = "none" /\ NoJob.phase = "none"
    /\ NoOverride \in Override
<1>1. NoOverride \in Override
  BY DEF NoOverride, Override
<1>2. None \in OptBlocks /\ None \in OptEnv /\ None \in OptSnapshot
  BY DEF OptBlocks, OptEnv, OptSnapshot
<1>3. "none" \in JobPhase
  BY DEF JobPhase
<1> HIDE DEF NoOverride
<1> QED
  BY <1>1, <1>2, <1>3, JobIsOf DEF NoJob, JobOf, Kinds

LEMMA MineJobTyped ==
    ASSUME NEW n \in Nat, NEW x \in BOOLEAN
    PROVE  /\ MineJob(n, x) \in Job /\ MineJob(n, x).kind = "mine"
           /\ MineJob(n, x).phase = "begin"
<1>1. NoJob \in JobOf
  BY NoJobTyped, JobIsOf
<1>2. "begin" \in JobPhase
  BY DEF JobPhase
<1>3. MineJob(n, x) = [NoJob EXCEPT !.kind = "mine", !.phase = "begin", !.left = n,
                                    !.exclusive = x]
  BY DEF MineJob
<1> QED
  BY <1>1, <1>2, <1>3, JobIsOf DEF JobOf, Kinds

LEMMA IdleTyped ==
    /\ Idle \in Reader /\ Idle.phase = "idle" /\ Idle.env = None /\ Idle.fees = None
    /\ Idle.live = FALSE /\ Idle.promised = FALSE /\ Idle.guarded = FALSE
<1>1. None \in OptBlocks /\ None \in OptNat /\ "idle" \in ReadPhase
  BY DEF OptBlocks, OptNat, ReadPhase
<1> QED
  BY <1>1, ReaderIsOf DEF Idle, ReaderOf

\* A job that goes to another phase.
LEMMA NextPhase ==
    ASSUME job \in Job, NEW p \in JobPhase
    PROVE  /\ [job EXCEPT !.phase = p] \in Job
           /\ [job EXCEPT !.phase = p].phase = p
           /\ [job EXCEPT !.phase = p].kind = job.kind
           /\ [job EXCEPT !.phase = p].parent = job.parent
           /\ [job EXCEPT !.phase = p].block = job.block
           /\ [job EXCEPT !.phase = p].env = job.env
           /\ [job EXCEPT !.phase = p].state = job.state
           /\ [job EXCEPT !.phase = p].used = job.used
           /\ [job EXCEPT !.phase = p].left = job.left
           /\ [job EXCEPT !.phase = p].exclusive = job.exclusive
           /\ [job EXCEPT !.phase = p].snapshot = job.snapshot
           /\ [job EXCEPT !.phase = p].removed = job.removed
<1>1. job \in JobOf
  BY JobIsOf
<1>2. [job EXCEPT !.phase = p] \in JobOf
  BY <1>1 DEF JobOf
<1> QED
  BY <1>1, <1>2, JobIsOf DEF JobOf

LEMMA JobFields ==
    ASSUME job \in Job
    PROVE  /\ job.kind \in Kinds /\ job.phase \in JobPhase
           /\ job.parent \in Blocks \cup {None} /\ job.block \in Blocks \cup {None}
           /\ job.env \in Env \cup {None} /\ job.state \in Blocks \cup {None}
           /\ job.used \in Override /\ job.left \in Nat /\ job.exclusive \in BOOLEAN
           /\ job.snapshot \in Snapshot \cup {None} /\ job.removed \in SUBSET Blocks
<1>1. job \in JobOf
  BY JobIsOf
<1>2. /\ job.kind \in Kinds /\ job.phase \in JobPhase
      /\ job.parent \in OptBlocks /\ job.block \in OptBlocks
      /\ job.env \in OptEnv /\ job.state \in OptBlocks
      /\ job.used \in Override /\ job.left \in Nat /\ job.exclusive \in BOOLEAN
      /\ job.snapshot \in OptSnapshot /\ job.removed \in SUBSET Blocks
  BY <1>1 DEF JobOf
<1> QED
  BY <1>2 DEF OptBlocks, OptEnv, OptSnapshot

LEMMA SnapshotFields ==
    ASSUME NEW s \in Snapshot
    PROVE  /\ s.block \in Blocks /\ s.number \in Nat /\ s.db \in Blocks /\ s.fees \in Blocks
           /\ s.override \in Nat \cup {None} /\ s.hashes \in Hashes
BY DEF Snapshot

LEMMA OverrideFields ==
    ASSUME NEW o \in Override
    PROVE  o.value \in Nat \cup {None} /\ o.generation \in Nat
BY DEF Override

LEMMA ReplaceFields ==
    ASSUME NEW o \in Override, NEW v \in Nat \cup {None}
    PROVE  /\ Replace(o, v) \in Override /\ Replace(o, v).value = v
           /\ Replace(o, v).generation = o.generation + 1
<1>1. o.generation + 1 \in Nat
  BY OverrideFields
<1> QED
  BY <1>1 DEF Replace, Override

----------------------------------------------------------------------------
(* What steps that leave a part of the state alone preserve *)

\* The headers of the blocks built so far stay.
Grow == Built \subseteq Built' /\ \A b \in Built : headers'[b] = headers[b]

LEMMA SeesStays ==
    ASSUME NEW q, Sees(q), Refers(q), Grow, ~Holds(q) \/ UNCHANGED <<storage, kept>>,
           q.fees \in Built /\ q.fees \notin storage.blocks => q.fees \notin storage'.blocks,
           \/ ~Active(q) \/ storage' = storage
           \/ /\ storage.number \in Nat /\ storage'.number \in Nat
              /\ storage.number <= storage'.number
    PROVE  Sees(q)'
<1>1. CASE UNCHANGED <<storage, kept>>
  <2>1. Stored(q) => Stored(q)'
    BY <1>1 DEF Stored
  <2>2. q.env # None => headers'[q.env].number = headers[q.env].number
    BY DEF Refers, Grow
  <2> QED
    BY <1>1, <2>1, <2>2 DEF Sees
<1>2. CASE ~Holds(q)
  <2>1. q.phase \notin {"env", "fees", "parent"}
    BY <1>2 DEF Holds
  <2>2. q.promised => q.phase # "block" /\ q.phase # "state"
    BY <1>2 DEF Holds, Sees
  <2>3. q.env # None => headers'[q.env].number = headers[q.env].number
    BY DEF Refers, Grow
  <2>4. q.fees # None => q.fees \in Built
    BY DEF Refers
  <2>5. q.phase = "lock" => q.number \in Nat /\ q.number <= storage'.number
    BY DEF Sees, Active
  <2> QED
    BY <2>1, <2>2, <2>3, <2>4, <2>5 DEF Sees
<1> QED
  BY <1>1, <1>2

\* A step that is not the request's own.
LEMMA ReaderStays ==
    ASSUME NEW q, ReaderOK(q), Grow,
           q.overlapped \/ ~Holds(q) \/ UNCHANGED <<storage, kept>>,
           q.fees \in Built /\ q.fees \notin storage.blocks => q.fees \notin storage'.blocks,
           \/ q.overlapped \/ ~Active(q) \/ storage' = storage
           \/ /\ storage.number \in Nat /\ storage'.number \in Nat
              /\ storage.number <= storage'.number,
           q.overlapped \/ ~Active(q) \/ job'.kind # "revert" \/ job.kind = "revert",
           ~Active(q) \/ job'.kind # "rollback" \/ job.kind = "rollback",
           ~Holds(q) \/ ~DbWriteLocked' \/ DbWriteLocked,
           InFlight' => (InFlight /\ job'.block = job.block) \/ job'.block \notin Built
    PROVE  ReaderOK(q)'
<1>1. Shape(q)'
  BY DEF ReaderOK, Shape
<1>2. Locked(q)'
  BY DEF ReaderOK, Locked, Active, Holds
<1>3. Refers(q)'
  BY DEF ReaderOK, Refers, Grow
<1>4. ~q.overlapped => Sees(q)'
  BY SeesStays DEF ReaderOK
<1> QED
  BY <1>1, <1>2, <1>3, <1>4 DEF ReaderOK

\* The step that replaces q by p in readers.
LEMMA ReaderPrimed ==
    ASSUME NEW r, NEW q, readers'[r] = q, ReaderOK(q)'
    PROVE  ReaderOK(readers[r])'
BY DEF ReaderOK, Shape, Locked, Active, Holds, Refers, Sees, Stored

LEMMA ReadersStay ==
    ASSUME ReadersOK, HeadersOK, readers' = readers, Grow,
           \A r \in Readers : \/ readers[r].overlapped \/ ~Holds(readers[r])
                              \/ UNCHANGED <<storage, kept>>,
           \A b \in Built \ storage.blocks : b \notin storage'.blocks \/ (InFlight /\ b = job.block),
           \A r \in Readers : \/ readers[r].overlapped \/ ~Active(readers[r]) \/ storage' = storage
                              \/ /\ storage.number \in Nat /\ storage'.number \in Nat
                                 /\ storage.number <= storage'.number,
           job'.kind = "revert" => job.kind = "revert",
           \A r \in Readers : ~Active(readers[r]) \/ job'.kind # "rollback" \/ job.kind = "rollback",
           \A r \in Readers : ~Holds(readers[r]) \/ ~DbWriteLocked' \/ DbWriteLocked,
           InFlight' => (InFlight /\ job'.block = job.block) \/ job'.block \notin Built
    PROVE  ReadersOK'
<1> SUFFICES ASSUME NEW r \in Readers PROVE ReaderOK(readers[r])'
  BY DEF ReadersOK
<1>1. PICK q : q = readers[r]
  OBVIOUS
<1>2. ReaderOK(q)
  BY <1>1 DEF ReadersOK
<1>3. q.fees \in Built /\ q.fees \notin storage.blocks => q.fees \notin storage'.blocks
  <2>1. q.fees \in Built => q.fees # None
    BY BackendAssumption DEF HeadersOK
  <2> QED
    BY <1>2, <2>1 DEF ReaderOK, Refers
<1>4. /\ q.overlapped \/ ~Holds(q) \/ UNCHANGED <<storage, kept>>
      /\ \/ q.overlapped \/ ~Active(q) \/ storage' = storage
         \/ /\ storage.number \in Nat /\ storage'.number \in Nat
            /\ storage.number <= storage'.number
      /\ ~Active(q) \/ job'.kind # "rollback" \/ job.kind = "rollback"
      /\ ~Holds(q) \/ ~DbWriteLocked' \/ DbWriteLocked
      /\ readers'[r] = q
  BY <1>1
<1>5. ReaderOK(q)'
  BY <1>2, <1>3, <1>4, ReaderStays
<1> QED
  BY <1>4, <1>5, ReaderPrimed

LEMMA HeadersStay == ASSUME HeadersOK, headers' = headers PROVE HeadersOK' /\ Grow
BY DEF HeadersOK, Grow, Built

LEMMA ChainStays == ASSUME ChainOK, headers' = headers, storage' = storage PROVE ChainOK'
BY DEF ChainOK, Built

LEMMA KeptStays ==
    ASSUME KeptOK, headers' = headers, storage' = storage, kept' = kept, demoted' = demoted,
           job.kind \in {"revert", "rollback"} /\ job.phase = "states" => job' = job
    PROVE  KeptOK'
BY DEF KeptOK, Built

\* A snapshot, in a step that only adds headers and new override values.
LEMMA SnapshotStays ==
    ASSUME NEW s, SnapshotOK(s), Grow, storage' = storage,
           s.override \in Nat \cup {None}, overrides.generation \in Nat,
           overrides'.generation \in Nat, overrides'.generation >= overrides.generation,
           InFlight' => (InFlight /\ job'.block = job.block) \/ job'.block \notin Built
    PROVE  SnapshotOK(s)'
<1>1. s.override # None => s.override <= overrides'.generation
  BY DEF SnapshotOK
<1>2. \A n \in 0..s.number : headers'[s.hashes[n]] = headers[s.hashes[n]]
  BY DEF SnapshotOK, Grow
<1>3. headers'[s.block] = headers[s.block]
  BY DEF SnapshotOK, Grow
<1> QED
  BY <1>1, <1>2, <1>3 DEF SnapshotOK, Grow

LEMMA SnapshotPrimed ==
    ASSUME NEW i, NEW s, snapshots'[i] = s, SnapshotOK(s)'
    PROVE  SnapshotOK(snapshots[i])'
BY DEF SnapshotOK

LEMMA SnapshotsStay ==
    ASSUME Typed, SnapshotsOK, snapshots' = snapshots, Grow, storage' = storage,
           overrides'.generation \in Nat, overrides'.generation >= overrides.generation,
           InFlight' => (InFlight /\ job'.block = job.block) \/ job'.block \notin Built
    PROVE  SnapshotsOK'
<1> SUFFICES ASSUME NEW i \in 1..Len(snapshots) PROVE SnapshotOK(snapshots[i])'
  BY DEF SnapshotsOK
<1>1. PICK s : s = snapshots[i]
  OBVIOUS
<1>2. SnapshotOK(s) /\ snapshots'[i] = s
  BY <1>1 DEF SnapshotsOK
<1>3. s \in Snapshot /\ overrides.generation \in Nat
  BY <1>1, OverrideFields DEF Typed
<1>4. SnapshotOK(s)'
  BY <1>2, <1>3, SnapshotFields, SnapshotStays
<1> QED
  BY <1>2, <1>4, SnapshotPrimed

\* The snapshot that evm_revert restores.
LEMMA RestoredStays ==
    ASSUME job.snapshot \in Snapshot, SnapshotOK(job.snapshot), overrides \in Override,
           Grow, storage' = storage,
           overrides'.generation \in Nat, overrides'.generation >= overrides.generation,
           job'.snapshot = job.snapshot,
           InFlight' => (InFlight /\ job'.block = job.block) \/ job'.block \notin Built
    PROVE  job'.snapshot \in Snapshot /\ SnapshotOK(job.snapshot)'
<1>1. PICK s : s = job.snapshot
  OBVIOUS
<1>2. s.override \in Nat \cup {None} /\ overrides.generation \in Nat
  BY <1>1, SnapshotFields, OverrideFields
<1>3. SnapshotOK(s)'
  BY <1>1, <1>2, SnapshotStays
<1>4. job'.snapshot = s
  BY <1>1
<1> QED
  BY <1>1, <1>3, <1>4 DEF SnapshotOK

----------------------------------------------------------------------------
(* The requests *)

LEMMA ReaderStep ==
    ASSUME BackendInv, UNCHANGED allButReaders, NEW r \in Readers, NEW q,
           readers' = [readers EXCEPT ![r] = q], q \in Reader, ReaderOK(q)
    PROVE  BackendInv'
<1>1. /\ storage' = storage /\ db' = db /\ env' = env /\ fees' = fees /\ kept' = kept
      /\ ledger' = ledger /\ demoted' = demoted /\ overrides' = overrides
      /\ snapshots' = snapshots /\ job' = job /\ headers' = headers /\ coinbase' = coinbase
  BY DEF allButReaders, pieces, history
<1>2. Typed'
  BY <1>1 DEF BackendInv, Typed
<1>3. HeadersOK' /\ ChainOK'
  BY <1>1, HeadersStay, ChainStays DEF BackendInv
<1>4. KeptOK' /\ JobOK'
  BY <1>1 DEF BackendInv, KeptOK, JobOK, MiningOK, RevertOK, RollbackOK, DbOf, FeesOK, InFlight,
              SnapshotOK, Built
<1>5. SnapshotsOK' /\ OverridesOK'
  BY <1>1 DEF BackendInv, SnapshotsOK, SnapshotOK, OverridesOK, OverrideUsedOnce, Unused,
              InFlight, Built
<1>6. ReadersOK'
  <2> SUFFICES ASSUME NEW x \in Readers PROVE ReaderOK(readers[x])'
    BY DEF ReadersOK
  <2>1. PICK p : p = readers'[x]
    OBVIOUS
  <2>2. p = q \/ p = readers[x]
    BY <2>1 DEF BackendInv, Typed
  <2>3. ReaderOK(p)
    BY <2>2 DEF BackendInv, ReadersOK
  <2>4. ReaderOK(p)'
    BY <1>1, <2>3 DEF ReaderOK, Shape, Locked, Active, Holds, Refers, Sees, Stored,
                      DbWriteLocked, InFlight, Built
  <2> QED
    BY <2>1, <2>4, ReaderPrimed
<1> QED
  BY <1>2, <1>3, <1>4, <1>5, <1>6 DEF BackendInv

\* While nobody writes, the pieces describe the head.
LEMMA QuietHead ==
    ASSUME BackendInv, ~DbWriteLocked, job.kind # "revert"
    PROVE  /\ DbOf(storage.head) /\ env.at = storage.head /\ FeesOK /\ ~InFlight
           /\ storage.head \in Built /\ headers[storage.head].number = storage.number
           /\ storage.head \in storage.blocks
           /\ fees \in Built /\ db \in Built /\ Built \subseteq Blocks /\ Blocks \subseteq Nat
           /\ None \notin Nat
<1>1. job.kind \in Kinds
  BY JobFields DEF BackendInv, Typed
<1>2. job.kind = "mine" => job.phase \in {"begin", "lock"}
  BY DEF BackendInv, JobOK, MiningOK, DbWriteLocked, Writing
<1>r. job.kind = "rollback" => job.phase = "lock"
  BY DEF DbWriteLocked
<1>3. DbOf(storage.head) /\ env.at = storage.head /\ FeesOK
  BY <1>1, <1>2, <1>r DEF BackendInv, JobOK, MiningOK, RollbackOK, Kinds
<1>4. ~InFlight
  BY <1>2 DEF InFlight
<1>5. /\ storage.number \in 0..storage.number
      /\ storage.head = storage.hashes[storage.number]
      /\ storage.blocks = {storage.hashes[n] : n \in 0..storage.number}
  BY DEF BackendInv, ChainOK
<1>6. storage.head \in Built /\ headers[storage.head].number = storage.number
  BY <1>5 DEF BackendInv, ChainOK
<1>7. fees \in Built /\ db \in Built /\ Built \subseteq Blocks
  BY DEF BackendInv, JobOK, HeadersOK
<1> QED
  BY <1>3, <1>4, <1>5, <1>6, <1>7, BackendAssumption

LEMMA ReadBeginInv ==
    ASSUME BackendInv, NEW r \in Readers, NEW n \in 0..storage.number, ReadBegin(r, n)
    PROVE  BackendInv'
<1> DEFINE o == job.kind = "revert"
           q == [Idle EXCEPT !.phase = "current", !.number = n, !.overlapped = o]
<1>1. readers' = [readers EXCEPT ![r] = q] /\ UNCHANGED allButReaders
  BY DEF ReadBegin
<1>2. n \in OptNat /\ "current" \in ReadPhase /\ Idle \in ReaderOf /\ o \in BOOLEAN
  BY IdleTyped, ReaderIsOf DEF OptNat, ReadPhase, BackendInv, ChainOK
<1> HIDE DEF o
<1>3. /\ q \in ReaderOf /\ q.phase = "current" /\ q.overlapped = o
      /\ q.env = Idle.env /\ q.fees = Idle.fees /\ q.live = Idle.live
      /\ q.promised = Idle.promised /\ q.guarded = Idle.guarded
  BY <1>2 DEF ReaderOf
<1> HIDE DEF q
<1>x. job.kind # "rollback"
  BY DEF ReadBegin, Exclusive, BackendInv, JobOK, RollbackOK
<1>4. ReaderOK(q)
  BY <1>3, <1>x, IdleTyped DEF ReaderOK, Shape, Locked, Active, Holds, Refers, Sees, o
<1> QED
  BY <1>1, <1>3, <1>4, ReaderIsOf, ReaderStep

LEMMA ReadPendingInv ==
    ASSUME BackendInv, NEW r \in Readers, ReadPending(r)
    PROVE  BackendInv'
<1> DEFINE o == job.kind = "revert"
           q == [Idle EXCEPT !.phase = "env", !.db = db, !.overlapped = o]
<1>1. readers' = [readers EXCEPT ![r] = q] /\ UNCHANGED allButReaders /\ ~DbWriteLocked
  BY DEF ReadPending
<1>2. db \in OptBlocks /\ "env" \in ReadPhase /\ Idle \in ReaderOf /\ o \in BOOLEAN
  BY IdleTyped, ReaderIsOf DEF OptBlocks, ReadPhase, BackendInv, JobOK, HeadersOK
<1> HIDE DEF o
<1>3. /\ q \in ReaderOf /\ q.phase = "env" /\ q.overlapped = o /\ q.db = db
      /\ q.env = Idle.env /\ q.fees = Idle.fees /\ q.live = Idle.live
      /\ q.promised = Idle.promised /\ q.guarded = Idle.guarded
  BY <1>2 DEF ReaderOf
<1> HIDE DEF q
<1>x. job.kind # "rollback"
  BY DEF ReadPending, Exclusive, BackendInv, JobOK, RollbackOK
<1>4. ~o => DbOf(storage.head)
  BY <1>1, QuietHead DEF o
<1>5. ReaderOK(q)
  <2>1. Shape(q) /\ Refers(q)
    BY <1>3, IdleTyped DEF Shape, Refers
  <2>2. Locked(q)
    BY <1>1, <1>3, <1>x DEF Locked, Active, Holds, o
  <2>3. ~o => Sees(q)
    BY <1>3, <1>4, IdleTyped DEF Sees, DbOf
  <2> QED
    BY <1>3, <2>1, <2>2, <2>3 DEF ReaderOK
<1> QED
  BY <1>1, <1>3, <1>5, ReaderIsOf, ReaderStep

\* A request that changes its phase only.
LEMMA GotoFields ==
    ASSUME NEW q \in Reader, NEW p \in ReadPhase
    PROVE  LET n == [q EXCEPT !.phase = p]
           IN  /\ n \in Reader /\ n.phase = p /\ n.number = q.number /\ n.live = q.live
               /\ n.guarded = q.guarded /\ n.promised = q.promised
               /\ n.overlapped = q.overlapped /\ n.block = q.block /\ n.db = q.db
               /\ n.env = q.env /\ n.fees = q.fees
<1>1. q \in ReaderOf
  BY ReaderIsOf
<1>2. [q EXCEPT !.phase = p] \in ReaderOf
  BY <1>1 DEF ReaderOf
<1> QED
  BY <1>1, <1>2, ReaderIsOf DEF ReaderOf

LEMMA ReadCurrentInv ==
    ASSUME BackendInv, NEW r \in Readers, ReadCurrent(r)
    PROVE  BackendInv'
<1>1. PICK p \in {"done", "lock", "block"} :
         Goto(r, p) /\ (p = "lock" => readers[r].number = storage.number)
  BY DEF ReadCurrent
<1> DEFINE q == readers[r]
           n == [q EXCEPT !.phase = p]
<1>2. q \in Reader /\ ReaderOK(q) /\ q.phase = "current" /\ UNCHANGED allButReaders
  BY DEF BackendInv, Typed, ReadersOK, ReadCurrent
<1>3. readers' = [readers EXCEPT ![r] = n]
  BY <1>1 DEF Goto, BackendInv, Typed
<1>4. /\ p \in ReadPhase /\ storage.number \in Nat
      /\ p = "lock" => q.number = storage.number
  BY <1>1 DEF ReadPhase, BackendInv, ChainOK
<1> HIDE DEF q
<1>5. /\ n \in Reader /\ n.phase = p /\ n.number = q.number /\ n.live = q.live
      /\ n.guarded = q.guarded /\ n.promised = q.promised
      /\ n.overlapped = q.overlapped /\ n.env = q.env /\ n.fees = q.fees
  BY <1>2, <1>4, GotoFields
<1> HIDE DEF n
<1>6. ReaderOK(n)
  <2>1. Shape(n) /\ Refers(n)
    BY <1>2, <1>5 DEF ReaderOK, Shape, Refers
  <2>2. Locked(n)
    BY <1>2, <1>5 DEF ReaderOK, Locked, Shape, Active, Holds
  <2>3. Sees(n)
    BY <1>2, <1>4, <1>5 DEF ReaderOK, Shape, Sees
  <2> QED
    BY <2>1, <2>2, <2>3 DEF ReaderOK
<1> QED
  BY <1>2, <1>3, <1>5, <1>6, ReaderStep

LEMMA ReadLiveInv ==
    ASSUME BackendInv, NEW r \in Readers, ReadLive(r)
    PROVE  BackendInv'
<1> DEFINE q == readers[r]
           s == Stored(q)
           live == [q EXCEPT !.phase = "env", !.live = TRUE, !.db = db]
           old == [q EXCEPT !.phase = "block", !.guarded = TRUE, !.promised = s]
<1>1. /\ q \in Reader /\ ReaderOK(q) /\ q.phase = "lock" /\ ~DbWriteLocked
      /\ UNCHANGED allButReaders
  BY DEF BackendInv, Typed, ReadersOK, ReadLive
<1>2. \/ StillHead(q) /\ readers' = [readers EXCEPT ![r] = live]
      \/ readers' = [readers EXCEPT ![r] = old]
  BY DEF ReadLive, BehindHead
<1>3. db \in OptBlocks /\ "env" \in ReadPhase /\ "block" \in ReadPhase /\ q \in ReaderOf
  BY <1>1, ReaderIsOf DEF OptBlocks, ReadPhase, BackendInv, JobOK, HeadersOK
<1>4. s \in BOOLEAN
  BY DEF Stored
<1> HIDE DEF q, s
<1>5. /\ live \in ReaderOf /\ live.phase = "env" /\ live.live = TRUE /\ live.db = db
      /\ live.number = q.number /\ live.guarded = q.guarded /\ live.promised = q.promised
      /\ live.overlapped = q.overlapped /\ live.env = q.env /\ live.fees = q.fees
  BY <1>3 DEF ReaderOf
<1>6. /\ old \in ReaderOf /\ old.phase = "block" /\ old.live = q.live /\ old.db = q.db
      /\ old.number = q.number /\ old.guarded = TRUE /\ old.promised = s
      /\ old.overlapped = q.overlapped /\ old.env = q.env /\ old.fees = q.fees
  BY <1>3, <1>4 DEF ReaderOf
<1> HIDE DEF live, old
<1>7. /\ q.env = None /\ q.fees = None /\ ~q.live /\ ~q.promised /\ ~q.guarded
      /\ q.overlapped \/ job.kind # "revert"
      /\ job.kind # "rollback"
      /\ ~q.overlapped => q.number \in Nat /\ q.number <= storage.number
  BY <1>1 DEF ReaderOK, Shape, Locked, Active, Sees
<1>8. ASSUME StillHead(q) PROVE ReaderOK(live)
  <2>1. Shape(live) /\ Refers(live)
    BY <1>5, <1>7 DEF Shape, Refers
  <2>2. Locked(live)
    BY <1>1, <1>5, <1>7 DEF Locked, Active
  <2>3. ~q.overlapped => DbOf(storage.head)
    BY <1>1, <1>7, QuietHead
  <2>4. ~q.overlapped => Sees(live)
    BY <1>5, <1>7, <1>8, <2>3 DEF Sees, DbOf, StillHead
  <2> QED
    BY <1>5, <2>1, <2>2, <2>4 DEF ReaderOK
<1>9. ReaderOK(old)
  <2>1. Shape(old) /\ Refers(old)
    BY <1>6, <1>7 DEF Shape, Refers
  <2>2. Locked(old)
    BY <1>1, <1>6, <1>7 DEF Locked, Active
  <2>3. s => Stored(old)
    BY <1>6 DEF s, Stored
  <2>4. Sees(old)
    BY <1>6, <2>3 DEF Sees
  <2> QED
    BY <2>1, <2>2, <2>4 DEF ReaderOK
<1> QED
  BY <1>1, <1>2, <1>5, <1>6, <1>8, <1>9, ReaderIsOf, ReaderStep

LEMMA ReadEnvInv ==
    ASSUME BackendInv, NEW r \in Readers, ReadEnv(r)
    PROVE  BackendInv'
<1> DEFINE q == readers[r]
           at == env.at
           p == IF q.live THEN "done" ELSE "fees"
           n == [q EXCEPT !.env = at, !.phase = p]
<1>1. q \in Reader /\ ReaderOK(q) /\ q.phase = "env" /\ UNCHANGED allButReaders
  BY DEF BackendInv, Typed, ReadersOK, ReadEnv
<1>2. readers' = [readers EXCEPT ![r] = n]
  BY DEF ReadEnv, BackendInv, Typed
<1>3. at \in Blocks /\ at \in OptBlocks /\ p \in ReadPhase /\ q \in ReaderOf
  BY <1>1, ReaderIsOf DEF OptBlocks, ReadPhase, BackendInv, Typed, Env
<1>4. q.live \in BOOLEAN /\ (q.live => p = "done") /\ (~q.live => p = "fees")
  BY <1>3 DEF ReaderOf
<1> HIDE DEF q, p, at
<1>5. /\ n \in ReaderOf /\ n.phase = p /\ n.env = at /\ n.live = q.live /\ n.db = q.db
      /\ n.number = q.number /\ n.guarded = q.guarded /\ n.promised = q.promised
      /\ n.overlapped = q.overlapped /\ n.fees = q.fees
  BY <1>3 DEF ReaderOf
<1> HIDE DEF n
<1>6. /\ q.fees = None /\ ~q.promised /\ ~q.guarded /\ ~DbWriteLocked
      /\ q.overlapped \/ job.kind # "revert"
      /\ job.kind # "rollback"
  BY <1>1 DEF ReaderOK, Shape, Locked, Active, Holds

<1>7. at \in Built
  BY DEF BackendInv, JobOK, at
<1>8. ~q.overlapped =>
        /\ Persistent => q.db = storage.head
        /\ q.live => /\ q.number \in Nat /\ q.number <= storage.number
                     /\ HistorySupported => q.number = storage.number
        /\ at = storage.head /\ headers[storage.head].number = storage.number
  BY <1>1, <1>6, QuietHead DEF ReaderOK, Sees, at
<1>9. ReaderOK(n)
  <2>1. Shape(n) /\ Refers(n)
    BY <1>4, <1>5, <1>6, <1>7 DEF Shape, Refers
  <2>2. Locked(n)
    BY <1>4, <1>5, <1>6 DEF Locked, Active, Holds
  <2>3. ~q.overlapped => Sees(n)
    BY <1>4, <1>5, <1>6, <1>8 DEF Sees
  <2> QED
    BY <1>5, <2>1, <2>2, <2>3 DEF ReaderOK
<1> QED
  BY <1>1, <1>2, <1>5, <1>9, ReaderIsOf, ReaderStep

LEMMA ReadFeesInv ==
    ASSUME BackendInv, NEW r \in Readers, ReadFees(r)
    PROVE  BackendInv'
<1> DEFINE q == readers[r]
           n == [q EXCEPT !.fees = fees, !.phase = "parent"]
<1>1. q \in Reader /\ ReaderOK(q) /\ q.phase = "fees" /\ UNCHANGED allButReaders
  BY DEF BackendInv, Typed, ReadersOK, ReadFees
<1>2. readers' = [readers EXCEPT ![r] = n]
  BY DEF ReadFees, BackendInv, Typed
<1>3. fees \in OptBlocks /\ "parent" \in ReadPhase /\ q \in ReaderOf
  BY <1>1, ReaderIsOf DEF OptBlocks, ReadPhase, BackendInv, JobOK, HeadersOK
<1> HIDE DEF q
<1>4. /\ n \in ReaderOf /\ n.phase = "parent" /\ n.fees = fees /\ n.live = q.live
      /\ n.number = q.number /\ n.guarded = q.guarded /\ n.promised = q.promised
      /\ n.overlapped = q.overlapped /\ n.env = q.env /\ n.db = q.db
  BY <1>3 DEF ReaderOf
<1> HIDE DEF n
<1>5. /\ ~q.promised /\ ~q.guarded /\ ~DbWriteLocked
      /\ q.overlapped \/ job.kind # "revert"
      /\ job.kind # "rollback"
  BY <1>1 DEF ReaderOK, Shape, Locked, Active, Holds
<1>6. fees \in Built /\ fees # None
  BY BackendAssumption DEF BackendInv, JobOK, HeadersOK
<1>7. ~q.overlapped =>
        /\ q.env = storage.head /\ (Persistent => q.db = storage.head) /\ ~q.live
        /\ fees = storage.head \/ fees \notin storage.blocks
  BY <1>1, <1>5, QuietHead DEF ReaderOK, Sees, FeesOK
<1>8. ~InFlight
  BY <1>5 DEF InFlight, DbWriteLocked, Writing
<1>9. ReaderOK(n)
  <2>1. Shape(n) /\ Refers(n)
    BY <1>1, <1>4, <1>5, <1>6, <1>8 DEF Shape, Refers, ReaderOK
  <2>2. Locked(n)
    BY <1>4, <1>5 DEF Locked, Active, Holds
  <2>3. ~q.overlapped => Sees(n)
    BY <1>4, <1>5, <1>6, <1>7 DEF Sees
  <2> QED
    BY <1>4, <2>1, <2>2, <2>3 DEF ReaderOK
<1> QED
  BY <1>1, <1>2, <1>4, <1>9, ReaderIsOf, ReaderStep

LEMMA ReadParentInv ==
    ASSUME BackendInv, NEW r \in Readers, ReadParent(r)
    PROVE  BackendInv'
<1> DEFINE q == readers[r]
           head == storage.head
           n == [q EXCEPT !.block = head, !.phase = "done"]
<1>1. q \in Reader /\ ReaderOK(q) /\ q.phase = "parent" /\ UNCHANGED allButReaders
  BY DEF BackendInv, Typed, ReadersOK, ReadParent
<1>2. readers' = [readers EXCEPT ![r] = n]
  BY DEF ReadParent, BackendInv, Typed
<1>3. head \in Built
  BY DEF BackendInv, ChainOK
<1>4. head \in OptBlocks /\ "done" \in ReadPhase /\ q \in ReaderOf
  BY <1>1, <1>3, ReaderIsOf DEF OptBlocks, ReadPhase, BackendInv, HeadersOK
<1> HIDE DEF q, head
<1>5. /\ n \in ReaderOf /\ n.phase = "done" /\ n.block = head /\ n.live = q.live
      /\ n.number = q.number /\ n.guarded = q.guarded /\ n.promised = q.promised
      /\ n.overlapped = q.overlapped /\ n.env = q.env /\ n.db = q.db /\ n.fees = q.fees
  BY <1>4 DEF ReaderOf
<1> HIDE DEF n
<1>6. ~q.promised /\ ~q.guarded
  BY <1>1 DEF ReaderOK, Shape
<1>7. ReaderOK(n)
  <2>1. Shape(n) /\ Refers(n)
    BY <1>1, <1>5, <1>6 DEF Shape, Refers, ReaderOK
  <2>2. Locked(n)
    BY <1>5 DEF Locked, Active, Holds
  <2>3. ~q.overlapped => Sees(n)
    BY <1>1, <1>5, <1>6 DEF Sees, ReaderOK, head
  <2> QED
    BY <1>5, <2>1, <2>2, <2>3 DEF ReaderOK
<1> QED
  BY <1>1, <1>2, <1>5, <1>7, ReaderIsOf, ReaderStep

LEMMA ReadBlockInv ==
    ASSUME BackendInv, NEW r \in Readers, ReadBlock(r)
    PROVE  BackendInv'
<1> DEFINE q == readers[r]
           b == storage.hashes[q.number]
           found == [q EXCEPT !.phase = "state", !.block = b]
           gone == [q EXCEPT !.phase = "done"]
<1>1. q \in Reader /\ ReaderOK(q) /\ q.phase = "block" /\ UNCHANGED allButReaders
  BY DEF BackendInv, Typed, ReadersOK, ReadBlock
<1>2. \/ q.number \in DOMAIN storage.hashes /\ readers' = [readers EXCEPT ![r] = found]
      \/ q.number \notin DOMAIN storage.hashes /\ readers' = [readers EXCEPT ![r] = gone]
  BY DEF ReadBlock, BackendInv, Typed
<1>3. q.number \in DOMAIN storage.hashes => b \in OptBlocks
  BY DEF BackendInv, ChainOK, HeadersOK, OptBlocks
<1>4. "state" \in ReadPhase /\ "done" \in ReadPhase /\ q \in ReaderOf
  BY <1>1, ReaderIsOf DEF ReadPhase
<1>5. /\ q.env = None /\ q.fees = None /\ ~q.live
      /\ q.overlapped \/ job.kind # "revert"
      /\ job.kind # "rollback"
      /\ q.guarded => ~DbWriteLocked
      /\ ~q.overlapped /\ q.promised => q.guarded /\ Stored(q)
  BY <1>1 DEF ReaderOK, Shape, Locked, Active, Holds, Sees
<1>6. Stored(q) => q.number \in DOMAIN storage.hashes /\ b \in DOMAIN kept
  BY DEF Stored
<1> HIDE DEF q, b
<1>7. CASE q.number \in DOMAIN storage.hashes /\ readers' = [readers EXCEPT ![r] = found]
  <2>1. /\ found \in ReaderOf /\ found.phase = "state" /\ found.live = q.live
        /\ found.number = q.number /\ found.guarded = q.guarded
        /\ found.promised = q.promised /\ found.overlapped = q.overlapped
        /\ found.block = b /\ found.env = q.env /\ found.fees = q.fees
    BY <1>3, <1>4, <1>7 DEF ReaderOf
  <2> HIDE DEF found
  <2>2. Shape(found) /\ Refers(found)
    BY <1>5, <2>1 DEF Shape, Refers
  <2>3. Locked(found)
    BY <1>5, <2>1 DEF Locked, Active, Holds
  <2>4. ~q.overlapped => Sees(found)
    BY <1>5, <1>6, <2>1 DEF Sees
  <2>5. ReaderOK(found)
    BY <2>1, <2>2, <2>3, <2>4 DEF ReaderOK
  <2> QED
    BY <1>1, <1>7, <2>1, <2>5, ReaderIsOf, ReaderStep
<1>8. CASE q.number \notin DOMAIN storage.hashes /\ readers' = [readers EXCEPT ![r] = gone]
  <2>1. /\ gone \in Reader /\ gone.phase = "done" /\ gone.live = q.live
        /\ gone.promised = q.promised /\ gone.overlapped = q.overlapped
        /\ gone.env = q.env /\ gone.fees = q.fees
    BY <1>1, <1>4, GotoFields
  <2> HIDE DEF gone
  <2>2. Shape(gone) /\ Refers(gone)
    BY <1>5, <2>1 DEF Shape, Refers
  <2>3. Locked(gone)
    BY <2>1 DEF Locked, Active, Holds
  <2>4. ~q.overlapped => Sees(gone)
    BY <1>5, <1>6, <1>8, <2>1 DEF Sees
  <2>5. ReaderOK(gone)
    BY <2>1, <2>2, <2>3, <2>4 DEF ReaderOK
  <2> QED
    BY <1>1, <1>8, <2>1, <2>5, ReaderStep
<1> QED
  BY <1>2, <1>7, <1>8

LEMMA ReadStateInv ==
    ASSUME BackendInv, NEW r \in Readers, ReadState(r)
    PROVE  BackendInv'
<1> DEFINE q == readers[r]
           b == q.block
           v == kept[b]
           found == [q EXCEPT !.phase = "done", !.db = v, !.env = b]
           gone == [q EXCEPT !.phase = "done"]
<1>1. q \in Reader /\ ReaderOK(q) /\ q.phase = "state" /\ UNCHANGED allButReaders
  BY DEF BackendInv, Typed, ReadersOK, ReadState
<1>2. \/ b \in DOMAIN kept /\ readers' = [readers EXCEPT ![r] = found]
      \/ b \notin DOMAIN kept /\ readers' = [readers EXCEPT ![r] = gone]
  BY DEF ReadState, BackendInv, Typed
<1>3. b \in DOMAIN kept => /\ b \in OptBlocks /\ v \in OptBlocks /\ b # None
                           /\ Persistent => v = b
  BY BackendAssumption DEF BackendInv, KeptOK, HeadersOK, OptBlocks
<1>4. "done" \in ReadPhase /\ q \in ReaderOf
  BY <1>1, ReaderIsOf DEF ReadPhase
<1>5. /\ q.env = None /\ q.fees = None /\ ~q.live
      /\ ~q.overlapped => job.kind # "revert"
      /\ ~q.overlapped /\ q.promised => b \in DOMAIN kept
  BY <1>1 DEF ReaderOK, Shape, Locked, Active, Sees

<1>6. b \in DOMAIN kept => b \in Built
  BY DEF BackendInv, KeptOK
<1> HIDE DEF q, b, v
<1>7. CASE b \in DOMAIN kept /\ readers' = [readers EXCEPT ![r] = found]
  <2>1. /\ found \in ReaderOf /\ found.phase = "done" /\ found.live = q.live
        /\ found.promised = q.promised /\ found.overlapped = q.overlapped
        /\ found.db = v /\ found.env = b /\ found.fees = q.fees
    BY <1>3, <1>4, <1>7 DEF ReaderOf
  <2> HIDE DEF found
  <2>2. Shape(found) /\ Refers(found)
    BY <1>5, <1>6, <1>7, <2>1 DEF Shape, Refers
  <2>3. Locked(found)
    BY <2>1 DEF Locked, Active, Holds
  <2>4. Sees(found)
    BY <1>3, <1>5, <1>7, <2>1 DEF Sees
  <2>5. ReaderOK(found)
    BY <2>2, <2>3, <2>4 DEF ReaderOK
  <2> QED
    BY <1>1, <1>7, <2>1, <2>5, ReaderIsOf, ReaderStep
<1>8. CASE b \notin DOMAIN kept /\ readers' = [readers EXCEPT ![r] = gone]
  <2>1. /\ gone \in Reader /\ gone.phase = "done" /\ gone.live = q.live
        /\ gone.promised = q.promised /\ gone.overlapped = q.overlapped
        /\ gone.env = q.env /\ gone.fees = q.fees
    BY <1>1, <1>4, GotoFields
  <2> HIDE DEF gone
  <2>2. Shape(gone) /\ Refers(gone)
    BY <1>5, <2>1 DEF Shape, Refers
  <2>3. Locked(gone)
    BY <2>1 DEF Locked, Active, Holds
  <2>4. ~q.overlapped => Sees(gone)
    BY <1>5, <1>8, <2>1 DEF Sees
  <2>5. ReaderOK(gone)
    BY <2>1, <2>2, <2>3, <2>4 DEF ReaderOK
  <2> QED
    BY <1>1, <1>8, <2>1, <2>5, ReaderStep
<1> QED
  BY <1>2, <1>7, <1>8

LEMMA ReadEndInv ==
    ASSUME BackendInv, NEW r \in Readers, ReadEnd(r)
    PROVE  BackendInv'
<1>1. ReaderOK(Idle)
  BY IdleTyped DEF ReaderOK, Shape, Locked, Active, Holds, Refers, Sees
<1>2. readers' = [readers EXCEPT ![r] = Idle] /\ UNCHANGED allButReaders
  BY DEF ReadEnd
<1> HIDE DEF Idle
<1> QED
  BY <1>1, <1>2, IdleTyped, ReaderStep

LEMMA ReadInv ==
    ASSUME BackendInv, NEW r \in Readers, Read(r)
    PROVE  BackendInv'
BY ReadBeginInv, ReadPendingInv, ReadCurrentInv, ReadLiveInv, ReadEnvInv, ReadFeesInv,
   ReadParentInv, ReadBlockInv, ReadStateInv, ReadEndInv DEF Read

----------------------------------------------------------------------------
(* Mining *)

\* A step of the holder of the mutex that changes nothing else.
LEMMA JobStep ==
    ASSUME BackendInv, UNCHANGED allButJob, job' \in Job, JobOK',
           job.kind \in {"revert", "rollback"} => job' = job,
           job'.kind # "revert",
           job'.kind = "rollback" => \A r \in Readers : ~Active(readers[r]),
           ~InFlight',
           job'.kind = "mine" /\ job'.phase \in {"lock", "execute"} =>
             /\ Unused(job'.used.value)
             /\ job'.used.value # None => job'.used.value <= overrides.generation
             /\ job'.used.generation <= overrides.generation
             /\ job'.used.generation = overrides.generation => job'.used = overrides
             /\ job'.used.generation # overrides.generation =>
                  overrides.value = None \/ overrides.value # job'.used.value,
           \A r \in Readers : ~Holds(readers[r]) \/ ~DbWriteLocked' \/ DbWriteLocked
    PROVE  BackendInv'
<1>1. /\ storage' = storage /\ db' = db /\ env' = env /\ fees' = fees /\ kept' = kept
      /\ ledger' = ledger /\ demoted' = demoted /\ overrides' = overrides
      /\ snapshots' = snapshots /\ readers' = readers /\ headers' = headers
      /\ coinbase' = coinbase
  BY DEF allButJob, pieces, history
<1>2. Typed'
  BY <1>1 DEF BackendInv, Typed
<1>3. HeadersOK' /\ ChainOK' /\ Grow
  BY <1>1, HeadersStay, ChainStays DEF BackendInv
<1>4. KeptOK'
  BY <1>1, KeptStays DEF BackendInv
<1>5. SnapshotsOK'
  <2>1. overrides.generation \in Nat
    BY OverrideFields DEF BackendInv, Typed
  <2>2. overrides'.generation \in Nat /\ overrides'.generation >= overrides.generation
    BY <1>1, <2>1
  <2> QED
    BY <1>1, <1>3, <2>2, SnapshotsStay DEF BackendInv
<1>6. OverridesOK'
  <2>1. OverridesOK
    BY DEF BackendInv
  <2>2. OverrideUsedOnce' /\ Unused(overrides.value)'
    BY <1>1, <2>1 DEF OverridesOK, OverrideUsedOnce, Unused
  <2>3. (job'.kind = "mine" /\ job'.phase \in {"lock", "execute"} => Unused(job.used.value)')
    BY <1>1 DEF Unused
  <2> QED
    BY <1>1, <2>1, <2>2, <2>3 DEF OverridesOK, Built
<1>7. ReadersOK'
  <2>1. ReadersOK /\ HeadersOK /\ UNCHANGED <<storage, kept>>
    BY <1>1 DEF BackendInv
  <2>2. \A b \in Built \ storage.blocks : b \notin storage'.blocks
    BY <1>1
  <2> QED
    BY <1>1, <1>3, <2>1, <2>2, ReadersStay
<1> QED
  BY <1>2, <1>3, <1>4, <1>5, <1>6, <1>7 DEF BackendInv

LEMMA LockMiningInv == ASSUME BackendInv, LockMining PROVE BackendInv'
<1>1. job.kind = "none" /\ UNCHANGED allButJob /\ job' = MineJob(1, FALSE)
  BY DEF LockMining
<1>2. job' \in Job /\ job'.kind = "mine" /\ job'.phase = "begin"
  BY <1>1, MineJobTyped
<1>3. JobOK'
  BY <1>1, <1>2 DEF BackendInv, JobOK, MiningOK, RevertOK, RollbackOK, DbOf, FeesOK, InFlight, Built,
     allButJob, pieces, history
<1>4. ~DbWriteLocked' /\ ~InFlight'
  BY <1>2 DEF DbWriteLocked, Writing, InFlight
<1> QED
  BY <1>1, <1>2, <1>3, <1>4, JobStep

LEMMA MineFailInv == ASSUME BackendInv, MineFail PROVE BackendInv'
<1>1. job.kind = "mine" /\ job.phase = "execute" /\ UNCHANGED allButJob /\ job' = NoJob
  BY DEF MineFail
<1>2. job' \in Job /\ job'.kind = "none" /\ job'.phase = "none"
  BY <1>1, NoJobTyped
<1>3. JobOK'
  BY <1>1, <1>2 DEF BackendInv, JobOK, MiningOK, RevertOK, RollbackOK, DbOf, FeesOK, InFlight, Built,
     allButJob, pieces, history
<1>4. ~DbWriteLocked' /\ ~InFlight'
  BY <1>2 DEF DbWriteLocked, Writing, InFlight
<1> QED
  BY <1>1, <1>2, <1>3, <1>4, JobStep

LEMMA MineBeginInv == ASSUME BackendInv, MineBegin PROVE BackendInv'
<1> DEFINE head == storage.head
           n == [job EXCEPT !.phase = "lock", !.parent = head, !.env = env,
                            !.used = overrides]
<1>1. job.kind = "mine" /\ job.phase = "begin" /\ UNCHANGED allButJob /\ job' = n
  BY DEF MineBegin
<1>2. head \in Built /\ head \in OptBlocks
  BY DEF BackendInv, ChainOK, HeadersOK, OptBlocks
<1>3. env \in OptEnv /\ env \in Env /\ overrides \in Override /\ "lock" \in JobPhase
      /\ job \in JobOf
  BY JobIsOf DEF BackendInv, Typed, OptEnv, JobPhase
<1> HIDE DEF head
<1>4. /\ n \in JobOf /\ n.kind = job.kind /\ n.phase = "lock" /\ n.parent = head
      /\ n.env = env /\ n.used = overrides
  BY <1>3, <1>2 DEF JobOf
<1> HIDE DEF n
<1>5. job' \in Job /\ job'.kind = "mine" /\ job'.phase = "lock" /\ job'.parent = storage.head
      /\ job'.env \in Env /\ job'.used = overrides
  BY <1>1, <1>3, <1>4, JobIsOf DEF head
<1>6. JobOK'
  BY <1>1, <1>5 DEF BackendInv, JobOK, MiningOK, RevertOK, RollbackOK, DbOf, FeesOK, InFlight, Built,
     allButJob, pieces, history
<1>7. ~DbWriteLocked' /\ ~InFlight'
  BY <1>5 DEF DbWriteLocked, Writing, InFlight
<1>8. /\ Unused(overrides.value)
      /\ overrides.value # None => overrides.value <= overrides.generation
      /\ overrides.generation <= overrides.generation
  BY <1>3, OverrideFields DEF BackendInv, OverridesOK
<1> QED
  BY <1>1, <1>5, <1>6, <1>7, <1>8, JobStep

LEMMA MineLockDbInv == ASSUME BackendInv, MineLockDb PROVE BackendInv'
<1>1. /\ job.kind = "mine" /\ job.phase = "lock" /\ UNCHANGED allButJob
      /\ job' = [job EXCEPT !.phase = "execute"]
  BY DEF MineLockDb
<1>2. "execute" \in JobPhase /\ job \in Job
  BY DEF JobPhase, BackendInv, Typed
<1>3. /\ job' \in Job /\ job'.kind = "mine" /\ job'.phase = "execute"
      /\ job'.parent = job.parent /\ job'.env = job.env /\ job'.used = job.used
  BY <1>1, <1>2, NextPhase
<1>4. JobOK'
  BY <1>1, <1>3 DEF BackendInv, JobOK, MiningOK, RevertOK, RollbackOK, DbOf, FeesOK, InFlight, Built,
     allButJob, pieces, history
<1>5. ~InFlight'
  BY <1>3 DEF InFlight
<1>6. /\ Unused(job.used.value)
      /\ job.used.value # None => job.used.value <= overrides.generation
      /\ job.used.generation <= overrides.generation
      /\ job.used.generation = overrides.generation => job.used = overrides
      /\ job.used.generation # overrides.generation =>
           overrides.value = None \/ overrides.value # job.used.value
  BY <1>1 DEF BackendInv, OverridesOK
<1>7. \A r \in Readers : ~Holds(readers[r])
  BY DEF MineLockDb, DbFree, HoldsDb, Holds
<1> QED
  BY <1>1, <1>3, <1>4, <1>5, <1>6, <1>7, JobStep

LEMMA NewBlock ==
    ASSUME HeadersOK, NEW h \in Header, NEW new, new = Cardinality(Built) + 1, new \in Blocks,
           headers' = With(headers, new, h)
    PROVE  HeadersOK' /\ Grow /\ new \notin Built /\ Built' = Built \cup {new} /\ headers'[new] = h
<1>1. Cardinality(Built) \in Nat
  BY FS_CardinalityType DEF HeadersOK
<1>2. Built' = Built \cup {new}
  BY DEF Built, With
<1>3. new \notin Built
  BY <1>1 DEF HeadersOK
<1>4. headers'[new] = h /\ \A b \in Built : headers'[b] = headers[b]
  BY <1>3 DEF Built, With
<1>5. IsFiniteSet(Built') /\ Cardinality(Built') = Cardinality(Built) + 1
  BY <1>2, <1>3, FS_AddElement DEF HeadersOK
<1>6. Built' = 1..Cardinality(Built)'
  BY <1>1, <1>2, <1>5 DEF HeadersOK
<1>7. Built' \subseteq Blocks
  BY <1>2 DEF HeadersOK
<1>8. \A b \in Built' : headers'[b] \in Header
  BY <1>2, <1>4 DEF HeadersOK
<1> QED
  BY <1>2, <1>3, <1>4, <1>5, <1>6, <1>7, <1>8 DEF HeadersOK, Grow

LEMMA ChainGrows == ASSUME ChainOK, Grow, storage' = storage PROVE ChainOK'
<1>1. \A n \in 0..storage.number : headers'[storage.hashes[n]] = headers[storage.hashes[n]]
  BY DEF ChainOK, Grow
<1>2. \A n \in 1..storage.number : n \in 0..storage.number
  BY DEF ChainOK
<1> QED
  BY <1>1, <1>2 DEF ChainOK, Grow

\* A step that only changes the job, and takes nothing into the chain.
LEMMA OverridesStay ==
    ASSUME OverridesOK, headers' = headers, storage'.blocks \subseteq storage.blocks,
           overrides' = overrides,
           InFlight' => InFlight /\ job'.block = job.block,
           job'.kind = "mine" /\ job'.phase \in {"lock", "execute"} => job' = job
    PROVE  OverridesOK'
<1>1. Built' = Built
  BY DEF Built
<1>2. Unused(overrides.value)' /\ OverrideUsedOnce'
  BY DEF OverridesOK, Unused, OverrideUsedOnce
<1>3. job'.kind = "mine" /\ job'.phase \in {"lock", "execute"} =>
         /\ Unused(job.used.value)'
         /\ job'.used.value # None => job'.used.value <= overrides'.generation
         /\ job'.used.generation <= overrides'.generation
         /\ job'.used.generation = overrides'.generation => job'.used = overrides'
         /\ job'.used.generation # overrides'.generation =>
              overrides'.value = None \/ overrides'.value # job'.used.value
  BY DEF OverridesOK, Unused
<1>4. InFlight' =>
         /\ Unused(headers[job.block].prevrandao)'
         /\ headers'[job'.block].prevrandao # None =>
              headers'[job'.block].prevrandao # overrides'.value
  BY DEF OverridesOK, Unused
<1> QED
  BY <1>1, <1>2, <1>3, <1>4 DEF OverridesOK

\* While the database is locked for writing no request holds it.
LEMMA NobodyHolds == ASSUME ReadersOK, DbWriteLocked PROVE \A r \in Readers : ~Holds(readers[r])
BY DEF ReadersOK, ReaderOK, Locked

LEMMA ConsumeFields ==
    ASSUME NEW o \in Override, NEW used
    PROVE  /\ Consume(o, used) \in Override /\ Consume(o, used).generation = o.generation
           /\ Consume(o, used).value = IF o.generation = used.generation THEN None ELSE o.value
<1>1. o \in [value : OptNat, generation : Nat] /\ None \in OptNat
  BY DEF Override, OptNat
<1>2. Override = [value : OptNat, generation : Nat]
  BY DEF Override, OptNat
<1> QED
  BY <1>1, <1>2 DEF Consume

LEMMA MineCommitInv == ASSUME BackendInv, MineCommit PROVE BackendInv'
<1> DEFINE new == Cardinality(Built) + 1
           h == [parent |-> job.parent, number |-> storage.number + 1,
                 prevrandao |-> job.used.value]
           n == [job EXCEPT !.phase = "insert", !.block = new, !.state = db]
<1>1. /\ job.kind = "mine" /\ job.phase = "execute" /\ new \in Blocks /\ db' = new
      /\ headers' = With(headers, new, h) /\ overrides' = Consume(overrides, job.used)
      /\ job' = n
      /\ storage' = storage /\ env' = env /\ fees' = fees /\ kept' = kept
      /\ demoted' = demoted /\ snapshots' = snapshots /\ readers' = readers
  BY DEF MineCommit, history, Built
<1>2. /\ HeadersOK /\ ChainOK /\ KeptOK /\ JobOK /\ SnapshotsOK /\ OverridesOK /\ ReadersOK
      /\ Typed
  BY DEF BackendInv
<1>3. /\ job.parent = storage.head /\ DbOf(storage.head) /\ env.at = storage.head
      /\ db \in Built /\ fees \in Built /\ job.env \in Env
  BY <1>1, <1>2 DEF JobOK, MiningOK
<1>4. storage.head \in Built /\ storage.number \in Nat /\ storage.blocks \subseteq Built
  BY <1>2 DEF ChainOK
<1>5. job.used \in Override /\ job.used.value \in Nat \cup {None}
  BY <1>2, JobFields, OverrideFields DEF Typed
<1>6. h \in Header
  BY <1>2, <1>3, <1>4, <1>5 DEF Header, HeadersOK
<1>7. /\ h.parent = storage.head /\ h.number = storage.number + 1
      /\ h.prevrandao = job.used.value
  BY <1>3
<1> HIDE DEF h, new
<1>8. /\ HeadersOK' /\ Grow /\ new \notin Built /\ Built' = Built \cup {new}
      /\ headers'[new] = h
  BY <1>1, <1>2, <1>6, NewBlock DEF new
<1>9. /\ n \in Job /\ n.kind = job.kind /\ n.phase = "insert" /\ n.block = new
      /\ n.state = db /\ n.parent = job.parent /\ n.env = job.env
  <2>1. job \in JobOf /\ new \in OptBlocks /\ db \in OptBlocks /\ "insert" \in JobPhase
    BY <1>1, <1>2, <1>3, JobIsOf DEF OptBlocks, JobPhase, Typed, HeadersOK
  <2>2. /\ n \in JobOf /\ n.kind = job.kind /\ n.phase = "insert" /\ n.block = new
        /\ n.state = db /\ n.parent = job.parent /\ n.env = job.env
    BY <2>1 DEF JobOf
  <2> QED
    BY <2>2, JobIsOf
<1> HIDE DEF n
<1>10. /\ overrides' \in Override /\ overrides'.generation = overrides.generation
       /\ overrides'.value = IF overrides.generation = job.used.generation
                             THEN None ELSE overrides.value
       /\ overrides.generation \in Nat
  BY <1>1, <1>2, ConsumeFields, OverrideFields DEF Typed
<1>11. Typed'
  BY <1>1, <1>2, <1>9, <1>10 DEF Typed
<1>12. ChainOK'
  BY <1>1, <1>2, <1>8, ChainGrows
<1>13. KeptOK'
  BY <1>1, <1>2, <1>8, <1>9 DEF KeptOK, Grow
<1>14. JobOK'
  <2>1. db' \in Built' /\ fees' \in Built' /\ env'.at \in Built'
    BY <1>1, <1>3, <1>4, <1>8
  <2>2. /\ job'.kind = "mine" /\ job'.phase = "insert" /\ job'.block = new
        /\ job'.state = db /\ job'.parent = storage.head /\ job'.env \in Env
    BY <1>1, <1>3, <1>9
  <2>3. /\ new \in Built' \ storage'.blocks /\ fees' # new /\ db \in Built'
        /\ Persistent => db = storage'.head
        /\ headers'[new].parent = storage'.head /\ headers'[new].number = storage'.number + 1
    BY <1>1, <1>3, <1>4, <1>7, <1>8 DEF DbOf
  <2>4. MiningOK'
    BY <1>1, <2>2, <2>3 DEF MiningOK, InFlight
  <2>5. RevertOK'
    BY <2>2 DEF RevertOK
  <2> QED
    BY <2>1, <2>2, <2>4, <2>5 DEF JobOK, RollbackOK
<1>15. SnapshotsOK'
  <2>1. job'.block \notin Built
    BY <1>1, <1>8, <1>9
  <2> QED
    BY <1>1, <1>2, <1>8, <1>10, <2>1, SnapshotsStay
<1>16. OverridesOK'
  <2>1. /\ Unused(job.used.value)
        /\ job.used.value # None => job.used.value <= overrides.generation
        /\ job.used.generation = overrides.generation => job.used = overrides
        /\ job.used.generation # overrides.generation =>
              overrides.value = None \/ overrides.value # job.used.value
    BY <1>1, <1>2 DEF OverridesOK
  <2>2. \A b \in storage.blocks : headers'[b] = headers[b]
    BY <1>4, <1>8 DEF Grow

<2>3. Unused(overrides.value)'
    BY <1>1, <1>2, <1>10, <2>2 DEF OverridesOK, Unused
  <2>4. job'.block = new /\ headers'[job'.block].prevrandao = job.used.value
    BY <1>1, <1>7, <1>8, <1>9
  <2>5. Unused(headers[job.block].prevrandao)'
    BY <1>1, <2>1, <2>2, <2>4 DEF Unused
  <2>6. OverrideUsedOnce'
    BY <1>1, <1>2, <2>2 DEF OverridesOK, OverrideUsedOnce
  <2>7. \A b \in Built' : headers'[b].prevrandao # None =>
                            headers'[b].prevrandao <= overrides'.generation
    BY <1>2, <1>7, <1>8, <1>10, <2>1 DEF OverridesOK, Grow
  <2>8. headers'[job'.block].prevrandao # None =>
          headers'[job'.block].prevrandao # overrides'.value
    BY <1>10, <2>1, <2>4
  <2>9. job'.phase = "insert"
    BY <1>1, <1>9
  <2> QED
    BY <1>2, <1>10, <2>3, <2>5, <2>6, <2>7, <2>8, <2>9 DEF OverridesOK
<1>17. ReadersOK'
  <2>1. DbWriteLocked
    BY <1>1 DEF DbWriteLocked, Writing
  <2>2. \A r \in Readers : ~Holds(readers[r])
    BY <1>2, <2>1, NobodyHolds
  <2>3. job'.kind = "mine" /\ job'.block \notin Built
    BY <1>1, <1>8, <1>9
  <2> QED
    BY <1>1, <1>2, <1>8, <2>1, <2>2, <2>3, ReadersStay
<1> QED
  BY <1>8, <1>11, <1>12, <1>13, <1>14, <1>15, <1>16, <1>17 DEF BackendInv

\* What a step of the block under way leaves alone.
LEMMA UnderWay ==
    ASSUME BackendInv, job.kind = "mine", job.phase \in Writing, job' \in Job,
           headers' = headers, storage' = storage, overrides' = overrides,
           snapshots' = snapshots, readers' = readers, env' \in Env,
           job'.kind \in {"none", "mine"},
           InFlight' => InFlight /\ job'.block = job.block,
           job'.kind = "mine" => job'.phase \notin {"lock", "execute"},
           KeptOK', JobOK'
    PROVE  BackendInv'
<1>1. /\ HeadersOK /\ ChainOK /\ SnapshotsOK /\ OverridesOK /\ ReadersOK /\ Typed
  BY DEF BackendInv
<1>2. HeadersOK' /\ Grow /\ ChainOK'
  BY <1>1, HeadersStay, ChainStays
<1>3. Typed'
  BY <1>1 DEF Typed
<1>4. SnapshotsOK'
  <2>1. overrides.generation \in Nat
    BY <1>1, OverrideFields DEF Typed
  <2>2. overrides'.generation \in Nat /\ overrides'.generation >= overrides.generation
    BY <2>1
  <2> QED
    BY <1>1, <1>2, <2>2, SnapshotsStay
<1>5. OverridesOK'
  BY <1>1, OverridesStay
<1>6. ReadersOK'
  <2>1. DbWriteLocked
    BY DEF DbWriteLocked
  <2>2. \A r \in Readers : ~Holds(readers[r])
    BY <1>1, <2>1, NobodyHolds
  <2> QED
    BY <1>1, <1>2, <2>1, <2>2, ReadersStay
<1> QED
  BY <1>2, <1>3, <1>4, <1>5, <1>6 DEF BackendInv

LEMMA MineForgetInv == ASSUME BackendInv, MineForget PROVE BackendInv'
<1>1. /\ job.kind = "mine" /\ job.phase = "insert" /\ job' = job
      /\ storage' = storage /\ db' = db /\ env' = env /\ fees' = fees
      /\ overrides' = overrides /\ snapshots' = snapshots /\ readers' = readers
      /\ headers' = headers /\ demoted' = demoted \cap DOMAIN kept'
  BY DEF MineForget, pieces
<1>2. PICK b : kept' = Restricted(kept, DOMAIN kept \ {b})
  BY DEF MineForget, States!ForgetOldest, States!Restricted, Restricted
<1>3. DOMAIN kept' \subseteq DOMAIN kept /\ \A c \in DOMAIN kept' : kept'[c] = kept[c]
  BY <1>2 DEF Restricted
<1>4. KeptOK'
  BY <1>1, <1>3 DEF BackendInv, KeptOK, Built
<1>5. JobOK'
  BY <1>1 DEF BackendInv, JobOK, MiningOK, RevertOK, RollbackOK, DbOf, FeesOK, InFlight, Built
<1>6. job \in Job /\ env' \in Env /\ job.phase \in Writing
  BY <1>1 DEF BackendInv, Typed, Writing
<1> QED
  BY <1>1, <1>4, <1>5, <1>6, UnderWay DEF InFlight

LEMMA MineDemoteInv == ASSUME BackendInv, MineDemote PROVE BackendInv'
<1>1. /\ job.kind = "mine" /\ job.phase = "insert" /\ job' = job
      /\ storage' = storage /\ db' = db /\ env' = env /\ fees' = fees /\ kept' = kept
      /\ overrides' = overrides /\ snapshots' = snapshots /\ readers' = readers
      /\ headers' = headers
  BY DEF MineDemote, pieces
<1>2. demoted' \subseteq demoted \cup DOMAIN kept
  BY DEF MineDemote
<1>4. KeptOK'
  BY <1>1, <1>2 DEF BackendInv, KeptOK, Built
<1>5. JobOK'
  BY <1>1 DEF BackendInv, JobOK, MiningOK, RevertOK, RollbackOK, DbOf, FeesOK, InFlight, Built
<1>6. job \in Job /\ env' \in Env /\ job.phase \in Writing
  BY <1>1 DEF BackendInv, Typed, Writing
<1> QED
  BY <1>1, <1>4, <1>5, <1>6, UnderWay DEF InFlight

LEMMA MineInsertInv == ASSUME BackendInv, MineInsert PROVE BackendInv'
<1>1. /\ job.kind = "mine" /\ job.phase = "insert"
      /\ job' = [job EXCEPT !.phase = "storage"]
      /\ storage' = storage /\ db' = db /\ env' = env /\ fees' = fees
      /\ \/ kept' = With(kept, job.parent, job.state) /\ demoted' = demoted \ {job.parent}
         \/ kept' = kept /\ demoted' = demoted
      /\ overrides' = overrides /\ snapshots' = snapshots /\ readers' = readers
      /\ headers' = headers
  BY DEF MineInsert, pieces, history, States!Record, States!With, With
<1>2. job \in Job /\ env' \in Env /\ job.phase \in Writing /\ "storage" \in JobPhase
  BY <1>1 DEF BackendInv, Typed, Writing, JobPhase
<1>3. /\ job' \in Job /\ job'.phase = "storage" /\ job'.kind = "mine"
      /\ job'.parent = job.parent /\ job'.block = job.block /\ job'.env = job.env
      /\ job'.state = job.state
  BY <1>1, <1>2, NextPhase
<1>4. /\ job.parent = storage.head /\ job.state \in Built
      /\ Persistent => job.state = storage.head
  BY <1>1 DEF BackendInv, JobOK, MiningOK, InFlight
<1>5. storage.head \in Built /\ storage.head \in storage.blocks
  BY DEF BackendInv, ChainOK
<1>7. KeptOK'
  <2>1. CASE kept' = With(kept, job.parent, job.state) /\ demoted' = demoted \ {job.parent}
    <3>1. /\ DOMAIN kept' = DOMAIN kept \cup {storage.head}
          /\ kept'[storage.head] = job.state
          /\ \A c \in DOMAIN kept \ {storage.head} : kept'[c] = kept[c]
      BY <1>4, <2>1 DEF With
    <3> QED
      BY <1>1, <1>3, <1>4, <1>5, <2>1, <3>1 DEF BackendInv, KeptOK, Built
  <2>2. CASE kept' = kept /\ demoted' = demoted
    BY <1>1, <1>3, <2>2, KeptStays DEF BackendInv
  <2> QED
    BY <1>1, <2>1, <2>2
<1>8. JobOK'
  BY <1>1, <1>3 DEF BackendInv, JobOK, MiningOK, RevertOK, RollbackOK, DbOf, FeesOK, InFlight, Built
<1> QED
  BY <1>1, <1>2, <1>3, <1>7, <1>8, UnderWay DEF InFlight

LEMMA PublishEnvInv == ASSUME BackendInv, PublishEnv PROVE BackendInv'
<1>1. /\ job.kind = "mine" /\ job.phase = "env"
      /\ job' = [job EXCEPT !.phase = "fees"] /\ env' = [job.env EXCEPT !.at = job.block]
      /\ storage' = storage /\ db' = db /\ fees' = fees /\ kept' = kept /\ demoted' = demoted
      /\ overrides' = overrides /\ snapshots' = snapshots /\ readers' = readers
      /\ headers' = headers
  BY DEF PublishEnv, history
<1>2. job \in Job /\ job.phase \in Writing /\ "fees" \in JobPhase
  BY <1>1 DEF BackendInv, Typed, Writing, JobPhase
<1>3. /\ job' \in Job /\ job'.phase = "fees" /\ job'.kind = "mine"
      /\ job'.block = job.block
  BY <1>1, <1>2, NextPhase
<1>4. job.env \in Env /\ job.block = storage.head /\ storage.head \in Built
  BY <1>1 DEF BackendInv, JobOK, MiningOK, ChainOK
<1>5. env' \in Env /\ env'.at = storage.head
  BY <1>1, <1>4 DEF Env, BackendInv, HeadersOK
<1>6. KeptOK'
  BY <1>1, <1>3, KeptStays DEF BackendInv
<1>7. JobOK'
  BY <1>1, <1>3, <1>4, <1>5 DEF BackendInv, JobOK, MiningOK, RevertOK, RollbackOK, DbOf, FeesOK, InFlight,
                                Built
<1> QED
  BY <1>1, <1>2, <1>3, <1>5, <1>6, <1>7, UnderWay DEF InFlight

LEMMA PublishFeesInv == ASSUME BackendInv, PublishFees PROVE BackendInv'
<1>1. /\ job.kind = "mine" /\ job.phase = "fees" /\ fees' = job.block
      /\ job' = NoJob \/ (job.left > 1 /\ job' = MineJob(job.left - 1, job.exclusive))
      /\ storage' = storage /\ db' = db /\ env' = env /\ kept' = kept /\ demoted' = demoted
      /\ overrides' = overrides /\ snapshots' = snapshots /\ readers' = readers
      /\ headers' = headers
  BY DEF PublishFees, history
<1>2. job \in Job /\ job.phase \in Writing /\ env' \in Env
  BY <1>1 DEF BackendInv, Typed, Writing
<1>3. job.left \in Nat /\ job.exclusive \in BOOLEAN
  BY <1>2, JobFields
<1>4. /\ job' \in Job
      /\ job'.kind = "none" \/ (job'.kind = "mine" /\ job'.phase = "begin")
  <2>1. CASE job' = NoJob
    BY <2>1, NoJobTyped
  <2>2. CASE job.left > 1 /\ job' = MineJob(job.left - 1, job.exclusive)
    <3>1. job.left - 1 \in Nat
      BY <1>3, <2>2
    <3> QED
      BY <1>3, <2>2, <3>1, MineJobTyped
  <2> QED
    BY <1>1, <2>1, <2>2
<1>5. /\ job.block = storage.head /\ storage.head \in Built /\ db = storage.head
      /\ env.at = storage.head
  BY <1>1 DEF BackendInv, JobOK, MiningOK, ChainOK
<1>6. KeptOK'
  BY <1>1, <1>4, KeptStays DEF BackendInv
<1>7. JobOK'
  BY <1>1, <1>4, <1>5 DEF BackendInv, JobOK, MiningOK, RevertOK, RollbackOK, DbOf, FeesOK, InFlight, Built
<1> QED
  BY <1>1, <1>2, <1>4, <1>6, <1>7, UnderWay DEF InFlight

LEMMA PublishStorageInv == ASSUME BackendInv, PublishStorage PROVE BackendInv'
<1> DEFINE top == storage.number + 1
<1>1. /\ job.kind = "mine" /\ job.phase = "storage"
      /\ job' = [job EXCEPT !.phase = "env"]
      /\ storage'.blocks = storage.blocks \cup {job.block}
      /\ storage'.hashes = With(storage.hashes, top, job.block)
      /\ storage'.number = top /\ storage'.head = job.block
      /\ env' = env /\ db' = db /\ fees' = fees /\ kept' = kept /\ demoted' = demoted
      /\ overrides' = overrides /\ snapshots' = snapshots /\ readers' = readers
      /\ headers' = headers
  BY DEF PublishStorage, history
<1>2. /\ HeadersOK /\ ChainOK /\ KeptOK /\ JobOK /\ SnapshotsOK /\ OverridesOK /\ ReadersOK
      /\ Typed
  BY DEF BackendInv
<1>3. HeadersOK' /\ Grow /\ Built' = Built
  BY <1>1, <1>2, HeadersStay DEF Built
<1>4. InFlight
  BY <1>1 DEF InFlight
<1>5. /\ job.block \in Built \ storage.blocks /\ db = job.block
      /\ headers[job.block].parent = storage.head /\ headers[job.block].number = top
      /\ fees # job.block /\ job.env \in Env /\ fees \in Built /\ env.at \in Built
  BY <1>1, <1>2, <1>4 DEF JobOK, MiningOK
<1>6. job \in Job /\ "env" \in JobPhase
  BY <1>2 DEF Typed, JobPhase
<1>7. /\ job' \in Job /\ job'.phase = "env" /\ job'.kind = "mine" /\ job'.block = job.block
      /\ job'.env = job.env
  BY <1>1, <1>6, NextPhase
<1>8. storage.number \in Nat /\ top \in Nat /\ storage.number < top
  BY <1>2 DEF ChainOK
<1>9. /\ DOMAIN storage'.hashes = 0..top
      /\ storage'.hashes[top] = job.block
      /\ \A n \in 0..storage.number : storage'.hashes[n] = storage.hashes[n]
  BY <1>1, <1>2, <1>8 DEF ChainOK, With
<1>10. \A n : n \in 0..top <=> n = top \/ n \in 0..storage.number
  BY <1>8
<1>11. \A n \in 0..storage.number : storage.hashes[n] \in Built
  BY <1>2 DEF ChainOK
<1>12. ChainOK'
  <2>1. storage'.hashes \in Hashes
    <3>1. \A n \in 0..top : storage'.hashes[n] \in Blocks
      BY <1>2, <1>5, <1>9, <1>10, <1>11 DEF HeadersOK
    <3>2. storage'.hashes = [n \in 0..top |-> storage'.hashes[n]]
      BY <1>1, <1>9 DEF With
    <3>3. storage'.hashes \in [0..top -> Blocks]
      BY <3>1, <3>2
    <3> QED
      BY <1>8, <3>3 DEF Hashes
  <2>2. storage'.blocks = {storage'.hashes[n] : n \in 0..top}
    <3>1. storage.blocks = {storage.hashes[n] : n \in 0..storage.number}
      BY <1>2 DEF ChainOK
    <3> QED
      BY <1>1, <1>9, <1>10, <3>1
  <2>3. \A n \in 0..top :
           storage'.hashes[n] \in Built /\ headers[storage'.hashes[n]].number = n
    BY <1>2, <1>5, <1>9, <1>10 DEF ChainOK
  <2>4. \A n \in 1..top : headers[storage'.hashes[n]].parent = storage'.hashes[n-1]
    <3> SUFFICES ASSUME NEW n \in 1..top
                 PROVE  headers[storage'.hashes[n]].parent = storage'.hashes[n-1]
      OBVIOUS
    <3>1. CASE n = top
      <4>1. n - 1 = storage.number /\ storage.number \in 0..storage.number
        BY <1>8, <3>1
      <4> QED
        BY <1>2, <1>5, <1>9, <3>1, <4>1 DEF ChainOK
    <3>2. CASE n # top
      <4>1. n \in 1..storage.number /\ n \in 0..storage.number /\ n - 1 \in 0..storage.number
        BY <1>8, <3>2
      <4> QED
        BY <1>2, <1>9, <4>1 DEF ChainOK
    <3> QED
      BY <3>1, <3>2
  <2> HIDE DEF top
  <2> QED
    BY <1>1, <1>3, <1>8, <1>9, <2>1, <2>2, <2>3, <2>4 DEF ChainOK
<1>13. KeptOK'
  BY <1>1, <1>2, <1>3, <1>7 DEF KeptOK
<1>14. Typed'
  BY <1>1, <1>2, <1>7 DEF Typed
<1>15. JobOK'
  BY <1>1, <1>3, <1>5, <1>7 DEF JobOK, MiningOK, RevertOK, RollbackOK, InFlight
<1>16. SnapshotsOK'
  <2> SUFFICES ASSUME NEW i \in 1..Len(snapshots) PROVE SnapshotOK(snapshots[i])'
    BY <1>1 DEF SnapshotsOK
  <2>1. PICK s : s = snapshots[i]
    OBVIOUS
  <2>2. SnapshotOK(s) /\ snapshots'[i] = s
    BY <1>1, <1>2, <2>1 DEF SnapshotsOK
  <2>3. s.number \in Nat
    BY <1>2, <2>1, SnapshotFields DEF Typed
  <2>4. s.block \in storage'.blocks => s.block \in storage.blocks
    BY <1>1, <1>4, <2>2 DEF SnapshotOK
  <2>5. s.block \in storage.blocks => s.number \in 0..storage.number
    <3>1. s.block \in storage.blocks =>
            \E n \in 0..storage.number : s.block = storage.hashes[n]
      BY <1>2 DEF ChainOK
    <3> QED
      BY <1>2, <2>2, <3>1 DEF ChainOK, SnapshotOK
  <2>6. s.block \in storage'.blocks => \A n \in 0..s.number : storage'.hashes[n] = s.hashes[n]
    <3> SUFFICES ASSUME s.block \in storage.blocks, NEW n \in 0..s.number
                 PROVE  storage'.hashes[n] = s.hashes[n]
      BY <2>4
    <3>1. n \in 0..storage.number
      BY <1>8, <2>3, <2>5
    <3> QED
      BY <1>9, <2>2, <3>1 DEF SnapshotOK
  <2>7. ~InFlight'
    BY <1>7 DEF InFlight
  <2>8. SnapshotOK(s)'
    BY <1>1, <1>3, <2>2, <2>6, <2>7 DEF SnapshotOK
  <2> QED
    BY <2>2, <2>8, SnapshotPrimed
<1>17. OverridesOK'
  <2>1. /\ Unused(headers[job.block].prevrandao)
        /\ headers[job.block].prevrandao # None =>
              headers[job.block].prevrandao # overrides.value
    BY <1>2, <1>4 DEF OverridesOK
  <2>2. Unused(overrides.value)'
    BY <1>1, <1>2, <2>1 DEF OverridesOK, Unused
  <2>3. OverrideUsedOnce'
    BY <1>1, <1>2, <2>1 DEF OverridesOK, OverrideUsedOnce, Unused
  <2>4. ~InFlight'
    BY <1>7 DEF InFlight
  <2> QED
    BY <1>1, <1>2, <1>3, <1>7, <2>2, <2>3, <2>4 DEF OverridesOK
<1>18. ReadersOK'
  <2>1. DbWriteLocked /\ ~InFlight'
    BY <1>1, <1>7 DEF DbWriteLocked, Writing, InFlight
  <2>2. \A r \in Readers : ~Holds(readers[r])
    BY <1>2, <2>1, NobodyHolds
  <2>3. \A b \in Built \ storage.blocks :
           b \notin storage'.blocks \/ (InFlight /\ b = job.block)
    BY <1>1, <1>4
  <2>4. /\ storage.number \in Nat /\ storage'.number \in Nat
        /\ storage.number <= storage'.number
    BY <1>1, <1>8
  <2> QED
    BY <1>1, <1>2, <1>3, <1>7, <2>1, <2>2, <2>3, <2>4, ReadersStay
<1> QED
  BY <1>3, <1>12, <1>13, <1>14, <1>15, <1>16, <1>17, <1>18 DEF BackendInv

LEMMA MineInv == ASSUME BackendInv, Mine PROVE BackendInv'
BY LockMiningInv, MineBeginInv, MineLockDbInv, MineFailInv, MineCommitInv, MineForgetInv,
   MineDemoteInv, MineInsertInv, PublishStorageInv, PublishEnvInv, PublishFeesInv DEF Mine

----------------------------------------------------------------------------
(* Setters and snapshots *)

LEMMA SetCoinbaseInv ==
    ASSUME BackendInv, NEW c \in Coinbases, SetCoinbase(c)
    PROVE  BackendInv'
<1>1. /\ env' = [env EXCEPT !.coinbase = c] /\ storage' = storage /\ db' = db /\ fees' = fees
      /\ kept' = kept /\ demoted' = demoted /\ overrides' = overrides
      /\ snapshots' = snapshots /\ job' = job /\ readers' = readers /\ headers' = headers
  BY DEF SetCoinbase, history
<1>2. /\ HeadersOK /\ ChainOK /\ KeptOK /\ JobOK /\ SnapshotsOK /\ OverridesOK /\ ReadersOK
      /\ Typed
  BY DEF BackendInv
<1>3. env' \in Env /\ env'.at = env.at
  BY <1>1, <1>2 DEF Typed, Env
<1>4. HeadersOK' /\ ChainOK' /\ KeptOK' /\ Grow
  BY <1>1, <1>2, HeadersStay, ChainStays, KeptStays
<1>5. InFlight' = InFlight /\ DbWriteLocked' = DbWriteLocked
  BY <1>1 DEF InFlight, DbWriteLocked
<1>6. JobOK'
  BY <1>1, <1>2, <1>3, <1>5 DEF JobOK, MiningOK, RevertOK, RollbackOK, DbOf, FeesOK, Built, SnapshotOK
<1>7. SnapshotsOK' /\ OverridesOK'
  BY <1>1, <1>2, <1>5 DEF SnapshotsOK, SnapshotOK, OverridesOK, OverrideUsedOnce, Unused, Built
<1>8. ReadersOK'
  BY <1>1, <1>2, <1>4, <1>5, ReadersStay
<1>9. Typed'
  BY <1>1, <1>2, <1>3 DEF Typed
<1> QED
  BY <1>4, <1>6, <1>7, <1>8, <1>9 DEF BackendInv

LEMMA SetPrevRandaoInv == ASSUME BackendInv, SetPrevRandao PROVE BackendInv'
<1> DEFINE g == overrides.generation
<1>1. /\ g < MaxOverrides /\ overrides' = Replace(overrides, g + 1)
      /\ env' = env /\ storage' = storage /\ db' = db /\ fees' = fees
      /\ kept' = kept /\ demoted' = demoted
      /\ snapshots' = snapshots /\ job' = job /\ readers' = readers /\ headers' = headers
  BY DEF SetPrevRandao, pieces, history
<1>2. /\ HeadersOK /\ ChainOK /\ KeptOK /\ JobOK /\ SnapshotsOK /\ OverridesOK /\ ReadersOK
      /\ Typed
  BY DEF BackendInv
<1>3. g \in Nat /\ overrides.value \in Nat \cup {None} /\ overrides \in Override
  BY <1>2, OverrideFields DEF Typed
<1>4. /\ overrides' \in Override /\ overrides'.value = g + 1
      /\ overrides'.generation = g + 1 /\ g + 1 \in Nat /\ g + 1 # None
      /\ g + 1 <= MaxOverrides
  <2>1. g + 1 \in Nat /\ g + 1 # None /\ g + 1 <= MaxOverrides
    BY <1>1, <1>3, BackendAssumption
  <2>2. g + 1 \in Nat \cup {None}
    BY <2>1
  <2>3. /\ Replace(overrides, g + 1) \in Override /\ Replace(overrides, g + 1).value = g + 1
        /\ Replace(overrides, g + 1).generation = overrides.generation + 1
    BY <1>3, <2>2, ReplaceFields
  <2> QED
    BY <1>1, <2>1, <2>3
<1>5. HeadersOK' /\ ChainOK' /\ KeptOK' /\ Grow /\ Built' = Built
  BY <1>1, <1>2, HeadersStay, ChainStays, KeptStays DEF Built
<1>6. InFlight' = InFlight /\ DbWriteLocked' = DbWriteLocked
  BY <1>1 DEF InFlight, DbWriteLocked
<1>7. SnapshotsOK'
  BY <1>1, <1>2, <1>3, <1>4, <1>5, <1>6, SnapshotsStay
<1>8. JobOK'
  <2>1. RevertOK'
    <3>1. job.kind = "revert" => job'.snapshot \in Snapshot /\ SnapshotOK(job.snapshot)'
      BY <1>1, <1>2, <1>3, <1>4, <1>5, <1>6, RestoredStays DEF JobOK, RevertOK
    <3> QED
      BY <1>1, <1>2, <1>4, <3>1 DEF JobOK, RevertOK
  <2>2. RollbackOK'
    BY <1>1, <1>2 DEF JobOK, RollbackOK, SetPrevRandao, Exclusive
  <2> QED
    BY <1>1, <1>2, <1>5, <1>6, <2>1, <2>2 DEF JobOK, MiningOK, DbOf, FeesOK
<1>9. ReadersOK'
  BY <1>1, <1>2, <1>5, <1>6, ReadersStay
<1>10. Typed'
  BY <1>1, <1>2, <1>4 DEF Typed
<1>11. OverridesOK'
  <2>1. \A b \in Built : headers[b].prevrandao # None =>
           headers[b].prevrandao \in Nat /\ headers[b].prevrandao <= g
    BY <1>2 DEF HeadersOK, Header, OverridesOK
  <2>2. \A b \in Built : headers[b].prevrandao # g + 1
    BY <1>3, <1>4, <2>1
  <2>3. storage.blocks \subseteq Built
    BY <1>2 DEF ChainOK
  <2>4. Unused(overrides.value)' /\ OverrideUsedOnce'
    BY <1>1, <1>2, <1>4, <2>2, <2>3 DEF Unused, OverridesOK, OverrideUsedOnce
  <2>5. ASSUME job.kind = "mine", job.phase \in {"lock", "execute"}
        PROVE  /\ Unused(job.used.value)'
               /\ job'.used.value # None => job'.used.value <= overrides'.generation
               /\ job'.used.generation <= overrides'.generation
               /\ job'.used.generation # overrides'.generation
               /\ overrides'.value # job'.used.value
    <3>1. /\ Unused(job.used.value)
          /\ job.used.value # None => job.used.value <= g
          /\ job.used.generation <= g
      BY <1>2, <2>5 DEF OverridesOK
    <3>2. job.used.value \in Nat \cup {None} /\ job.used.generation \in Nat
      BY <1>2, JobFields, OverrideFields DEF Typed
    <3>3. Unused(job.used.value)'
      BY <1>1, <3>1 DEF Unused
    <3> QED
      BY <1>1, <1>3, <1>4, <3>1, <3>2, <3>3
  <2>6. ASSUME InFlight
        PROVE  /\ Unused(headers[job.block].prevrandao)'
               /\ headers'[job'.block].prevrandao # None =>
                    headers'[job'.block].prevrandao # overrides'.value
    <3>1. job.block \in Built /\ Unused(headers[job.block].prevrandao)
      BY <1>2, <2>6 DEF OverridesOK, JobOK, MiningOK, InFlight
    <3> QED
      BY <1>1, <1>4, <2>2, <3>1 DEF Unused
  <2>7. \A b \in Built' : headers'[b].prevrandao # None =>
                            headers'[b].prevrandao <= overrides'.generation
    BY <1>1, <1>3, <1>4, <1>5, <2>1
  <2>8. /\ overrides'.generation <= MaxOverrides + 1
        /\ overrides'.value # None => overrides'.value <= overrides'.generation
    BY <1>3, <1>4, BackendAssumption
  <2> QED
    BY <1>1, <1>6, <2>4, <2>5, <2>6, <2>7, <2>8 DEF OverridesOK
<1> QED
  BY <1>5, <1>7, <1>8, <1>9, <1>10, <1>11 DEF BackendInv

LEMMA CreateSnapshotInv == ASSUME BackendInv, CreateSnapshot PROVE BackendInv'
<1> DEFINE s == [block |-> storage.head, number |-> storage.number, db |-> db,
                 fees |-> fees, override |-> overrides.value, hashes |-> storage.hashes]
<1>1. /\ job.kind = "none" /\ Len(snapshots) < MaxSnapshots
      /\ snapshots' = Append(snapshots, s) /\ overrides' = overrides
      /\ env' = env /\ storage' = storage /\ db' = db /\ fees' = fees
      /\ kept' = kept /\ demoted' = demoted
      /\ job' = job /\ readers' = readers /\ headers' = headers
  BY DEF CreateSnapshot, pieces, history
<1>2. /\ HeadersOK /\ ChainOK /\ KeptOK /\ JobOK /\ SnapshotsOK /\ OverridesOK /\ ReadersOK
      /\ Typed
  BY DEF BackendInv
<1>3. HeadersOK' /\ ChainOK' /\ KeptOK' /\ Grow /\ Built' = Built
  BY <1>1, <1>2, HeadersStay, ChainStays, KeptStays DEF Built
<1>4. InFlight' = InFlight /\ DbWriteLocked' = DbWriteLocked /\ ~InFlight
  BY <1>1 DEF InFlight, DbWriteLocked
<1>5. overrides.value \in Nat \cup {None} /\ overrides.generation \in Nat
  BY <1>2, OverrideFields DEF Typed
<1>6. /\ storage.head \in Built /\ storage.number \in Nat /\ storage.number \in 0..storage.number
      /\ storage.hashes \in Hashes /\ headers[storage.head].number = storage.number
      /\ \A n \in 0..storage.number : storage.hashes[n] \in Built \cap storage.blocks
  BY <1>2 DEF ChainOK
<1>7. s \in Snapshot
  BY <1>2, <1>5, <1>6 DEF Snapshot, HeadersOK, JobOK
<1>8. SnapshotOK(s)
  <2>1. /\ DbOf(storage.head) /\ FeesOK /\ db \in Built /\ fees \in Built
    BY <1>1, <1>2 DEF JobOK
  <2>2. overrides.value # None =>
           /\ overrides.value <= overrides.generation
           /\ \A n \in 0..storage.number : headers[storage.hashes[n]].prevrandao # overrides.value
    BY <1>2, <1>6 DEF OverridesOK, Unused
  <2>3. fees = storage.head \/ \A n \in 0..storage.number : storage.hashes[n] # fees
    BY <1>6, <2>1 DEF FeesOK
  <2> QED
    BY <1>4, <1>6, <2>1, <2>2, <2>3 DEF SnapshotOK, DbOf
<1> HIDE DEF s
<1>9. /\ snapshots' \in Seq(Snapshot) /\ Len(snapshots') = Len(snapshots) + 1
      /\ Len(snapshots) \in Nat
      /\ \A i \in 1..Len(snapshots') :
            \/ i \in 1..Len(snapshots) /\ snapshots'[i] = snapshots[i]
            \/ snapshots'[i] = s
  BY <1>1, <1>2, <1>7 DEF Typed
<1>10. Len(snapshots') <= MaxSnapshots
  BY <1>1, <1>9, BackendAssumption
<1>11. Typed'
  BY <1>1, <1>2, <1>9, <1>10 DEF Typed
<1>12. \A t : SnapshotOK(t) => SnapshotOK(t)'
  BY <1>1, <1>4 DEF SnapshotOK, Built
<1>13. SnapshotsOK'
  <2> SUFFICES ASSUME NEW i \in 1..Len(snapshots') PROVE SnapshotOK(snapshots[i])'
    BY DEF SnapshotsOK
  <2>1. PICK t : t = snapshots'[i]
    OBVIOUS
  <2>2. SnapshotOK(t)
    BY <1>2, <1>8, <1>9, <2>1 DEF SnapshotsOK
  <2> QED
    BY <1>12, <2>1, <2>2, SnapshotPrimed
<1>14. JobOK' /\ OverridesOK'
  BY <1>1, <1>2, <1>3, <1>4 DEF JobOK, MiningOK, RevertOK, RollbackOK, DbOf, FeesOK, OverridesOK, Unused,
                                OverrideUsedOnce
<1>15. ReadersOK'
  BY <1>1, <1>2, <1>3, <1>4, ReadersStay
<1> QED
  BY <1>3, <1>11, <1>13, <1>14, <1>15 DEF BackendInv

----------------------------------------------------------------------------
(* evm_revert *)

LEMMA RevertBeginInv ==
    ASSUME BackendInv, NEW i \in 1..Len(snapshots), RevertBegin(i)
    PROVE  BackendInv'
<1>s. PICK s : s = snapshots[i]
  OBVIOUS
<1> DEFINE n == [NoJob EXCEPT !.kind = "revert", !.phase = "lock", !.snapshot = s, !.left = i]
<1>1. /\ job.kind = "none" /\ overrides.generation < MaxOverrides /\ s.block \in storage.blocks
      /\ job' = n /\ snapshots' = snapshots /\ overrides' = overrides
      /\ env' = env /\ storage' = storage /\ db' = db /\ fees' = fees
      /\ kept' = kept /\ demoted' = demoted /\ headers' = headers
      /\ readers' = [r \in Readers |->
                       IF readers[r].phase \in {"idle", "done"} THEN readers[r]
                       ELSE [readers[r] EXCEPT !.overlapped = TRUE]]
  BY <1>s DEF RevertBegin, pieces, history
<1>2. /\ HeadersOK /\ ChainOK /\ KeptOK /\ JobOK /\ SnapshotsOK /\ OverridesOK /\ ReadersOK
      /\ Typed
  BY DEF BackendInv
<1>3. HeadersOK' /\ ChainOK' /\ KeptOK' /\ Grow /\ Built' = Built
  BY <1>1, <1>2, HeadersStay, ChainStays, KeptStays DEF Built
<1>4. s \in Snapshot /\ SnapshotOK(s)
  BY <1>2, <1>s DEF Typed, SnapshotsOK
<1>5. NoJob \in JobOf /\ s \in OptSnapshot /\ i \in Nat /\ "lock" \in JobPhase
  BY <1>2, <1>4, NoJobTyped, JobIsOf DEF OptSnapshot, JobPhase, Typed
<1> HIDE DEF NoJob
<1>6. n \in JobOf /\ n.kind = "revert" /\ n.phase = "lock" /\ n.snapshot = s /\ n.left = i
  BY <1>5 DEF JobOf, Kinds
<1> HIDE DEF n
<1>7. /\ job' \in Job /\ job'.kind = "revert" /\ job'.phase = "lock" /\ job'.snapshot = s
      /\ job'.left = i
  BY <1>1, <1>6, JobIsOf
<1>8. ~InFlight' /\ ~DbWriteLocked'
  BY <1>7 DEF InFlight, DbWriteLocked
<1>9. \A t : SnapshotOK(t) => SnapshotOK(t)'
  BY <1>1, <1>8 DEF SnapshotOK, Built
<1>10. SnapshotsOK'
  <2> SUFFICES ASSUME NEW k \in 1..Len(snapshots) PROVE SnapshotOK(snapshots[k])'
    BY <1>1 DEF SnapshotsOK
  <2>1. PICK t : t = snapshots[k]
    OBVIOUS
  <2> QED
    BY <1>1, <1>2, <1>9, <2>1, SnapshotPrimed DEF SnapshotsOK
<1>11. JobOK'
  <2>1. SnapshotOK(job.snapshot)'
    <3>1. SnapshotOK(s)'
      BY <1>4, <1>9
    <3> QED
      BY <1>7, <3>1 DEF SnapshotOK
  <2>2. overrides.generation \in Nat /\ overrides.generation <= MaxOverrides
    BY <1>1, <1>2, OverrideFields, BackendAssumption DEF Typed
  <2>3. RevertOK'
    BY <1>1, <1>4, <1>7, <2>1, <2>2 DEF RevertOK
  <2> QED
    BY <1>1, <1>2, <1>3, <1>7, <2>3 DEF JobOK, MiningOK, RollbackOK
<1>12. OverridesOK'
  BY <1>1, <1>2, <1>7, <1>8, OverridesStay
<1>13. \A r \in Readers : readers'[r] \in Reader /\ ReaderOK(readers[r])'
  <2> SUFFICES ASSUME NEW r \in Readers PROVE readers'[r] \in Reader /\ ReaderOK(readers[r])'
    OBVIOUS
  <2>q. PICK q : q = readers[r]
    OBVIOUS
  <2>p. PICK p : p = [q EXCEPT !.overlapped = TRUE]
    OBVIOUS
  <2>1. q \in Reader /\ ReaderOK(q)
    BY <1>2, <2>q DEF Typed, ReadersOK
  <2>2. readers'[r] = IF q.phase \in {"idle", "done"} THEN q ELSE p
    BY <1>1, <2>q, <2>p
  <2>3. CASE q.phase \in {"idle", "done"}
    <3>1. ~Active(q) /\ ~Holds(q)
      BY <2>3 DEF Active, Holds
    <3>2. ReaderOK(q)'
      BY <1>1, <1>3, <1>8, <2>1, <3>1, ReaderStays
    <3> QED
      BY <2>1, <2>2, <2>3, <3>2, ReaderPrimed
  <2>4. CASE q.phase \notin {"idle", "done"}
    <3>1. q \in ReaderOf
      BY <2>1, ReaderIsOf
    <3>2. /\ p \in ReaderOf /\ p.phase = q.phase /\ p.live = q.live /\ p.guarded = q.guarded
          /\ p.promised = q.promised /\ p.env = q.env /\ p.fees = q.fees
          /\ p.overlapped = TRUE
      BY <2>p, <3>1 DEF ReaderOf
    <3>3. Shape(p)' /\ Refers(p)'
      BY <1>3, <1>8, <2>1, <3>2 DEF ReaderOK, Shape, Refers
    <3>4. Locked(p)'
      BY <1>7, <1>8, <3>2 DEF Locked, Holds
    <3>5. ReaderOK(p)'
      BY <3>2, <3>3, <3>4 DEF ReaderOK
    <3> QED
      BY <2>2, <2>4, <3>2, <3>5, ReaderIsOf, ReaderPrimed
  <2> QED
    BY <2>3, <2>4
<1>14. readers' \in [Readers -> Reader] /\ ReadersOK'
  BY <1>1, <1>13 DEF ReadersOK
<1>15. Typed'
  BY <1>1, <1>2, <1>7, <1>14 DEF Typed
<1> QED
  BY <1>3, <1>10, <1>11, <1>12, <1>14, <1>15 DEF BackendInv

\* The requests that evm_revert meets are marked.
LEMMA AllOverlapped ==
    ASSUME ReadersOK, job.kind = "revert"
    PROVE  \A r \in Readers : readers[r].overlapped \/ (~Holds(readers[r]) /\ ~Active(readers[r]))
BY DEF ReadersOK, ReaderOK, Locked, Active, Holds

\* What a step of evm_revert leaves alone.
LEMMA RevertFrame ==
    ASSUME BackendInv, job.kind = "revert", headers' = headers, readers' = readers,
           storage'.blocks \subseteq storage.blocks, job'.kind \in {"none", "revert"}
    PROVE  HeadersOK' /\ Grow /\ Built' = Built /\ ReadersOK' /\ ~InFlight /\ ~InFlight'
<1>1. HeadersOK' /\ Grow /\ Built' = Built
  BY HeadersStay DEF BackendInv, Built
<1>2. ~InFlight /\ ~InFlight' /\ ~DbWriteLocked'
  BY DEF InFlight, DbWriteLocked
<1>3. \A r \in Readers :
         readers[r].overlapped \/ (~Holds(readers[r]) /\ ~Active(readers[r]))
  BY AllOverlapped DEF BackendInv
<1>4. ReadersOK'
  BY <1>1, <1>2, <1>3, ReadersStay DEF BackendInv
<1> QED
  BY <1>1, <1>2, <1>4

LEMMA RevertDbInv == ASSUME BackendInv, RevertDb PROVE BackendInv'
<1> DEFINE k == job.left - 1
<1>1. /\ job.kind = "revert" /\ job.phase = "lock" /\ db' = job.snapshot.db
      /\ job' = [job EXCEPT !.phase = "unwind"] /\ snapshots' = SubSeq(snapshots, 1, k)
      /\ overrides' = overrides /\ env' = env /\ storage' = storage /\ fees' = fees
      /\ kept' = kept /\ demoted' = demoted /\ headers' = headers /\ readers' = readers
  BY DEF RevertDb, history
<1>2. /\ HeadersOK /\ ChainOK /\ KeptOK /\ JobOK /\ SnapshotsOK /\ OverridesOK /\ Typed
  BY DEF BackendInv
<1>3. job \in Job /\ "unwind" \in JobPhase
  BY <1>2 DEF Typed, JobPhase
<1>4. /\ job' \in Job /\ job'.kind = "revert" /\ job'.phase = "unwind"
      /\ job'.snapshot = job.snapshot
  BY <1>1, <1>3, NextPhase
<1>5. HeadersOK' /\ Grow /\ Built' = Built /\ ReadersOK' /\ ~InFlight /\ ~InFlight'
  BY <1>1, <1>4, RevertFrame
<1>6. ChainOK' /\ KeptOK'
  BY <1>1, <1>2, ChainStays, KeptStays
<1>7. OverridesOK'
  BY <1>1, <1>2, <1>4, <1>5, OverridesStay
<1>8. k \in 0..Len(snapshots) /\ Len(snapshots) \in Nat
  BY <1>1, <1>2 DEF JobOK, RevertOK, Typed
<1>9. /\ snapshots' \in Seq(Snapshot) /\ Len(snapshots') = k
      /\ \A i \in 1..k : i \in 1..Len(snapshots) /\ snapshots'[i] = snapshots[i]
  BY <1>1, <1>2, <1>8 DEF Typed
<1>10. Len(snapshots') <= MaxSnapshots
  BY <1>2, <1>8, <1>9, BackendAssumption DEF Typed
<1>11. Typed'
  BY <1>1, <1>2, <1>4, <1>9, <1>10 DEF Typed
<1>12. \A t : SnapshotOK(t) => SnapshotOK(t)'
  BY <1>1, <1>5 DEF SnapshotOK
<1>13. SnapshotsOK'
  <2> SUFFICES ASSUME NEW i \in 1..Len(snapshots') PROVE SnapshotOK(snapshots[i])'
    BY DEF SnapshotsOK
  <2>1. PICK t : t = snapshots'[i]
    OBVIOUS
  <2>2. SnapshotOK(t)
    BY <1>2, <1>9, <2>1 DEF SnapshotsOK
  <2> QED
    BY <1>12, <2>1, <2>2, SnapshotPrimed
<1>14. JobOK'
  <2>1. job.snapshot \in Snapshot /\ SnapshotOK(job.snapshot) /\ job.snapshot.block \in storage.blocks
        /\ overrides.generation <= MaxOverrides /\ fees \in Built /\ env.at \in Built
    BY <1>1, <1>2 DEF JobOK, RevertOK
  <2>2. SnapshotOK(job.snapshot)'
    <3>1. PICK t : t = job.snapshot
      OBVIOUS
    <3>2. SnapshotOK(t)'
      BY <1>12, <2>1, <3>1
    <3> QED
      BY <1>4, <3>1, <3>2 DEF SnapshotOK
  <2>3. RevertOK'
    BY <1>1, <1>4, <2>1, <2>2 DEF RevertOK
  <2>4. db' \in Built
    BY <1>1, <2>1 DEF SnapshotOK
  <2> QED
    BY <1>1, <1>4, <1>5, <2>1, <2>3, <2>4 DEF JobOK, MiningOK, RollbackOK
<1> QED
  BY <1>5, <1>6, <1>7, <1>11, <1>13, <1>14 DEF BackendInv

\* unwind_to leaves the chain up to one of its blocks.
LEMMA Unwinding ==
    ASSUME ChainOK, HeadersOK, headers' = headers, NEW m \in 0..storage.number,
           storage' = UnwindTo(storage, m, storage.hashes[m])
    PROVE  /\ ChainOK' /\ storage'.blocks \subseteq storage.blocks
           /\ storage'.number = m /\ storage'.head = storage.hashes[m]
           /\ \A n \in 0..m : storage'.hashes[n] = storage.hashes[n]
           /\ \A n \in 0..storage.number : n > m => storage.hashes[n] \notin storage'.blocks
<1> DEFINE above == {n \in DOMAIN storage.hashes : n > m /\ n <= storage.number}
<1>1. /\ storage'.blocks = storage.blocks \ {storage.hashes[n] : n \in above}
      /\ storage'.hashes = Restricted(storage.hashes, DOMAIN storage.hashes \ above)
      /\ storage'.number = m /\ storage'.head = storage.hashes[m]
  BY DEF UnwindTo
<1>2. /\ storage.number \in Nat /\ DOMAIN storage.hashes = 0..storage.number /\ m \in Nat
      /\ storage.blocks = {storage.hashes[n] : n \in 0..storage.number}
      /\ \A n \in 0..storage.number :
           storage.hashes[n] \in Built /\ headers[storage.hashes[n]].number = n
      /\ \A n \in 1..storage.number :
           headers[storage.hashes[n]].parent = storage.hashes[n-1]
  BY DEF ChainOK
<1>3. \A n \in 0..storage.number : n \in above <=> n > m
  BY <1>2
<1>4. DOMAIN storage.hashes \ above = 0..m /\ 0..m \subseteq 0..storage.number
  BY <1>2
<1>5. DOMAIN storage'.hashes = 0..m /\ storage'.hashes = [n \in 0..m |-> storage.hashes[n]]
  BY <1>1, <1>2, <1>4 DEF Restricted
<1>6. \A n \in 0..m : storage'.hashes[n] = storage.hashes[n]
  BY <1>5
<1>7. storage'.blocks \subseteq storage.blocks
  BY <1>1
<1>8. \A n \in 0..storage.number : n > m => storage.hashes[n] \notin storage'.blocks
  BY <1>1, <1>3
<1>9. \A n \in 0..m : storage.hashes[n] \in storage'.blocks
  <2> SUFFICES ASSUME NEW n \in 0..m PROVE storage.hashes[n] \in storage'.blocks
    OBVIOUS
  <2>1. n \in 0..storage.number /\ n <= m
    BY <1>4
  <2>2. \A k \in above : k \in 0..storage.number /\ k # n
    BY <1>2, <1>3, <2>1
  <2>3. \A k \in above : storage.hashes[k] # storage.hashes[n]
    BY <1>2, <2>1, <2>2
  <2> QED
    BY <1>1, <1>2, <2>1, <2>3
<1> HIDE DEF above
<1>10. storage'.blocks = {storage'.hashes[n] : n \in 0..m}
  <2>1. \A b \in storage'.blocks : \E n \in 0..m : b = storage.hashes[n]
    <3> SUFFICES ASSUME NEW b \in storage'.blocks PROVE \E n \in 0..m : b = storage.hashes[n]
      OBVIOUS
    <3>1. PICK n \in 0..storage.number : b = storage.hashes[n]
      BY <1>2, <1>7
    <3>2. ~(n > m)
      BY <1>8, <3>1
    <3>3. n \in 0..m
      BY <1>2, <3>2
    <3> QED
      BY <3>1, <3>3
  <2> QED
    BY <1>6, <1>9, <2>1
<1>11. storage'.hashes \in Hashes
  <2>1. storage'.hashes \in [0..m -> Blocks]
    BY <1>2, <1>4, <1>5 DEF HeadersOK
  <2> QED
    BY <1>2, <2>1 DEF Hashes
<1>12. \A n \in 1..m : headers[storage'.hashes[n]].parent = storage'.hashes[n-1]
  <2> SUFFICES ASSUME NEW n \in 1..m
               PROVE  headers[storage'.hashes[n]].parent = storage'.hashes[n-1]
    OBVIOUS
  <2>1. n \in 1..storage.number /\ n \in 0..m /\ n - 1 \in 0..m
    BY <1>2
  <2> QED
    BY <1>2, <1>6, <2>1
<1>13. m \in 0..m
  BY <1>2
<1>14. ChainOK'
  BY <1>1, <1>2, <1>4, <1>5, <1>6, <1>10, <1>11, <1>12, <1>13 DEF ChainOK, Built
<1> QED
  BY <1>1, <1>6, <1>7, <1>8, <1>14

\* A snapshot survives the unwinding of the chain.
LEMMA SnapshotUnwinds ==
    ASSUME NEW s, SnapshotOK(s), s.number \in Nat, ChainOK, ChainOK', headers' = headers,
           storage'.blocks \subseteq storage.blocks, storage'.number \in Nat,
           \A n \in 0..storage'.number : storage'.hashes[n] = storage.hashes[n],
           overrides'.generation \in Nat, overrides.generation \in Nat,
           overrides'.generation >= overrides.generation,
           s.override \in Nat \cup {None}, ~InFlight'
    PROVE  SnapshotOK(s)'
<1>1. s.block \in storage'.blocks => s.number \in 0..storage'.number
  <2>1. s.block \in storage'.blocks => \E n \in 0..storage'.number : s.block = storage'.hashes[n]
    BY DEF ChainOK
  <2>2. \A n \in 0..storage'.number : headers'[storage'.hashes[n]].number = n
    BY DEF ChainOK
  <2> QED
    BY <2>1, <2>2 DEF SnapshotOK
<1>2. s.block \in storage'.blocks => \A n \in 0..s.number : storage'.hashes[n] = s.hashes[n]
  <2> SUFFICES ASSUME s.block \in storage'.blocks, NEW n \in 0..s.number
               PROVE  storage'.hashes[n] = s.hashes[n]
    OBVIOUS
  <2>1. n \in 0..storage'.number
    BY <1>1
  <2> QED
    BY <2>1 DEF SnapshotOK
<1>3. s.override # None => s.override <= overrides'.generation
  BY DEF SnapshotOK
<1>4. Built' = Built
  BY DEF Built
<1> QED
  BY <1>2, <1>3, <1>4 DEF SnapshotOK

LEMMA SnapshotsUnwind ==
    ASSUME Typed, SnapshotsOK, snapshots' = snapshots, ChainOK, ChainOK', headers' = headers,
           storage'.blocks \subseteq storage.blocks, storage'.number \in Nat,
           \A n \in 0..storage'.number : storage'.hashes[n] = storage.hashes[n],
           overrides'.generation \in Nat, overrides'.generation >= overrides.generation,
           ~InFlight'
    PROVE  SnapshotsOK'
<1> SUFFICES ASSUME NEW i \in 1..Len(snapshots) PROVE SnapshotOK(snapshots[i])'
  BY DEF SnapshotsOK
<1>1. PICK s : s = snapshots[i]
  OBVIOUS
<1>2. SnapshotOK(s) /\ snapshots'[i] = s
  BY <1>1 DEF SnapshotsOK
<1>3. s \in Snapshot /\ overrides.generation \in Nat
  BY <1>1, OverrideFields DEF Typed
<1>4. SnapshotOK(s)'
  BY <1>2, <1>3, SnapshotFields, SnapshotUnwinds
<1> QED
  BY <1>2, <1>4, SnapshotPrimed

\* A block of the chain is the one with its number.
LEMMA NumberOfBlock ==
    ASSUME ChainOK, NEW b \in storage.blocks, NEW m, headers[b].number = m
    PROVE  m \in 0..storage.number /\ storage.hashes[m] = b
<1>1. PICK n \in 0..storage.number : b = storage.hashes[n]
  BY DEF ChainOK
<1> QED
  BY <1>1 DEF ChainOK

LEMMA RevertStorageInv == ASSUME BackendInv, RevertStorage PROVE BackendInv'
<1>s. PICK s : s = job.snapshot
  OBVIOUS
<1>r. PICK removed : removed = storage.blocks \ UnwindTo(storage, s.number, s.block).blocks
  OBVIOUS
<1> DEFINE n == [job EXCEPT !.phase = "states", !.removed = removed]
<1>1. /\ job.kind = "revert" /\ job.phase = "unwind"
      /\ storage' = UnwindTo(storage, s.number, s.block) /\ job' = n
      /\ snapshots' = snapshots /\ overrides' = overrides
      /\ env' = env /\ db' = db /\ fees' = fees /\ kept' = kept /\ demoted' = demoted
      /\ headers' = headers /\ readers' = readers
  BY <1>s, <1>r DEF RevertStorage, history
<1>2. /\ HeadersOK /\ ChainOK /\ KeptOK /\ JobOK /\ SnapshotsOK /\ OverridesOK /\ Typed
  BY DEF BackendInv
<1>3. /\ s \in Snapshot /\ SnapshotOK(s) /\ s.block \in storage.blocks /\ db = s.db
      /\ overrides.generation <= MaxOverrides
      /\ db \in Built /\ fees \in Built /\ env.at \in Built
  BY <1>1, <1>2, <1>s DEF JobOK, RevertOK
<1>4. s.number \in 0..storage.number /\ storage.hashes[s.number] = s.block
  BY <1>2, <1>3, NumberOfBlock DEF SnapshotOK
<1>5. storage.blocks \subseteq Blocks /\ removed \in SUBSET Blocks
  BY <1>2, <1>r DEF ChainOK, HeadersOK
<1>6. job \in JobOf /\ "states" \in JobPhase
  BY <1>2, JobIsOf DEF Typed, JobPhase
<1>7. /\ n \in JobOf /\ n.kind = job.kind /\ n.phase = "states" /\ n.removed = removed
      /\ n.snapshot = job.snapshot
  BY <1>5, <1>6 DEF JobOf
<1> HIDE DEF n
<1>8. /\ job' \in Job /\ job'.kind = "revert" /\ job'.phase = "states"
      /\ job'.removed = removed /\ job'.snapshot = s
  BY <1>1, <1>7, <1>s, JobIsOf
<1>9. /\ ChainOK' /\ storage'.blocks \subseteq storage.blocks
      /\ storage'.number = s.number /\ storage'.head = s.block
      /\ \A k \in 0..s.number : storage'.hashes[k] = storage.hashes[k]
  BY <1>1, <1>2, <1>4, Unwinding
<1>10. HeadersOK' /\ Grow /\ Built' = Built /\ ReadersOK' /\ ~InFlight /\ ~InFlight'
  BY <1>1, <1>8, <1>9, RevertFrame
<1>11. s.number \in Nat /\ s.override \in Nat \cup {None} /\ overrides.generation \in Nat
       /\ overrides'.generation \in Nat /\ overrides'.generation >= overrides.generation
       /\ storage'.number \in Nat
  <2>1. overrides.generation \in Nat
    BY <1>2, OverrideFields DEF Typed
  <2> QED
    BY <1>1, <1>3, <1>9, <2>1, SnapshotFields
<1>12. SnapshotsOK'
  BY <1>1, <1>2, <1>9, <1>10, <1>11, SnapshotsUnwind
<1>13. SnapshotOK(job.snapshot)'
  <2>1. SnapshotOK(s)'
    BY <1>1, <1>2, <1>3, <1>9, <1>10, <1>11, SnapshotUnwinds
  <2> QED
    BY <1>8, <2>1 DEF SnapshotOK
<1>14. s.block \in storage'.blocks
  BY <1>9 DEF ChainOK
<1>15. JobOK'
  <2>1. RevertOK'
    BY <1>1, <1>3, <1>8, <1>9, <1>13, <1>14 DEF RevertOK
  <2> QED
    BY <1>1, <1>3, <1>8, <1>10, <2>1 DEF JobOK, MiningOK, RollbackOK
<1>16. KeptOK'
  <2>1. DOMAIN kept \subseteq storage.blocks
    BY <1>1, <1>2 DEF KeptOK
  <2>2. storage.blocks \subseteq storage'.blocks \cup removed
    BY <1>1, <1>r
  <2> QED
    BY <1>1, <1>2, <1>8, <1>10, <2>1, <2>2 DEF KeptOK
<1>17. OverridesOK'
  BY <1>1, <1>2, <1>8, <1>9, <1>10, OverridesStay
<1>18. Typed'
  BY <1>1, <1>2, <1>8 DEF Typed
<1> QED
  BY <1>9, <1>10, <1>12, <1>15, <1>16, <1>17, <1>18 DEF BackendInv

\* remove_block_states
LEMMA Removing ==
    ASSUME KeptOK, HeadersOK, Built' = Built, NEW removed, RemoveStates(removed)
    PROVE  /\ DOMAIN kept' = DOMAIN kept \ removed
           /\ \A b \in DOMAIN kept' : kept'[b] = kept[b]
           /\ \A b \in DOMAIN kept' : kept'[b] \in Built' /\ (Persistent => kept'[b] = b)
           /\ DOMAIN kept' \subseteq Built' /\ demoted' \subseteq DOMAIN kept'
<1>1. kept' = Restricted(kept, Blocks \ removed) /\ demoted' = demoted \ removed
  BY DEF RemoveStates
<1>2. DOMAIN kept' = DOMAIN kept \ removed
  BY <1>1 DEF Restricted, KeptOK, HeadersOK
<1>3. \A b \in DOMAIN kept' : kept'[b] = kept[b]
  BY <1>1 DEF Restricted
<1> QED
  BY <1>1, <1>2, <1>3 DEF KeptOK

LEMMA RevertStatesInv == ASSUME BackendInv, RevertStates PROVE BackendInv'
<1>1. /\ job.kind = "revert" /\ job.phase = "states" /\ RemoveStates(job.removed)
      /\ job' = [job EXCEPT !.phase = "env"]
      /\ snapshots' = snapshots /\ overrides' = overrides /\ storage' = storage
      /\ env' = env /\ db' = db /\ fees' = fees /\ headers' = headers /\ readers' = readers
  BY DEF RevertStates, pieces
<1>2. /\ HeadersOK /\ ChainOK /\ KeptOK /\ JobOK /\ SnapshotsOK /\ OverridesOK /\ Typed
  BY DEF BackendInv
<1>3. job \in Job /\ "env" \in JobPhase /\ overrides \in Override
  BY <1>2 DEF Typed, JobPhase
<1>4. /\ job' \in Job /\ job'.kind = "revert" /\ job'.phase = "env"
      /\ job'.snapshot = job.snapshot
  BY <1>1, <1>3, NextPhase
<1>5. HeadersOK' /\ Grow /\ Built' = Built /\ ReadersOK' /\ ~InFlight /\ ~InFlight'
  BY <1>1, <1>4, RevertFrame
<1>6. ChainOK' /\ OverridesOK'
  BY <1>1, <1>2, <1>4, <1>5, ChainStays, OverridesStay
<1>7. overrides.generation \in Nat /\ overrides'.generation \in Nat
      /\ overrides'.generation >= overrides.generation
  BY <1>1, <1>3, OverrideFields
<1>8. SnapshotsOK'
  BY <1>1, <1>2, <1>5, <1>7, SnapshotsStay
<1>9. job'.snapshot \in Snapshot /\ SnapshotOK(job.snapshot)'
  BY <1>1, <1>2, <1>3, <1>4, <1>5, <1>7, RestoredStays DEF JobOK, RevertOK
<1>10. JobOK'
  <2>1. RevertOK'
    BY <1>1, <1>2, <1>4, <1>9 DEF JobOK, RevertOK
  <2> QED
    BY <1>1, <1>2, <1>4, <1>5, <2>1 DEF JobOK, MiningOK, RollbackOK
<1>11. KeptOK'
  <2>1. DOMAIN kept \subseteq storage.blocks \cup job.removed
    BY <1>1, <1>2 DEF KeptOK
  <2>2. /\ DOMAIN kept' = DOMAIN kept \ job.removed
        /\ \A b \in DOMAIN kept' : kept'[b] \in Built' /\ (Persistent => kept'[b] = b)
        /\ DOMAIN kept' \subseteq Built' /\ demoted' \subseteq DOMAIN kept'
    BY <1>1, <1>2, <1>5, Removing
  <2> QED
    BY <1>1, <1>4, <2>1, <2>2 DEF KeptOK
<1>12. Typed'
  BY <1>1, <1>2, <1>4 DEF Typed
<1> QED
  BY <1>5, <1>6, <1>8, <1>10, <1>11, <1>12 DEF BackendInv

\* Overrides replaced by a value that no block of the chain has used, while
\* nobody mines.
LEMMA OverridesReplaced ==
    ASSUME OverridesOK, HeadersOK, overrides \in Override, NEW v \in Nat \cup {None},
           v # None => v <= overrides.generation, overrides.generation <= MaxOverrides,
           overrides' = Replace(overrides, v), headers' = headers,
           storage'.blocks \subseteq storage.blocks,
           v # None => \A b \in storage'.blocks : headers[b].prevrandao # v,
           job'.kind = "mine" => job'.phase = "begin"
    PROVE  /\ OverridesOK' /\ overrides' \in Override
           /\ overrides'.generation \in Nat /\ overrides'.generation >= overrides.generation
           /\ overrides'.generation <= MaxOverrides + 1
<1>1. overrides.generation \in Nat
  BY OverrideFields
<1>2. /\ overrides' \in Override /\ overrides'.value = v
      /\ overrides'.generation = overrides.generation + 1
  BY ReplaceFields
<1>3. /\ overrides'.generation \in Nat /\ overrides'.generation >= overrides.generation
      /\ overrides'.generation <= MaxOverrides + 1
  BY <1>1, <1>2, BackendAssumption
<1>4. v # None => v <= overrides'.generation
  BY <1>1, <1>2
<1>5. \A b \in Built : headers[b].prevrandao # None =>
         headers[b].prevrandao <= overrides'.generation
  <2>1. \A b \in Built : headers[b].prevrandao \in Nat \cup {None}
    BY DEF HeadersOK, Header
  <2> QED
    BY <1>1, <1>2, <2>1 DEF OverridesOK
<1>6. Unused(overrides.value)' /\ OverrideUsedOnce'
  BY <1>2 DEF OverridesOK, Unused, OverrideUsedOnce
<1>7. ~InFlight' /\ Built' = Built
  BY DEF InFlight, Built
<1> QED
  BY <1>2, <1>3, <1>4, <1>5, <1>6, <1>7 DEF OverridesOK

LEMMA RevertEnvInv == ASSUME BackendInv, RevertEnv PROVE BackendInv'
<1>s. PICK s : s = job.snapshot
  OBVIOUS
<1>1. /\ job.kind = "revert" /\ job.phase = "env"
      /\ overrides' = Replace(overrides, s.override)
      /\ env' = [env EXCEPT !.at = s.block]
      /\ job' = [job EXCEPT !.phase = "fees"]
      /\ snapshots' = snapshots /\ storage' = storage /\ db' = db /\ fees' = fees
      /\ kept' = kept /\ demoted' = demoted /\ headers' = headers /\ readers' = readers
  BY <1>s DEF RevertEnv, history
<1>2. /\ HeadersOK /\ ChainOK /\ KeptOK /\ JobOK /\ SnapshotsOK /\ OverridesOK /\ Typed
  BY DEF BackendInv
<1>3. job \in Job /\ "fees" \in JobPhase /\ overrides \in Override /\ env \in Env
  BY <1>2 DEF Typed, JobPhase
<1>4. /\ job' \in Job /\ job'.kind = "revert" /\ job'.phase = "fees"
      /\ job'.snapshot = job.snapshot
  BY <1>1, <1>3, NextPhase
<1>5. /\ s \in Snapshot /\ SnapshotOK(s) /\ s.block \in storage.blocks /\ db = s.db
      /\ overrides.generation <= MaxOverrides
      /\ storage.head = s.block /\ storage.number = s.number
      /\ db \in Built /\ fees \in Built /\ env.at \in Built
  BY <1>1, <1>2, <1>s DEF JobOK, RevertOK
<1>6. s.override \in Nat \cup {None} /\ s.block \in Blocks
  BY <1>5, SnapshotFields
<1>7. HeadersOK' /\ Grow /\ Built' = Built /\ ReadersOK' /\ ~InFlight /\ ~InFlight'
  BY <1>1, <1>4, RevertFrame
<1>8. ChainOK' /\ KeptOK'
  BY <1>1, <1>2, ChainStays, KeptStays
<1>9. s.override # None => \A b \in storage.blocks : headers[b].prevrandao # s.override
  <2> SUFFICES ASSUME s.override # None, NEW b \in storage.blocks
               PROVE  headers[b].prevrandao # s.override
    OBVIOUS
  <2>1. PICK n \in 0..storage.number : b = storage.hashes[n]
    BY <1>2 DEF ChainOK
  <2> QED
    BY <1>5, <2>1 DEF SnapshotOK
<1>10. s.override # None => s.override <= overrides.generation
  BY <1>5 DEF SnapshotOK
<1>11. /\ OverridesOK' /\ overrides' \in Override
       /\ overrides'.generation \in Nat /\ overrides'.generation >= overrides.generation
  BY <1>1, <1>2, <1>3, <1>4, <1>5, <1>6, <1>9, <1>10, OverridesReplaced
<1>12. SnapshotsOK'
  BY <1>1, <1>2, <1>7, <1>11, SnapshotsStay
<1>13. job'.snapshot \in Snapshot /\ SnapshotOK(job.snapshot)'
  BY <1>3, <1>1, <1>4, <1>5, <1>7, <1>11, <1>s, RestoredStays
<1>14. env' \in Env /\ env'.at = s.block
  BY <1>1, <1>3, <1>6 DEF Env
<1>15. JobOK'
  <2>1. RevertOK'
    BY <1>1, <1>4, <1>5, <1>13, <1>14, <1>s DEF RevertOK
  <2>2. s.block \in Built
    BY <1>5 DEF SnapshotOK
  <2> QED
    BY <1>1, <1>4, <1>5, <1>7, <1>14, <2>1, <2>2 DEF JobOK, MiningOK, RollbackOK
<1>16. Typed'
  BY <1>1, <1>2, <1>4, <1>11, <1>14 DEF Typed
<1> QED
  BY <1>7, <1>8, <1>11, <1>12, <1>15, <1>16 DEF BackendInv

LEMMA RevertFeesInv == ASSUME BackendInv, RevertFees PROVE BackendInv'
<1>s. PICK s : s = job.snapshot
  OBVIOUS
<1>1. /\ job.kind = "revert" /\ job.phase = "fees" /\ fees' = s.fees /\ job' = NoJob
      /\ snapshots' = snapshots /\ overrides' = overrides /\ storage' = storage
      /\ env' = env /\ db' = db /\ kept' = kept /\ demoted' = demoted
      /\ headers' = headers /\ readers' = readers
  BY <1>s DEF RevertFees, history
<1>2. /\ HeadersOK /\ ChainOK /\ KeptOK /\ JobOK /\ SnapshotsOK /\ OverridesOK /\ Typed
  BY DEF BackendInv
<1>3. job' \in Job /\ job'.kind = "none"
  BY <1>1, NoJobTyped
<1>4. HeadersOK' /\ Grow /\ Built' = Built /\ ReadersOK' /\ ~InFlight /\ ~InFlight'
  BY <1>1, <1>3, RevertFrame
<1>5. ChainOK' /\ KeptOK' /\ OverridesOK'
  BY <1>1, <1>2, <1>3, <1>4, ChainStays, KeptStays, OverridesStay
<1>6. overrides.generation \in Nat /\ overrides'.generation \in Nat
      /\ overrides'.generation >= overrides.generation
  BY <1>1, <1>2, OverrideFields DEF Typed
<1>7. SnapshotsOK'
  BY <1>1, <1>2, <1>4, <1>6, SnapshotsStay
<1>8. /\ SnapshotOK(s) /\ s.block \in storage.blocks /\ db = s.db /\ env.at = storage.head
      /\ storage.head = s.block /\ storage.number = s.number /\ db \in Built /\ env.at \in Built
  BY <1>1, <1>2, <1>s DEF JobOK, RevertOK
<1>9. s.fees = storage.head \/ s.fees \notin storage.blocks
  <2>1. CASE \A n \in 0..s.number : s.hashes[n] # s.fees
    BY <1>2, <1>8, <2>1 DEF ChainOK, SnapshotOK
  <2> QED
    BY <1>8, <2>1 DEF SnapshotOK
<1>10. JobOK'
  <2>1. s.fees \in Built /\ (Persistent => db = storage.head)
    BY <1>8 DEF SnapshotOK
  <2> QED
    BY <1>1, <1>3, <1>4, <1>8, <1>9, <2>1 DEF JobOK, MiningOK, RevertOK, RollbackOK, DbOf, FeesOK
<1>11. Typed'
  BY <1>1, <1>2, <1>3 DEF Typed
<1> QED
  BY <1>4, <1>5, <1>7, <1>10, <1>11 DEF BackendInv

LEMMA RevertInv == ASSUME BackendInv, Revert PROVE BackendInv'
BY RevertBeginInv, RevertDbInv, RevertStorageInv, RevertStatesInv, RevertEnvInv, RevertFeesInv
   DEF Revert

----------------------------------------------------------------------------
(* anvil_rollback, anvil_reorg and anvil_reset *)

LEMMA RollbackBeginInv ==
    ASSUME BackendInv, NEW depth \in 1..MaxReorg, AnvilRollback(depth) \/ AnvilReorg(depth)
    PROVE  BackendInv'
<1>m. PICK m : m = storage.number - depth
  OBVIOUS
<1>b. PICK b : b = storage.hashes[m]
  OBVIOUS
<1>s. PICK state : state = RolledBackDb(b)
  OBVIOUS
<1>0. PICK again \in {0, depth} : RollbackBegin(b, again) /\ depth <= storage.number
  BY <1>m, <1>b DEF AnvilRollback, AnvilReorg
<1> DEFINE n == [NoJob EXCEPT !.kind = "rollback", !.phase = "lock", !.block = b,
                              !.state = state, !.left = again, !.exclusive = TRUE]
<1>1. /\ job.kind = "none" /\ NoRequests /\ overrides.generation < MaxOverrides
      /\ b \in DOMAIN kept /\ job' = n /\ UNCHANGED allButJob
  BY <1>0, <1>s DEF RollbackBegin
<1>2. HeadersOK /\ ChainOK /\ KeptOK /\ JobOK /\ Typed
  BY DEF BackendInv
<1>3. m \in 0..storage.number /\ storage.number \in 0..storage.number /\ storage.number # m
  BY <1>0, <1>2, <1>m, BackendAssumption DEF ChainOK
<1>4. b \in storage.blocks /\ b \in Built /\ b # storage.head
  BY <1>2, <1>3, <1>b DEF ChainOK
<1>5. state \in Built /\ (Persistent => state = b)
  BY <1>1, <1>2, <1>s DEF RolledBackDb, KeptOK, JobOK
<1>6. /\ NoJob \in JobOf /\ b \in OptBlocks /\ state \in OptBlocks /\ again \in Nat
      /\ "lock" \in JobPhase /\ "rollback" \in Kinds
  BY <1>2, <1>4, <1>5, NoJobTyped, JobIsOf DEF OptBlocks, HeadersOK, JobPhase, Kinds
<1> HIDE DEF NoJob
<1>7. /\ n \in JobOf /\ n.kind = "rollback" /\ n.phase = "lock" /\ n.block = b
      /\ n.state = state /\ n.exclusive = TRUE
  BY <1>6 DEF JobOf
<1> HIDE DEF n
<1>8. overrides.generation <= MaxOverrides
  BY <1>1, <1>2, OverrideFields, BackendAssumption DEF Typed
<1>9. /\ job' \in Job /\ job'.kind = "rollback" /\ job'.phase = "lock" /\ job'.block = b
      /\ job'.state = state /\ job'.exclusive
  BY <1>1, <1>7, JobIsOf
<1>10. JobOK'
  BY <1>1, <1>2, <1>4, <1>5, <1>8, <1>9
     DEF JobOK, MiningOK, RevertOK, RollbackOK, DbOf, FeesOK, Built, allButJob, pieces
<1>11. ~InFlight' /\ ~DbWriteLocked'
  BY <1>9 DEF InFlight, DbWriteLocked
<1>12. \A r \in Readers : ~Active(readers[r])
  BY <1>1 DEF NoRequests, Active
<1> QED
  BY <1>1, <1>9, <1>10, <1>11, <1>12, JobStep

\* What a step of a rollback leaves alone: there are no requests.
LEMMA RollbackFrame ==
    ASSUME BackendInv, job.kind = "rollback", headers' = headers, readers' = readers,
           storage'.blocks \subseteq storage.blocks, job'.kind # "revert", ~InFlight'
    PROVE  HeadersOK' /\ Grow /\ Built' = Built /\ ReadersOK' /\ ~InFlight
<1>1. HeadersOK' /\ Grow /\ Built' = Built
  BY HeadersStay DEF BackendInv, Built
<1>2. ~InFlight
  BY DEF InFlight
<1>3. \A r \in Readers : ~Active(readers[r])
  BY DEF BackendInv, ReadersOK, ReaderOK, Locked
<1>4. \A r \in Readers : ~Holds(readers[r])
  BY <1>3 DEF Active, Holds
<1>5. ReadersOK'
  BY <1>1, <1>2, <1>3, <1>4, ReadersStay DEF BackendInv
<1> QED
  BY <1>1, <1>2, <1>5

LEMMA RollbackStorageInv == ASSUME BackendInv, RollbackStorage PROVE BackendInv'
<1>b. PICK b : b = job.block
  OBVIOUS
<1>m. PICK m : m = headers[b].number
  OBVIOUS
<1>r. PICK removed : removed = storage.blocks \ UnwindTo(storage, m, b).blocks
  OBVIOUS
<1> DEFINE n == [job EXCEPT !.phase = "states", !.removed = removed]
<1>1. /\ job.kind = "rollback" /\ job.phase = "lock"
      /\ storage' = UnwindTo(storage, m, b) /\ job' = n
      /\ snapshots' = snapshots /\ overrides' = overrides
      /\ env' = env /\ db' = db /\ fees' = fees /\ kept' = kept /\ demoted' = demoted
      /\ headers' = headers /\ readers' = readers
  BY <1>b, <1>m, <1>r DEF RollbackStorage, history
<1>2. /\ HeadersOK /\ ChainOK /\ KeptOK /\ JobOK /\ SnapshotsOK /\ OverridesOK /\ Typed
  BY DEF BackendInv
<1>3. /\ b \in storage.blocks /\ b # storage.head /\ FeesOK
      /\ job.state \in Built /\ (Persistent => job.state = b) /\ job.exclusive
      /\ overrides.generation <= MaxOverrides
      /\ db \in Built /\ fees \in Built /\ env.at \in Built
  BY <1>1, <1>2, <1>b DEF JobOK, RollbackOK
<1>4. m \in 0..storage.number /\ storage.hashes[m] = b
  BY <1>2, <1>3, <1>m, NumberOfBlock
<1>5. storage.blocks \subseteq Blocks /\ removed \in SUBSET Blocks
  BY <1>2, <1>r DEF ChainOK, HeadersOK
<1>6. job \in JobOf /\ "states" \in JobPhase
  BY <1>2, JobIsOf DEF Typed, JobPhase
<1>7. /\ n \in JobOf /\ n.kind = job.kind /\ n.phase = "states" /\ n.removed = removed
      /\ n.block = job.block /\ n.state = job.state /\ n.exclusive = job.exclusive
  BY <1>5, <1>6 DEF JobOf
<1> HIDE DEF n
<1>8. /\ job' \in Job /\ job'.kind = "rollback" /\ job'.phase = "states"
      /\ job'.removed = removed /\ job'.block = b /\ job'.state = job.state
      /\ job'.exclusive = job.exclusive
  BY <1>1, <1>7, <1>b, JobIsOf
<1>9. /\ ChainOK' /\ storage'.blocks \subseteq storage.blocks
      /\ storage'.number = m /\ storage'.head = b
      /\ \A k \in 0..m : storage'.hashes[k] = storage.hashes[k]
      /\ \A k \in 0..storage.number : k > m => storage.hashes[k] \notin storage'.blocks
  BY <1>1, <1>2, <1>4, Unwinding
<1>10. ~InFlight'
  BY <1>8 DEF InFlight
<1>11. HeadersOK' /\ Grow /\ Built' = Built /\ ReadersOK' /\ ~InFlight
  BY <1>1, <1>8, <1>9, <1>10, RollbackFrame
<1>12. overrides'.generation \in Nat /\ overrides'.generation >= overrides.generation
       /\ storage'.number \in Nat
  <2>1. overrides.generation \in Nat
    BY <1>2, OverrideFields DEF Typed
  <2> QED
    BY <1>1, <1>4, <1>9, <2>1
<1>13. SnapshotsOK'
  BY <1>1, <1>2, <1>9, <1>10, <1>12, SnapshotsUnwind
<1>14. b \in storage'.blocks
  BY <1>9 DEF ChainOK
<1>15. fees \notin storage'.blocks
  <2>1. storage.number \in 0..storage.number /\ storage.number > m
    BY <1>2, <1>3, <1>4 DEF ChainOK
  <2>2. storage.head \notin storage'.blocks
    BY <1>2, <1>9, <2>1 DEF ChainOK
  <2> QED
    BY <1>3, <1>9, <2>2 DEF FeesOK
<1>16. JobOK'
  <2>1. RollbackOK'
    BY <1>1, <1>3, <1>8, <1>9, <1>11, <1>14, <1>15 DEF RollbackOK
  <2> QED
    BY <1>1, <1>3, <1>8, <1>11, <2>1 DEF JobOK, MiningOK, RevertOK
<1>17. KeptOK'
  <2>1. DOMAIN kept \subseteq storage.blocks
    BY <1>1, <1>2 DEF KeptOK
  <2>2. storage.blocks \subseteq storage'.blocks \cup removed
    BY <1>1, <1>r
  <2> QED
    BY <1>1, <1>2, <1>8, <1>11, <2>1, <2>2 DEF KeptOK
<1>18. OverridesOK'
  BY <1>1, <1>2, <1>8, <1>9, <1>10, OverridesStay
<1>19. Typed'
  BY <1>1, <1>2, <1>8 DEF Typed
<1> QED
  BY <1>9, <1>11, <1>13, <1>16, <1>17, <1>18, <1>19 DEF BackendInv

LEMMA RollbackStatesInv == ASSUME BackendInv, RollbackStates PROVE BackendInv'
<1>1. /\ job.kind = "rollback" /\ job.phase = "states" /\ RemoveStates(job.removed)
      /\ job' = [job EXCEPT !.phase = "env"]
      /\ snapshots' = snapshots /\ overrides' = overrides /\ storage' = storage
      /\ env' = env /\ db' = db /\ fees' = fees /\ headers' = headers /\ readers' = readers
  BY DEF RollbackStates, pieces
<1>2. /\ HeadersOK /\ ChainOK /\ KeptOK /\ JobOK /\ SnapshotsOK /\ OverridesOK /\ Typed
  BY DEF BackendInv
<1>3. job \in Job /\ "env" \in JobPhase /\ overrides \in Override
  BY <1>2 DEF Typed, JobPhase
<1>4. /\ job' \in Job /\ job'.kind = "rollback" /\ job'.phase = "env"
      /\ job'.block = job.block /\ job'.state = job.state /\ job'.exclusive = job.exclusive
  BY <1>1, <1>3, NextPhase
<1>5. ~InFlight'
  BY <1>4 DEF InFlight
<1>6. HeadersOK' /\ Grow /\ Built' = Built /\ ReadersOK' /\ ~InFlight
  BY <1>1, <1>4, <1>5, RollbackFrame
<1>7. ChainOK' /\ OverridesOK'
  BY <1>1, <1>2, <1>4, <1>5, ChainStays, OverridesStay
<1>8. overrides'.generation \in Nat /\ overrides'.generation >= overrides.generation
  BY <1>1, <1>3, OverrideFields
<1>9. SnapshotsOK'
  BY <1>1, <1>2, <1>5, <1>6, <1>8, SnapshotsStay
<1>10. JobOK'
  <2>1. RollbackOK'
    BY <1>1, <1>2, <1>4, <1>6 DEF JobOK, RollbackOK
  <2> QED
    BY <1>1, <1>2, <1>4, <1>6, <2>1 DEF JobOK, MiningOK, RevertOK
<1>11. KeptOK'
  <2>1. DOMAIN kept \subseteq storage.blocks \cup job.removed
    BY <1>1, <1>2 DEF KeptOK
  <2>2. /\ DOMAIN kept' = DOMAIN kept \ job.removed
        /\ \A b \in DOMAIN kept' : kept'[b] \in Built' /\ (Persistent => kept'[b] = b)
        /\ DOMAIN kept' \subseteq Built' /\ demoted' \subseteq DOMAIN kept'
    BY <1>1, <1>2, <1>6, Removing
  <2> QED
    BY <1>1, <1>4, <2>1, <2>2 DEF KeptOK
<1>12. Typed'
  BY <1>1, <1>2, <1>4 DEF Typed
<1> QED
  BY <1>6, <1>7, <1>9, <1>10, <1>11, <1>12 DEF BackendInv

LEMMA RollbackEnvInv == ASSUME BackendInv, RollbackEnv PROVE BackendInv'
<1>1. /\ job.kind = "rollback" /\ job.phase = "env"
      /\ overrides' = Replace(overrides, None)
      /\ env' = [env EXCEPT !.at = job.block]
      /\ job' = [job EXCEPT !.phase = "db"]
      /\ snapshots' = snapshots /\ storage' = storage /\ db' = db /\ fees' = fees
      /\ kept' = kept /\ demoted' = demoted /\ headers' = headers /\ readers' = readers
  BY DEF RollbackEnv, history
<1>2. /\ HeadersOK /\ ChainOK /\ KeptOK /\ JobOK /\ SnapshotsOK /\ OverridesOK /\ Typed
  BY DEF BackendInv
<1>3. /\ job \in Job /\ "db" \in JobPhase /\ overrides \in Override /\ env \in Env
      /\ None \in Nat \cup {None}
  BY <1>2 DEF Typed, JobPhase
<1>4. /\ job' \in Job /\ job'.kind = "rollback" /\ job'.phase = "db"
      /\ job'.block = job.block /\ job'.state = job.state /\ job'.exclusive = job.exclusive
  BY <1>1, <1>3, NextPhase
<1>5. /\ job.block = storage.head /\ overrides.generation <= MaxOverrides
      /\ fees \notin storage.blocks /\ db \in Built /\ fees \in Built
      /\ job.block \in storage.blocks
  BY <1>1, <1>2 DEF JobOK, RollbackOK
<1>6. job.block \in Built /\ job.block \in Blocks
  BY <1>2, <1>5 DEF ChainOK, HeadersOK
<1>7. ~InFlight'
  BY <1>4 DEF InFlight
<1>8. HeadersOK' /\ Grow /\ Built' = Built /\ ReadersOK' /\ ~InFlight
  BY <1>1, <1>4, <1>7, RollbackFrame
<1>9. ChainOK' /\ KeptOK'
  BY <1>1, <1>2, ChainStays, KeptStays
<1>10. /\ OverridesOK' /\ overrides' \in Override
       /\ overrides'.generation \in Nat /\ overrides'.generation >= overrides.generation
  BY <1>1, <1>2, <1>3, <1>4, <1>5, OverridesReplaced
<1>11. SnapshotsOK'
  BY <1>1, <1>2, <1>7, <1>8, <1>10, SnapshotsStay
<1>12. env' \in Env /\ env'.at = job.block
  BY <1>1, <1>3, <1>6 DEF Env
<1>13. JobOK'
  <2>1. RollbackOK'
    BY <1>1, <1>2, <1>4, <1>5, <1>8, <1>12 DEF JobOK, RollbackOK
  <2> QED
    BY <1>1, <1>4, <1>5, <1>6, <1>8, <1>12, <2>1 DEF JobOK, MiningOK, RevertOK
<1>14. Typed'
  BY <1>1, <1>2, <1>4, <1>10, <1>12 DEF Typed
<1> QED
  BY <1>8, <1>9, <1>10, <1>11, <1>13, <1>14 DEF BackendInv

LEMMA RollbackDbInv == ASSUME BackendInv, RollbackDb PROVE BackendInv'
<1>1. /\ job.kind = "rollback" /\ job.phase = "db" /\ db' = job.state
      /\ job' = MineJob(job.left, TRUE) \/ job' = NoJob
      /\ snapshots' = snapshots /\ overrides' = overrides /\ storage' = storage
      /\ env' = env /\ fees' = fees /\ kept' = kept /\ demoted' = demoted
      /\ headers' = headers /\ readers' = readers
  BY DEF RollbackDb, history
<1>2. /\ HeadersOK /\ ChainOK /\ KeptOK /\ JobOK /\ SnapshotsOK /\ OverridesOK /\ Typed
  BY DEF BackendInv
<1>3. job.left \in Nat
  BY <1>2, JobFields DEF Typed
<1>4. /\ job' \in Job
      /\ job'.kind = "none" \/ (job'.kind = "mine" /\ job'.phase = "begin")
  BY <1>1, <1>3, NoJobTyped, MineJobTyped
<1>5. ~InFlight'
  BY <1>4 DEF InFlight
<1>6. HeadersOK' /\ Grow /\ Built' = Built /\ ReadersOK' /\ ~InFlight
  BY <1>1, <1>4, <1>5, RollbackFrame
<1>7. ChainOK' /\ KeptOK' /\ OverridesOK'
  BY <1>1, <1>2, <1>4, <1>5, ChainStays, KeptStays, OverridesStay
<1>8. overrides'.generation \in Nat /\ overrides'.generation >= overrides.generation
  BY <1>1, <1>2, OverrideFields DEF Typed
<1>9. SnapshotsOK'
  BY <1>1, <1>2, <1>5, <1>6, <1>8, SnapshotsStay
<1>10. /\ job.block = storage.head /\ fees \notin storage.blocks /\ env.at = storage.head
       /\ job.state \in Built /\ (Persistent => job.state = job.block)
       /\ fees \in Built /\ env.at \in Built
  BY <1>1, <1>2 DEF JobOK, RollbackOK
<1>11. JobOK'
  BY <1>1, <1>4, <1>5, <1>6, <1>10
     DEF JobOK, MiningOK, RevertOK, RollbackOK, DbOf, FeesOK
<1>12. Typed'
  BY <1>1, <1>2, <1>4 DEF Typed
<1> QED
  BY <1>6, <1>7, <1>9, <1>11, <1>12 DEF BackendInv

LEMMA RollbackInv == ASSUME BackendInv, Rollback PROVE BackendInv'
BY RollbackBeginInv, RollbackStorageInv, RollbackStatesInv, RollbackEnvInv, RollbackDbInv
   DEF Rollback

\* A chain of one block.
LEMMA GenesisChain ==
    ASSUME NEW b \in Blocks
    PROVE  /\ Genesis(b).blocks = {b} /\ Genesis(b).number = 0 /\ Genesis(b).head = b
           /\ Genesis(b).hashes \in Hashes /\ DOMAIN Genesis(b).hashes = {0}
           /\ Genesis(b).hashes[0] = b
<1>1. /\ Genesis(b).blocks = {b} /\ Genesis(b).number = 0 /\ Genesis(b).head = b
      /\ Genesis(b).hashes = [n \in {0} |-> b]
  BY DEF Genesis
<1>2. 0..0 = {0} /\ 0 \in Nat
  OBVIOUS
<1>3. Genesis(b).hashes \in [0..0 -> Blocks]
  BY <1>1, <1>2
<1>4. Genesis(b).hashes \in Hashes
  BY <1>2, <1>3 DEF Hashes
<1> QED
  BY <1>1, <1>4

LEMMA AnvilResetInv == ASSUME BackendInv, AnvilReset PROVE BackendInv'
<1>n. PICK new : new = Cardinality(Built) + 1
  OBVIOUS
<1>h. PICK h : h = [parent |-> None, number |-> 0, prevrandao |-> None]
  OBVIOUS
<1>1. /\ job.kind = "none" /\ NoRequests /\ overrides.generation < MaxOverrides
      /\ new \in Blocks /\ headers' = With(headers, new, h) /\ db' = new /\ fees' = new
      /\ env' = [at |-> new, coinbase |-> Coinbase] /\ storage' = Genesis(new)
      /\ kept' = <<>> /\ demoted' = {} /\ snapshots' = <<>>
      /\ overrides' = Replace(overrides, None) /\ job' = job /\ readers' = readers
  BY <1>n, <1>h DEF AnvilReset, Built, States!Clear
<1>2. /\ HeadersOK /\ ChainOK /\ JobOK /\ OverridesOK /\ ReadersOK /\ Typed
  BY DEF BackendInv
<1>3. h \in Header /\ h.number = 0 /\ h.prevrandao = None
  BY <1>h DEF Header
<1>4. /\ HeadersOK' /\ Grow /\ new \notin Built /\ Built' = Built \cup {new}
      /\ headers'[new] = h
  BY <1>1, <1>2, <1>3, <1>n, NewBlock
<1>5. ChainOK' /\ storage'.blocks = {new} /\ storage'.number = 0 /\ storage'.head = new
  <2>1. 0..0 = {0} /\ 1..0 = {} /\ 0 \in Nat
    OBVIOUS
  <2>2. /\ storage'.blocks = {new} /\ storage'.number = 0 /\ storage'.head = new
        /\ storage'.hashes \in Hashes /\ DOMAIN storage'.hashes = {0}
        /\ storage'.hashes[0] = new
    BY <1>1, GenesisChain
  <2> QED
    BY <1>3, <1>4, <2>1, <2>2 DEF ChainOK
<1>6. KeptOK'
  <2>1. DOMAIN kept' = {}
    BY <1>1
  <2> QED
    BY <1>1, <2>1 DEF KeptOK
<1>7. env' \in Env /\ env'.at = new
  BY <1>1, BackendAssumption DEF Env
<1>8. JobOK'
  BY <1>1, <1>4, <1>5, <1>7 DEF JobOK, MiningOK, RevertOK, RollbackOK, DbOf, FeesOK
<1>9. SnapshotsOK' /\ snapshots' \in Seq(Snapshot) /\ Len(snapshots') <= MaxSnapshots
  BY <1>1, BackendAssumption DEF SnapshotsOK
<1>10. overrides \in Override /\ overrides.generation \in Nat
  BY <1>2, OverrideFields DEF Typed
<1>11. /\ overrides' \in Override /\ overrides'.value = None
       /\ overrides'.generation = overrides.generation + 1
  BY <1>1, <1>10, ReplaceFields
<1>12. OverridesOK'
  <2>1. overrides'.generation <= MaxOverrides + 1
    BY <1>1, <1>10, <1>11, BackendAssumption
  <2>2. \A b \in Built' : headers'[b].prevrandao # None =>
                            headers'[b].prevrandao <= overrides'.generation
    <3>1. \A b \in Built : headers[b].prevrandao \in Nat \cup {None}
      BY <1>2 DEF HeadersOK, Header
    <3>2. \A b \in Built : headers[b].prevrandao # None =>
                             headers[b].prevrandao <= overrides'.generation
      BY <1>2, <1>10, <1>11, <3>1 DEF OverridesOK
    <3> QED
      BY <1>3, <1>4, <3>2 DEF Grow
  <2>3. Unused(overrides.value)' /\ OverrideUsedOnce'
    BY <1>5, <1>11 DEF Unused, OverrideUsedOnce
  <2> QED
    BY <1>1, <1>11, <2>1, <2>2, <2>3 DEF OverridesOK, InFlight
<1>13. ReadersOK'
  <2>1. \A r \in Readers : ~Holds(readers[r])
    BY <1>1 DEF NoRequests, Holds
  <2>2. \A c \in Built \ storage.blocks : c \notin storage'.blocks
    BY <1>4, <1>5
  <2>3. ~InFlight' /\ ~DbWriteLocked'
    BY <1>1 DEF InFlight, DbWriteLocked
  <2>4. \A r \in Readers : ~Active(readers[r])
    BY <1>1 DEF NoRequests, Active
  <2> QED
    BY <1>1, <1>2, <1>4, <2>1, <2>2, <2>3, <2>4, ReadersStay
<1>14. Typed'
  BY <1>1, <1>2, <1>7, <1>9, <1>11 DEF Typed
<1> QED
  BY <1>4, <1>5, <1>6, <1>8, <1>9, <1>12, <1>13, <1>14 DEF BackendInv

----------------------------------------------------------------------------
(* The specification *)

LEMMA InitInv == ASSUME Init PROVE BackendInv
<1>1. /\ storage = Genesis(1) /\ db = 1 /\ env = [at |-> 1, coinbase |-> Coinbase] /\ fees = 1
      /\ overrides = NoOverride /\ snapshots = <<>> /\ job = NoJob
      /\ readers = [r \in Readers |-> Idle]
      /\ headers = [b \in {1} |-> [parent |-> None, number |-> 0, prevrandao |-> None]]
      /\ kept = <<>> /\ demoted = {}
  BY DEF Init, States!Init
<1>2. 1 \in Blocks /\ Built = {1} /\ headers[1].number = 0 /\ headers[1].prevrandao = None
  BY <1>1, BackendAssumption DEF Built
<1>3. HeadersOK
  <2>1. headers[1] \in Header
    BY <1>1 DEF Header
  <2>2. IsFiniteSet(Built) /\ Cardinality(Built) = 1
    BY <1>2, FS_Singleton
  <2>3. 1..1 = {1}
    OBVIOUS
  <2> QED
    BY <1>2, <2>1, <2>2, <2>3 DEF HeadersOK
<1>4. ChainOK /\ storage.blocks = {1} /\ storage.number = 0 /\ storage.head = 1
  <2>1. 0..0 = {0} /\ 1..0 = {} /\ 0 \in Nat
    OBVIOUS
  <2>2. /\ storage.blocks = {1} /\ storage.number = 0 /\ storage.head = 1
        /\ storage.hashes \in Hashes /\ DOMAIN storage.hashes = {0}
        /\ storage.hashes[0] = 1
    BY <1>1, <1>2, GenesisChain
  <2> QED
    BY <1>2, <2>1, <2>2 DEF ChainOK
<1>5. DOMAIN kept = {}
  BY <1>1
<1>6. KeptOK
  BY <1>1, <1>5 DEF KeptOK
<1>7. job \in Job /\ job.kind = "none" /\ overrides \in Override
  BY <1>1, NoJobTyped
<1>8. overrides.value = None /\ overrides.generation = 0
  BY <1>1 DEF NoOverride
<1>9. env \in Env /\ env.at = 1
  BY <1>1, BackendAssumption DEF Env
<1>10. JobOK
  BY <1>1, <1>2, <1>4, <1>7, <1>9 DEF JobOK, MiningOK, RevertOK, RollbackOK, DbOf, FeesOK
<1>11. SnapshotsOK /\ snapshots \in Seq(Snapshot) /\ Len(snapshots) <= MaxSnapshots
  BY <1>1, BackendAssumption DEF SnapshotsOK
<1>12. OverridesOK
  <2>1. Unused(overrides.value) /\ OverrideUsedOnce
    BY <1>4, <1>8 DEF Unused, OverrideUsedOnce
  <2> QED
    BY <1>2, <1>7, <1>8, <2>1, BackendAssumption DEF OverridesOK, InFlight
<1> HIDE DEF Idle
<1>13. readers \in [Readers -> Reader] /\ \A r \in Readers : readers[r] = Idle
  BY <1>1, IdleTyped
<1>14. ReaderOK(Idle)
  BY IdleTyped DEF ReaderOK, Shape, Locked, Active, Holds, Refers, Sees
<1>15. ReadersOK
  BY <1>13, <1>14 DEF ReadersOK
<1>16. Typed
  BY <1>7, <1>9, <1>11, <1>13 DEF Typed
<1> QED
  BY <1>3, <1>4, <1>6, <1>10, <1>11, <1>12, <1>15, <1>16 DEF BackendInv

LEMMA StutterInv == ASSUME BackendInv, UNCHANGED vars PROVE BackendInv'
<1>1. /\ storage' = storage /\ db' = db /\ env' = env /\ fees' = fees /\ kept' = kept
      /\ demoted' = demoted /\ overrides' = overrides /\ snapshots' = snapshots
      /\ job' = job /\ headers' = headers /\ readers' = readers
  BY DEF vars
<1>2. Typed' /\ HeadersOK' /\ ChainOK' /\ KeptOK'
  BY <1>1, HeadersStay, ChainStays, KeptStays DEF BackendInv, Typed
<1>3. JobOK' /\ SnapshotsOK' /\ OverridesOK'
  BY <1>1 DEF BackendInv, JobOK, MiningOK, RevertOK, RollbackOK, DbOf, FeesOK, InFlight, SnapshotOK,
              SnapshotsOK, OverridesOK, OverrideUsedOnce, Unused, Built
<1>4. ReadersOK'
  BY <1>1 DEF BackendInv, ReadersOK, ReaderOK, Shape, Locked, Active, Holds, Refers, Sees,
              Stored, DbWriteLocked, InFlight, Built
<1> QED
  BY <1>2, <1>3, <1>4 DEF BackendInv

LEMMA NextInv == ASSUME BackendInv, [Next]_vars PROVE BackendInv'
<1>1. CASE Next
  BY <1>1, MineInv, SetCoinbaseInv, SetPrevRandaoInv, CreateSnapshotInv, RevertInv,
     RollbackInv, AnvilResetInv, ReadInv DEF Next
<1>2. CASE UNCHANGED vars
  BY <1>2, StutterInv
<1> QED
  BY <1>1, <1>2

LEMMA InvariantHolds == Spec => []BackendInv
BY InitInv, NextInv, PTL DEF Spec

(* The types of the backend's pieces hold in every state, for any number   *)
(* of blocks, requests and snapshots; the second tier holds only states    *)
(* that can be looked up.                                                  *)
THEOREM BackendTyped == Spec => []TypeOK
<1>1. ASSUME BackendInv PROVE TypeOK
  <2>1. /\ HeadersOK /\ ChainOK /\ KeptOK /\ JobOK /\ OverridesOK /\ Typed
    BY <1>1 DEF BackendInv
  <2>2. Built \subseteq Blocks /\ storage.blocks \subseteq Built /\ storage.head \in Built
    BY <2>1 DEF HeadersOK, ChainOK
  <2>3. storage.number \in Nat /\ DOMAIN storage.hashes \subseteq Nat
    BY <2>1 DEF ChainOK
  <2>4. env.at \in Built /\ db \in Built /\ fees \in Built
    BY <2>1 DEF JobOK
  <2>5. env.coinbase \in Coinbases
    BY <2>1 DEF Typed, Env
  <2>6. overrides.generation \in 0..(MaxOverrides + 1)
    BY <2>1, OverrideFields, BackendAssumption DEF Typed, OverridesOK
  <2>7. Len(snapshots) <= MaxSnapshots /\ demoted \subseteq DOMAIN kept
    BY <2>1 DEF Typed, KeptOK
  <2> QED
    BY <2>2, <2>3, <2>4, <2>5, <2>6, <2>7 DEF TypeOK
<1> QED
  BY <1>1, InvariantHolds, PTL

(* Whenever nobody holds the mining mutex, the database, the environment,  *)
(* the head, the two indexes of the chain, the parents of its blocks and   *)
(* the historic states describe one chain, and the fees follow from its    *)
(* head or from a block that was rolled back.  This is for a node without  *)
(* a fork: on one, anvil_rollback may leave the accounts of a later block  *)
(* in the database.                                                        *)
THEOREM HeadIsOneBlock == ASSUME Persistent PROVE Spec => []HeadPartsAgree
<1>1. ASSUME BackendInv PROVE HeadPartsAgree
  <2> SUFFICES ASSUME job.kind = "none"
               PROVE  /\ db = storage.head /\ env.at = storage.head
                      /\ fees = storage.head \/ fees \notin storage.blocks
                      /\ DOMAIN storage.hashes = 0..storage.number
                      /\ storage.hashes[storage.number] = storage.head
                      /\ storage.blocks = {storage.hashes[n] : n \in DOMAIN storage.hashes}
                      /\ \A n \in 1..storage.number :
                            headers[storage.hashes[n]].parent = storage.hashes[n - 1]
                      /\ DOMAIN kept \subseteq storage.blocks
                      /\ \A b \in DOMAIN kept : kept[b] = b
    BY DEF HeadPartsAgree
  <2>1. db = storage.head /\ env.at = storage.head
        /\ (fees = storage.head \/ fees \notin storage.blocks)
    BY <1>1 DEF BackendInv, JobOK, DbOf, FeesOK
  <2>2. /\ DOMAIN storage.hashes = 0..storage.number
        /\ storage.hashes[storage.number] = storage.head
        /\ storage.blocks = {storage.hashes[n] : n \in 0..storage.number}
        /\ \A n \in 1..storage.number :
              headers[storage.hashes[n]].parent = storage.hashes[n - 1]
    BY <1>1 DEF BackendInv, ChainOK
  <2>3. DOMAIN kept \subseteq storage.blocks /\ \A b \in DOMAIN kept : kept[b] = b
    BY <1>1 DEF BackendInv, KeptOK
  <2> QED
    BY <2>1, <2>2, <2>3
<1> QED
  BY <1>1, InvariantHolds, PTL

(* The head and the chain of HeadIsOneBlock, on a fork too: there only the *)
(* accounts in the database and in the historic states may be others.      *)
THEOREM ForkChainAgrees ==
    Spec => [](job.kind = "none" =>
                 /\ env.at = storage.head
                 /\ fees = storage.head \/ fees \notin storage.blocks
                 /\ storage.hashes[storage.number] = storage.head
                 /\ storage.blocks = {storage.hashes[n] : n \in 0..storage.number}
                 /\ DOMAIN kept \subseteq storage.blocks)
<1>1. ASSUME BackendInv, job.kind = "none"
      PROVE  /\ env.at = storage.head
             /\ fees = storage.head \/ fees \notin storage.blocks
             /\ storage.hashes[storage.number] = storage.head
             /\ storage.blocks = {storage.hashes[n] : n \in 0..storage.number}
             /\ DOMAIN kept \subseteq storage.blocks
  <2>1. env.at = storage.head /\ (fees = storage.head \/ fees \notin storage.blocks)
    BY <1>1 DEF BackendInv, JobOK, FeesOK
  <2>2. /\ storage.hashes[storage.number] = storage.head
        /\ storage.blocks = {storage.hashes[n] : n \in 0..storage.number}
    BY <1>1 DEF BackendInv, ChainOK
  <2>3. DOMAIN kept \subseteq storage.blocks
    BY <1>1 DEF BackendInv, KeptOK
  <2> QED
    BY <2>1, <2>2, <2>3
<1> QED
  BY <1>1, InvariantHolds, PTL

(* A request that no evm_revert overlaps reads one block, however many     *)
(* blocks are mined between the steps of with_database_at: the locks it    *)
(* holds, and the second look at the head, suffice.  The live state it is  *)
(* served is that of the block it asked for, unless the node keeps no      *)
(* history of states; then it is that of this block or of a later head.    *)
THEOREM RequestsSeeOneBlock == ASSUME Persistent PROVE Spec => []ReadsSeeOneBlock
<1>1. ASSUME BackendInv PROVE ReadsSeeOneBlock
  <2> SUFFICES ASSUME NEW r \in Readers, Answered(r), ~readers[r].overlapped
               PROVE  Coherent(r)
    BY DEF ReadsSeeOneBlock
  <2>1. PICK q : q = readers[r]
    OBVIOUS
  <2>2. Sees(q) /\ q.phase = "done" /\ q.env # None
    BY <1>1, <2>1 DEF BackendInv, ReadersOK, ReaderOK, Answered
  <2> QED
    BY <2>1, <2>2 DEF Sees, Coherent
<1> QED
  BY <1>1, InvariantHolds, PTL

(* A request that finds its block behind the head keeps the database lock, *)
(* and is then served: no block mined meanwhile can prune the state before *)
(* the lookup.                                                             *)
THEOREM GuardedReadsServed == Spec => []GuardedReadServed
<1>1. ASSUME BackendInv PROVE GuardedReadServed
  <2> SUFFICES ASSUME NEW r \in Readers, readers[r].phase = "done", readers[r].promised,
                      ~readers[r].overlapped
               PROVE  Answered(r)
    BY DEF GuardedReadServed
  <2>1. PICK q : q = readers[r]
    OBVIOUS
  <2>2. Sees(q)
    BY <1>1, <2>1 DEF BackendInv, ReadersOK, ReaderOK
  <2> QED
    BY <2>1, <2>2 DEF Sees, Answered
<1> QED
  BY <1>1, InvariantHolds, PTL

(* No prevrandao set for the next block is used by two blocks of the       *)
(* chain, although snapshots save the pending value and evm_revert brings  *)
(* it back.                                                                *)
THEOREM OverridesUsedOnce == Spec => []OverrideUsedOnce
<1>1. ASSUME BackendInv PROVE OverrideUsedOnce
  BY <1>1 DEF BackendInv, OverridesOK
<1> QED
  BY <1>1, InvariantHolds, PTL

(* A value set for the next block is dropped only by the block built with  *)
(* it, by another value or by unwinding the chain: a block under way when  *)
(* it was set, or one that fails, leaves it (NextBlockOverride::consume    *)
(* compares generations).                                                  *)
THEOREM OverridesNotLost == Spec => OverrideNotLost
<1> DEFINE Kept ==
      overrides.value # None /\ overrides'.value # overrides.value =>
        \/ overrides'.value # None
        \/ db' # db /\ headers'[db'].prevrandao = overrides.value
        \/ Unwound
        \/ storage'.head = db' /\ storage'.number = 0
<1>1. ASSUME BackendInv, [Next]_vars PROVE [Kept]_vars
  <2>1. ASSUME MineCommit, overrides.value # None, overrides'.value # overrides.value
        PROVE  db' # db /\ headers'[db'].prevrandao = overrides.value
    <3> DEFINE h == [parent |-> job.parent, number |-> storage.number + 1,
                     prevrandao |-> job.used.value]
    <3>1. /\ job.kind = "mine" /\ job.phase = "execute" /\ db' = Cardinality(Built) + 1
          /\ headers' = With(headers, db', h) /\ overrides' = Consume(overrides, job.used)
      BY <2>1 DEF MineCommit, Built
    <3>2. headers'[db'].prevrandao = job.used.value
      BY <3>1 DEF With
    <3>3. overrides.generation = job.used.generation
      BY <1>1, <2>1, <3>1, ConsumeFields DEF BackendInv, Typed
    <3>4. job.used = overrides
      BY <1>1, <3>1, <3>3 DEF BackendInv, OverridesOK
    <3>5. db' # db
      <4>1. Cardinality(Built) \in Nat /\ Built = 1..Cardinality(Built) /\ db \in Built
        BY <1>1, FS_CardinalityType DEF BackendInv, HeadersOK, JobOK
      <4> QED
        BY <3>1, <4>1
    <3> QED
      BY <3>2, <3>4, <3>5
  <2>2. ASSUME SetPrevRandao PROVE overrides'.value # None
    <3>1. overrides.generation \in Nat
      BY <1>1, OverrideFields DEF BackendInv, Typed
    <3>2. overrides'.value = overrides.generation + 1
      BY <2>2 DEF SetPrevRandao, Replace
    <3> QED
      BY <3>1, <3>2, BackendAssumption
  <2>3. ASSUME RevertEnv PROVE Unwound
    BY <2>3 DEF RevertEnv, Unwound
  <2>4. ASSUME RollbackEnv PROVE Unwound
    BY <2>4 DEF RollbackEnv, Unwound
  <2>5. ASSUME AnvilReset PROVE storage'.head = db' /\ storage'.number = 0
    BY <2>5 DEF AnvilReset, Genesis
  <2>6. \/ MineCommit \/ SetPrevRandao \/ RevertEnv \/ RollbackEnv \/ AnvilReset
        \/ overrides' = overrides
    <3> USE DEF pieces, history, allButJob, allButReaders
    <3>1. CASE Mine
      BY <3>1 DEF Mine, LockMining, MineBegin, MineLockDb, MineFail, MineForget, MineDemote,
                  MineInsert, PublishStorage, PublishEnv, PublishFees
    <3>2. CASE Revert
      BY <3>2 DEF Revert, RevertBegin, RevertDb, RevertStorage, RevertStates, RevertFees
    <3>3. ASSUME NEW r \in Readers, Read(r) PROVE overrides' = overrides
      BY <3>3 DEF Read, ReadBegin, ReadPending, ReadCurrent, ReadLive, ReadEnv, ReadFees,
                  ReadParent, ReadBlock, ReadState, ReadEnd
    <3>4. CASE CreateSnapshot \/ \E c \in Coinbases : SetCoinbase(c)
      BY <3>4 DEF CreateSnapshot, SetCoinbase
    <3>5. CASE UNCHANGED vars
      BY <3>5 DEF vars
    <3>6. CASE Rollback
      BY <3>6 DEF Rollback, AnvilRollback, AnvilReorg, RollbackBegin, RollbackStorage,
                  RollbackStates, RollbackDb
    <3> QED
      BY <1>1, <3>1, <3>2, <3>3, <3>4, <3>5, <3>6 DEF Next
  <2> QED
    BY <2>1, <2>2, <2>3, <2>4, <2>5, <2>6
<1> QED
  BY <1>1, InvariantHolds, PTL DEF Spec, OverrideNotLost

=============================================================================
