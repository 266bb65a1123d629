-------------------------- MODULE TimeManagerProofs --------------------------
(***************************************************************************)
(* Proofs about the block clock, for every value of the constants.         *)
(*                                                                         *)
(* None of the properties of TimeManager is inductive by itself: they are  *)
(* proved together from IInv, whose parts say who owns the candidate       *)
(* (LockInv), which override it has read (OverrideInv), how the candidate  *)
(* relates to the head that cannot change under it (CandidateInv) and what *)
(* a stored snapshot remembers (SnapshotInv).                              *)
(***************************************************************************)
EXTENDS TimeManager, SequenceTheorems, TLAPS

(* The request in "prepared" holds the mutex, and there is a candidate     *)
(* exactly while the mutex is held.                                        *)
LockInv ==
    /\ \A m \in Miners : pc[m] = "prepared" => mining = m
    /\ \A m \in Miners : pc[m] = "revert" => increase[m] # None
    /\ mining = None <=> candidate = None

(* The pending override is always the newest one issued, and a candidate   *)
(* that has read the newest one is still the only reader of it.            *)
OverrideInv ==
    /\ OverrideExactlyOnce
    /\ nextExact # None => nextExact.generation = nextOverrideGeneration
    /\ candidate # None =>
          (candidate.exactGeneration = nextOverrideGeneration
              => nextExact # None)
    /\ candidate # None =>
          (candidate.exactGeneration # None
              => candidate.exactGeneration <= nextOverrideGeneration)

(* An override below the last timestamp is only possible when the last     *)
(* timestamp is the head's.                                                *)
OverrideFloor ==
    (nextExact # None /\ ~headSynced) => nextExact.timestamp >= lastTimestamp

(* What the candidate was computed from still holds: until a reset         *)
(* overtakes it, the last timestamp and the head are those it has seen.    *)
CandidateInv ==
    candidate # None =>
        /\ candidate.offsetResetGeneration <= offsetResetGeneration
        /\ SameReset => /\ candidate.timestamp >= lastTimestamp
                        /\ candidate.synced = headSynced
        /\ ~SameReset => ~headSynced
        /\ candidate.synced =>
              /\ candidate.timestamp >= HeadBlock.timestamp
              /\ \/ candidate.timestamp > HeadBlock.timestamp
                 \/ candidate.timestamp = MaxU64
                 \/ ~candidate.strict
        /\ Base => candidate.timestamp >= HeadBlock.timestamp

SnapshotInv ==
    \A i \in 1..Len(snapshots) :
        /\ Len(snapshots[i].chain) > 0
        /\ snapshots[i].headSynced =>
              snapshots[i].lastTimestamp =
                  snapshots[i].chain[Len(snapshots[i].chain)].timestamp
        /\ (snapshots[i].nextBlockTimestamp # None /\ ~snapshots[i].headSynced)
              => snapshots[i].nextBlockTimestamp >= snapshots[i].lastTimestamp

ClockInv ==
    /\ HeadTimestampTracked
    /\ OverrideFloor
    /\ CandidateInv
    /\ SnapshotInv

OrderInv == ChainOrdered /\ BaseChainOrdered

IInv == TypeOK /\ LockInv /\ OverrideInv /\ ClockInv /\ OrderInv
----------------------------------------------------------------------------
(* u64 arithmetic stays within u64. *)
LEMMA U64Closed ==
    ASSUME NEW a \in U64, NEW b \in U64, NEW i \in Int
    PROVE  /\ SatAdd(a, b) \in U64
           /\ SatSub(a, b) \in U64
           /\ MaxOf(a, b) \in U64
           /\ AsU64(i) \in U64
  BY BoundsAssumption DEF U64, SatAdd, SatSub, MaxOf, AsU64

LEMMA HeadTyped ==
    ASSUME TypeOK
    PROVE  HeadBlock \in Block
<1>1. chain \in Seq(Block) /\ Len(chain) \in 1..Len(chain)
  BY DEF TypeOK
<1> QED
  BY <1>1 DEF HeadBlock

(* The timestamp a candidate gets is a u64: every path of                  *)
(* compute_next_timestamp and of the Base schedule saturates.              *)
LEMMA TimestampTyped ==
    ASSUME TypeOK, NEW pin \in BOOLEAN, NEW carry \in 0..1
    PROVE  /\ NextTimestamp(pin) \in U64
           /\ ScheduledTimestamp(carry) \in U64
<1>1. lastTimestamp \in U64 /\ timeIncrease \in U64 /\ clock + offset \in Int
      /\ 1 \in U64 /\ carry \in U64
  BY BoundsAssumption DEF TypeOK, U64
<1>2. interval # None => interval \in U64
  BY DEF TypeOK
<1>3. nextExact # None => nextExact.timestamp \in U64
  BY DEF TypeOK, Override
<1>4. HeadBlock.timestamp \in U64
  BY HeadTyped DEF Block
<1>5. RequestedTimestamp \in U64
  BY <1>1, <1>2, <1>3, U64Closed DEF RequestedTimestamp
<1>6. NextTimestamp(pin) \in U64
  BY <1>1, <1>5, U64Closed DEF NextTimestamp
<1>7. ScheduledTimestamp(carry) \in U64
  <2>1. SatAdd(HeadBlock.timestamp, carry) \in U64
    BY <1>1, <1>4, U64Closed
  <2>2. (IF interval # None THEN interval ELSE carry) \in U64
    BY <1>1, <1>2
  <2>3. SatAdd(lastTimestamp, IF interval # None THEN interval ELSE carry) \in U64
    BY <1>1, <2>2, U64Closed
  <2>4. SatAdd(SatAdd(lastTimestamp, IF interval # None THEN interval ELSE carry),
               timeIncrease) \in U64
    BY <1>1, <2>3, U64Closed
  <2> QED
    BY <1>3, <2>1, <2>4, U64Closed DEF ScheduledTimestamp
<1> QED
  BY <1>6, <1>7

(* The candidate a request prepares is well typed. *)
LEMMA PendingTyped ==
    ASSUME TypeOK, NEW ts \in U64, NEW up \in BOOLEAN, NEW st \in BOOLEAN
    PROVE  /\ PendingTimestamp(ts, up, st) \in Pending
           /\ PendingTimestamp(ts, up, st) # None
<1> DEFINE eg == IF nextExact = None THEN None ELSE nextExact.generation
           no == IF up THEN ts - clock ELSE None
<1>1. eg \in Nat \cup {None}
  BY DEF TypeOK, Override
<1>2. ts \in Int /\ clock \in Int
  BY BoundsAssumption DEF TypeOK, U64
<1>3. no \in Int \cup {None}
  BY <1>2
<1>4. /\ offset \in Int /\ offsetResetGeneration \in Nat
      /\ timeIncrease \in U64 /\ headSynced \in BOOLEAN
  BY DEF TypeOK
<1> HIDE DEF eg, no
<1>5. [timestamp |-> ts, exactGeneration |-> eg, preparedOffset |-> offset,
       offsetResetGeneration |-> offsetResetGeneration, nextOffset |-> no,
       timeIncrease |-> timeIncrease, synced |-> headSynced,
       strict |-> st] \in Pending
  BY <1>1, <1>3, <1>4, Zenon DEF Pending
<1>6. PendingTimestamp(ts, up, st) \in Pending
  BY <1>5, Zenon DEF PendingTimestamp, eg, no
<1> QED
  BY <1>6, NoneAssumption

LEMMA PrepareCandidate ==
    ASSUME TypeOK, NEW m \in Miners, Prepare(m)
    PROVE  candidate' \in Pending /\ candidate' # None
<1>1. PinTimestamp(m) \in BOOLEAN /\ AllowEqual(PinTimestamp(m)) \in BOOLEAN
  BY DEF PinTimestamp, AllowEqual
<1>2. CASE Base
  <2>1. PICK carry \in 0..1 :
          candidate' = PendingTimestamp(ScheduledTimestamp(carry), TRUE, FALSE)
    BY <1>2 DEF Prepare
  <2> QED
    BY <2>1, TimestampTyped, PendingTyped
<1>3. CASE ~Base
  <2>1. candidate' = PendingTimestamp(NextTimestamp(PinTimestamp(m)),
                                      nextExact # None,
                                      ~AllowEqual(PinTimestamp(m)))
    BY <1>3 DEF Prepare
  <2>2. NextTimestamp(PinTimestamp(m)) \in U64
    BY <1>1, TimestampTyped, 0 \in 0..1
  <2> QED
    BY <1>1, <2>1, <2>2, PendingTyped
<1> QED
  BY <1>2, <1>3
----------------------------------------------------------------------------
(* Who owns the mutex and the candidate. *)
LEMMA LockStep ==
    ASSUME TypeOK, LockInv, [Next]_vars
    PROVE  LockInv'
<1> USE NoneAssumption DEF LockInv
<1>1. CASE Tick \/ TimeRpc \/ HeadRpc \/ UNCHANGED vars
  <2>1. UNCHANGED <<mining, candidate, pc, increase>>
    BY <1>1 DEF Tick, TimeRpc, IncreaseTime, SetTime, SetNextBlockTimestamp,
                SetInterval, HeadRpc, Reset, Rollback, CreateSnapshot,
                RevertSnapshot, requestVars, vars
  <2> QED
    BY <2>1
<1>2. ASSUME NEW m \in Miners, NEW s \in Increments \cup {None},
             BeginMine(m, s)
      PROVE  LockInv'
  <2>1. UNCHANGED <<mining, candidate>>
    BY <1>2 DEF BeginMine
  <2>2. pc' = [pc EXCEPT ![m] = "waiting"] /\ pc[m] = "idle"
    BY <1>2 DEF BeginMine
  <2>3. \A k \in Miners : k # m => increase'[k] = increase[k]
    BY <1>2 DEF BeginMine, TypeOK
  <2> QED
    BY <2>1, <2>2, <2>3 DEF TypeOK
<1>3. ASSUME NEW m \in Miners, Prepare(m)
      PROVE  LockInv'
  <2>1. candidate' # None
    BY <1>3, PrepareCandidate
  <2> QED
    BY <1>3, <2>1 DEF Prepare, TypeOK
<1>4. ASSUME NEW m \in Miners, Commit(m)
      PROVE  LockInv'
  BY <1>4 DEF Commit, TypeOK
<1>5. ASSUME NEW m \in Miners, Fail(m)
      PROVE  LockInv'
  BY <1>5 DEF Fail, TypeOK
<1>6. ASSUME NEW m \in Miners, RevertIncrease(m)
      PROVE  LockInv'
  BY <1>6 DEF RevertIncrease, TypeOK
<1> QED
  BY <1>1, <1>2, <1>3, <1>4, <1>5, <1>6 DEF Next, MineStep

(* reset_timestamp keeps the clock's variables well typed. *)
LEMMA ResetTyped ==
    ASSUME TypeOK, NEW ts \in U64, NEW off \in Int,
           NEW next \in U64 \cup {None}, NEW inc \in U64,
           ResetTimestamp(ts, off, next, inc)
    PROVE  /\ offset' \in Int /\ timeIncrease' \in U64
           /\ offsetResetGeneration' \in Nat /\ lastTimestamp' \in U64
           /\ nextExact' \in Override \cup {None}
           /\ nextOverrideGeneration' \in Nat
           /\ latestUsed' \in BOOLEAN
  BY DEF TypeOK, ResetTimestamp, Override

(* TypeOK is preserved by every step. *)
LEMMA TypeStep ==
    ASSUME TypeOK, LockInv, SnapshotInv, [Next]_vars
    PROVE  TypeOK'
<1> USE BoundsAssumption, InputsAssumption
<1>1. CASE Tick
  BY <1>1 DEF Tick, TypeOK, overrideVars, chainVars, requestVars
<1>2. ASSUME NEW s \in Increments, IncreaseTime(s)
      PROVE  TypeOK'
  <2>1. offset' \in Int /\ timeIncrease' \in U64
    BY <1>2, U64Closed DEF IncreaseTime, TypeOK, U64
  <2> QED
    BY <1>2, <2>1 DEF IncreaseTime, TypeOK, overrideVars, chainVars, requestVars
<1>3. ASSUME NEW ts \in Timestamps, SetTime(ts)
      PROVE  TypeOK'
  <2>1. ts \in U64 /\ ts - clock \in Int /\ 0 \in U64
    BY DEF TypeOK, U64
  <2>2. ResetTimestamp(ts, ts - clock, None, 0)
    BY <1>3 DEF SetTime
  <2> QED
    BY <1>3, <2>1, <2>2, ResetTyped DEF SetTime, TypeOK, chainVars, requestVars
<1>4. ASSUME NEW ts \in Timestamps, SetNextBlockTimestamp(ts)
      PROVE  TypeOK'
  <2>1. nextExact' \in Override /\ nextOverrideGeneration' \in Nat
    BY <1>4 DEF SetNextBlockTimestamp, TypeOK, Override
  <2> QED
    BY <1>4, <2>1 DEF SetNextBlockTimestamp, TypeOK, chainVars, requestVars
<1>5. ASSUME NEW i \in Increments \cup {None}, SetInterval(i)
      PROVE  TypeOK'
  BY <1>5 DEF SetInterval, TypeOK, overrideVars, chainVars, requestVars
<1>6. ASSUME NEW m \in Miners, NEW s \in Increments \cup {None},
             BeginMine(m, s)
      PROVE  TypeOK'
  <2>1. /\ offset' \in Int /\ timeIncrease' \in U64
        /\ increase' \in [Miners -> TimeIncrease \cup {None}]
    <3>1. CASE s = None
      BY <1>6, <3>1 DEF BeginMine, TypeOK
    <3>2. CASE s # None
      <4>1. s \in U64 /\ s \in Int
        BY <3>2 DEF U64
      <4>2. offset' = offset + s /\ timeIncrease' = SatAdd(timeIncrease, s)
        BY <1>6, <3>2 DEF BeginMine
      <4>3. offset' \in Int /\ timeIncrease' \in U64
        BY <4>2, <4>1, U64Closed DEF TypeOK
      <4>4. [seconds |-> s, offsetResetGeneration |-> offsetResetGeneration]
              \in TimeIncrease
        BY <4>1 DEF TypeOK, TimeIncrease
      <4>5. increase' \in [Miners -> TimeIncrease \cup {None}]
        BY <1>6, <3>2, <4>4 DEF BeginMine, TypeOK
      <4> QED
        BY <4>3, <4>5
    <3> QED
      BY <3>1, <3>2
  <2>2. pc' \in [Miners -> {"idle", "waiting", "prepared", "revert"}]
    BY <1>6 DEF BeginMine, TypeOK
  <2> QED
    BY <1>6, <2>1, <2>2 DEF BeginMine, TypeOK, overrideVars, chainVars
<1>7. ASSUME NEW m \in Miners, Prepare(m)
      PROVE  TypeOK'
  <2>1. candidate' \in Pending
    BY <1>7, PrepareCandidate
  <2>2. /\ mining' \in Miners
        /\ pc' \in [Miners -> {"idle", "waiting", "prepared", "revert"}]
    BY <1>7 DEF Prepare, TypeOK
  <2> QED
    BY <1>7, <2>1, <2>2 DEF Prepare, TypeOK, overrideVars, chainVars
<1>8. ASSUME NEW m \in Miners, Commit(m)
      PROVE  TypeOK'
  <2>1. candidate \in Pending
    BY <1>8, NoneAssumption DEF Commit, LockInv, TypeOK
  <2>2. /\ offset' \in Int /\ timeIncrease' \in U64 /\ lastTimestamp' \in U64
        /\ nextExact' \in Override \cup {None}
    BY <1>8, <2>1, U64Closed DEF Commit, CommitNextTimestamp, TypeOK, Pending
  <2>3. [timestamp |-> candidate.timestamp, synced |-> candidate.synced,
         strict |-> candidate.strict] \in Block
    BY <2>1 DEF Pending, Block
  <2>4. chain' \in Seq(Block) /\ Len(chain') > 0
    <3> DEFINE b == [timestamp |-> candidate.timestamp,
                     synced |-> candidate.synced,
                     strict |-> candidate.strict]
    <3>1. chain' = Append(chain, b) /\ chain \in Seq(Block)
      BY <1>8 DEF Commit, TypeOK
    <3> HIDE DEF b
    <3>2. b \in Block
      BY <2>3 DEF b
    <3> QED
      BY <3>1, <3>2
  <2>5. /\ pc' \in [Miners -> {"idle", "waiting", "prepared", "revert"}]
        /\ increase' \in [Miners -> TimeIncrease \cup {None}]
        /\ mining' = None /\ candidate' = None
    BY <1>8 DEF Commit, TypeOK
  <2>6. headSynced' \in BOOLEAN /\ latestUsed' \in BOOLEAN
    BY <1>8, Zenon DEF Commit, TypeOK, SameReset
  <2>7. UNCHANGED <<clock, offsetResetGeneration, interval,
                    nextOverrideGeneration, snapshots>>
    BY <1>8 DEF Commit
  <2> QED
    BY <2>2, <2>4, <2>5, <2>6, <2>7 DEF TypeOK
<1>9. ASSUME NEW m \in Miners, Fail(m)
      PROVE  TypeOK'
  BY <1>9 DEF Fail, TypeOK, overrideVars, chainVars
<1>10. ASSUME NEW m \in Miners, RevertIncrease(m)
       PROVE  TypeOK'
  <2>1. increase[m] \in TimeIncrease
    <3>1. pc[m] = "revert"
      BY <1>10 DEF RevertIncrease
    <3> QED
      BY <3>1 DEF LockInv, TypeOK
  <2>2. offset' \in Int /\ timeIncrease' \in U64
    <3>1. increase[m].seconds \in U64 /\ increase[m].seconds \in Int
      BY <2>1 DEF TimeIncrease, U64
    <3> QED
      BY <1>10, <3>1, U64Closed DEF RevertIncrease, TypeOK
  <2>3. /\ pc' \in [Miners -> {"idle", "waiting", "prepared", "revert"}]
        /\ increase' \in [Miners -> TimeIncrease \cup {None}]
    BY <1>10 DEF RevertIncrease, TypeOK
  <2> QED
    BY <1>10, <2>2, <2>3 DEF RevertIncrease, TypeOK, overrideVars, chainVars
<1>11. ASSUME NEW ts \in Timestamps, Reset(ts)
       PROVE  TypeOK'
  <2>1. ts \in U64 /\ ts - clock \in Int /\ 0 \in U64
    BY DEF TypeOK, U64
  <2>2. ResetTimestamp(ts, ts - clock, None, 0)
    BY <1>11 DEF Reset
  <2>3. GenesisBlock(ts) \in Block
    BY <2>1 DEF GenesisBlock, Block
  <2>4. /\ chain' \in Seq(Block) /\ Len(chain') > 0
        /\ snapshots' \in Seq(Snapshot)
    BY <1>11, <2>3 DEF Reset
  <2> QED
    BY <1>11, <2>1, <2>2, <2>4, ResetTyped DEF Reset, TypeOK, requestVars
<1>12. ASSUME NEW h \in 1..MaxBlocks, Rollback(h)
       PROVE  TypeOK'
  <2>1. chain[h] \in Block /\ chain \in Seq(Block) /\ h \in 1..Len(chain)
    BY <1>12 DEF Rollback, TypeOK
  <2>2. /\ chain[h].timestamp \in U64
        /\ chain[h].timestamp - clock \in Int /\ 0 \in U64
    BY <2>1 DEF TypeOK, U64, Block
  <2>3. ResetTimestamp(chain[h].timestamp, chain[h].timestamp - clock, None, 0)
    BY <1>12 DEF Rollback
  <2>4. chain' \in Seq(Block) /\ Len(chain') > 0
    BY <1>12, <2>1 DEF Rollback
  <2> QED
    BY <1>12, <2>2, <2>3, <2>4, ResetTyped DEF Rollback, TypeOK, requestVars
<1>13. CASE CreateSnapshot
  <2> DEFINE next == IF nextExact = None THEN None ELSE nextExact.timestamp
             snap == [offset |-> offset, lastTimestamp |-> lastTimestamp,
                      nextBlockTimestamp |-> next,
                      timeIncrease |-> timeIncrease, chain |-> chain,
                      headSynced |-> headSynced]
  <2>1. next \in U64 \cup {None}
    BY DEF TypeOK, Override
  <2>2. snapshots' = Append(snapshots, snap)
    BY <1>13 DEF CreateSnapshot
  <2> HIDE DEF next
  <2>3. snap \in Snapshot
    BY <2>1, Zenon DEF TypeOK, Snapshot
  <2> HIDE DEF snap
  <2>4. snapshots' \in Seq(Snapshot)
    BY <2>2, <2>3 DEF TypeOK
  <2> QED
    BY <1>13, <2>4 DEF CreateSnapshot, TypeOK, overrideVars, requestVars
<1>14. ASSUME NEW id \in 1..MaxSnapshots, RevertSnapshot(id)
       PROVE  TypeOK'
  <2>1. /\ snapshots \in Seq(Snapshot) /\ id \in 1..Len(snapshots)
        /\ snapshots[id] \in Snapshot
    BY <1>14 DEF RevertSnapshot, TypeOK
  <2>2. /\ snapshots[id].lastTimestamp \in U64
        /\ snapshots[id].offset \in Int
        /\ snapshots[id].nextBlockTimestamp \in U64 \cup {None}
        /\ snapshots[id].timeIncrease \in U64
        /\ snapshots[id].chain \in Seq(Block)
        /\ snapshots[id].headSynced \in BOOLEAN
    BY <2>1 DEF Snapshot
  <2>3. ResetTimestamp(snapshots[id].lastTimestamp, snapshots[id].offset,
                       snapshots[id].nextBlockTimestamp,
                       snapshots[id].timeIncrease)
    BY <1>14 DEF RevertSnapshot
  <2>4. /\ chain' \in Seq(Block) /\ Len(chain') > 0
        /\ headSynced' \in BOOLEAN
    BY <1>14, <2>1, <2>2 DEF RevertSnapshot, SnapshotInv
  <2>5. snapshots' \in Seq(Snapshot)
    BY <1>14, <2>1 DEF RevertSnapshot
  <2> QED
    BY <1>14, <2>2, <2>3, <2>4, <2>5, ResetTyped
    DEF RevertSnapshot, TypeOK, requestVars
<1>15. CASE UNCHANGED vars
  BY <1>15 DEF vars, TypeOK, overrideVars, chainVars, requestVars
<1> QED
  BY <1>1, <1>2, <1>3, <1>4, <1>5, <1>6, <1>7, <1>8, <1>9, <1>10, <1>11,
     <1>12, <1>13, <1>14, <1>15 DEF Next, TimeRpc, MineStep, HeadRpc
----------------------------------------------------------------------------
(* The pending override and its readers. *)

\* A reset issues a new generation, which no candidate can have read.
LEMMA OverrideReset ==
    ASSUME TypeOK, OverrideInv, NEW ts, NEW off, NEW inc,
           NEW next \in U64 \cup {None},
           ResetTimestamp(ts, off, next, inc), UNCHANGED candidate
    PROVE  OverrideInv'
<1>1. CASE next = None
  <2>1. nextExact' = None /\ latestUsed'
        /\ nextOverrideGeneration' = nextOverrideGeneration + 1
    BY <1>1 DEF ResetTimestamp
  <2>2. candidate # None => candidate.exactGeneration \in Nat \cup {None}
    BY DEF TypeOK, Pending
  <2> QED
    BY <2>1, <2>2, NoneAssumption
    DEF OverrideInv, OverrideExactlyOnce, TypeOK
<1>2. CASE next # None
  <2>1. /\ nextExact' \in Override
        /\ nextExact'.generation = nextOverrideGeneration + 1
    BY <1>2 DEF ResetTimestamp, Override, TypeOK
  <2>2. ~latestUsed' /\ nextOverrideGeneration' = nextOverrideGeneration + 1
    BY <1>2 DEF ResetTimestamp
  <2>3. nextExact' # None
    BY <2>1, NoneAssumption
  <2>4. candidate # None => candidate.exactGeneration \in Nat \cup {None}
    BY DEF TypeOK, Pending
  <2> QED
    BY <2>1, <2>2, <2>3, <2>4, NoneAssumption
    DEF OverrideInv, OverrideExactlyOnce, TypeOK
<1> QED
  BY <1>1, <1>2

LEMMA OverrideStep ==
    ASSUME TypeOK, LockInv, OverrideInv, [Next]_vars
    PROVE  OverrideInv'
<1> USE NoneAssumption
<1>1. ASSUME UNCHANGED <<nextExact, nextOverrideGeneration, latestUsed,
                         candidate>>
      PROVE  OverrideInv'
  BY <1>1 DEF OverrideInv, OverrideExactlyOnce
<1>2. CASE \/ Tick \/ CreateSnapshot \/ UNCHANGED vars
           \/ \E s \in Increments : IncreaseTime(s)
           \/ \E i \in Increments \cup {None} : SetInterval(i)
           \/ \E m \in Miners :
                 \/ \E s \in Increments \cup {None} : BeginMine(m, s)
                 \/ RevertIncrease(m)
  BY <1>1, <1>2 DEF Tick, CreateSnapshot, vars, IncreaseTime, SetInterval,
                    BeginMine, RevertIncrease, overrideVars
<1>3. ASSUME NEW ts \in Timestamps, SetTime(ts)
      PROVE  OverrideInv'
  BY <1>3, OverrideReset DEF SetTime
<1>4. ASSUME NEW ts \in Timestamps, SetNextBlockTimestamp(ts)
      PROVE  OverrideInv'
  <2>1. /\ nextExact' \in Override
        /\ nextExact'.generation = nextOverrideGeneration + 1
    BY <1>4, InputsAssumption DEF SetNextBlockTimestamp, Override, TypeOK
  <2>2. /\ ~latestUsed' /\ nextOverrideGeneration' = nextOverrideGeneration + 1
        /\ candidate' = candidate /\ nextExact' # None
    BY <1>4, <2>1 DEF SetNextBlockTimestamp
  <2>3. candidate # None => candidate.exactGeneration \in Nat \cup {None}
    BY DEF TypeOK, Pending
  <2> QED
    BY <2>1, <2>2, <2>3 DEF OverrideInv, OverrideExactlyOnce, TypeOK
<1>5. ASSUME NEW m \in Miners, Prepare(m)
      PROVE  OverrideInv'
  <2>1. candidate'.exactGeneration =
            IF nextExact = None THEN None ELSE nextExact.generation
    BY <1>5 DEF Prepare, PendingTimestamp
  <2>2. UNCHANGED <<nextExact, nextOverrideGeneration, latestUsed>>
    BY <1>5 DEF Prepare, overrideVars
  <2> QED
    BY <2>1, <2>2 DEF OverrideInv, OverrideExactlyOnce, TypeOK, Override
<1>6. ASSUME NEW m \in Miners, Commit(m)
      PROVE  OverrideInv'
  <2>1. candidate \in Pending /\ candidate # None
    BY <1>6 DEF Commit, LockInv, TypeOK
  <2>2. candidate' = None /\ nextOverrideGeneration' = nextOverrideGeneration
    BY <1>6 DEF Commit
  <2>3. latestUsed' = (latestUsed \/ candidate.exactGeneration = nextOverrideGeneration)
    BY <1>6 DEF Commit
  <2>4. nextExact' = IF /\ nextExact # None
                        /\ candidate.exactGeneration = nextExact.generation
                     THEN None ELSE nextExact
    BY <1>6 DEF Commit, CommitNextTimestamp
  <2> QED
    BY <2>1, <2>2, <2>3, <2>4 DEF OverrideInv, OverrideExactlyOnce
<1>7. ASSUME NEW m \in Miners, Fail(m)
      PROVE  OverrideInv'
  BY <1>7 DEF Fail, OverrideInv, OverrideExactlyOnce, overrideVars
<1>8. ASSUME NEW ts \in Timestamps, Reset(ts)
      PROVE  OverrideInv'
  BY <1>8, OverrideReset DEF Reset
<1>9. ASSUME NEW h \in 1..MaxBlocks, Rollback(h)
      PROVE  OverrideInv'
  BY <1>9, OverrideReset DEF Rollback
<1>10. ASSUME NEW id \in 1..MaxSnapshots, RevertSnapshot(id)
       PROVE  OverrideInv'
  <2>1. snapshots[id] \in Snapshot
    BY <1>10 DEF RevertSnapshot, TypeOK
  <2>2. snapshots[id].nextBlockTimestamp \in U64 \cup {None}
    BY <2>1 DEF Snapshot
  <2> QED
    BY <1>10, <2>2, OverrideReset DEF RevertSnapshot
<1> QED
  BY <1>2, <1>3, <1>4, <1>5, <1>6, <1>7, <1>8, <1>9, <1>10
  DEF Next, TimeRpc, MineStep, HeadRpc
----------------------------------------------------------------------------
(* The clamp of compute_next_timestamp: never below the last timestamp,    *)
(* and above it on the default path unless u64 is exhausted.               *)
LEMMA NextNotBehind ==
    ASSUME TypeOK, NEW pin \in BOOLEAN
    PROVE  /\ NextTimestamp(pin) >= lastTimestamp
           /\ \/ NextTimestamp(pin) > lastTimestamp
              \/ NextTimestamp(pin) = MaxU64
              \/ AllowEqual(pin)
<1> DEFINE r == RequestedTimestamp
           a == AllowEqual(pin)
<1>1. r \in Int /\ lastTimestamp \in U64
  <2>1. nextExact # None => nextExact.timestamp \in U64
    BY DEF TypeOK, Override
  <2>2. r \in U64
    BY <2>1, U64Closed DEF TypeOK, RequestedTimestamp
  <2> QED
    BY <2>2, BoundsAssumption DEF TypeOK, U64
<1>2. a \in BOOLEAN
  BY DEF AllowEqual
<1>3. NextTimestamp(pin) =
        IF (IF a THEN r < lastTimestamp ELSE r <= lastTimestamp)
        THEN SatAdd(lastTimestamp, 1) ELSE r
  BY DEF NextTimestamp, TooLow
<1> HIDE DEF r, a
<1>4. CASE a
  BY <1>1, <1>3, <1>4, BoundsAssumption DEF SatAdd, U64, a
<1>5. CASE ~a
  BY <1>1, <1>3, <1>5, BoundsAssumption DEF SatAdd, U64
<1> QED
  BY <1>2, <1>4, <1>5

(* The Base schedule: never below the head, nor below the last timestamp. *)
LEMMA ScheduledNotBehind ==
    ASSUME TypeOK, HeadTimestampTracked, OverrideFloor, NEW carry \in 0..1
    PROVE  /\ ScheduledTimestamp(carry) >= HeadBlock.timestamp
           /\ ScheduledTimestamp(carry) >= lastTimestamp
<1> DEFINE i == IF interval # None THEN interval ELSE carry
           r == IF nextExact # None THEN nextExact.timestamp
                ELSE SatAdd(SatAdd(lastTimestamp, i), timeIncrease)
           h == HeadBlock.timestamp
<1>1. h \in U64
  BY HeadTyped DEF Block
<1>2. i \in U64 /\ lastTimestamp \in U64 /\ timeIncrease \in U64
  BY BoundsAssumption DEF TypeOK, U64
<1>3. nextExact # None => nextExact.timestamp \in U64
  BY DEF TypeOK, Override
<1>4. headSynced => lastTimestamp = h
  BY DEF HeadTimestampTracked
<1>5. ScheduledTimestamp(carry) = MaxOf(r, SatAdd(h, carry))
  BY DEF ScheduledTimestamp
<1> HIDE DEF i, h
<1>6. SatAdd(h, carry) >= h /\ SatAdd(h, carry) \in Int
  BY <1>1, BoundsAssumption DEF SatAdd, U64
<1>7. r \in Int /\ (r >= lastTimestamp \/ headSynced)
  <2>1. CASE nextExact # None
    BY <2>1, <1>2, <1>3, BoundsAssumption DEF OverrideFloor, U64
  <2>2. CASE nextExact = None
    BY <2>2, <1>2, BoundsAssumption DEF SatAdd, U64
  <2> QED
    BY <2>1, <2>2
<1> HIDE DEF r
<1>8. MaxOf(r, SatAdd(h, carry)) >= h /\ MaxOf(r, SatAdd(h, carry)) >= r
  BY <1>1, <1>6, <1>7, BoundsAssumption DEF MaxOf, U64
<1>9. MaxOf(r, SatAdd(h, carry)) \in Int
  BY <1>6, <1>7 DEF MaxOf
<1> QED
  BY <1>1, <1>2, <1>4, <1>5, <1>7, <1>8, <1>9, BoundsAssumption DEF U64, h

----------------------------------------------------------------------------
(* The clock, the head and the candidate. *)
LEMMA ClockUnchanged ==
    ASSUME ClockInv,
           UNCHANGED <<nextExact, headSynced, lastTimestamp, candidate, chain,
                       offsetResetGeneration, snapshots>>
    PROVE  ClockInv'
  BY DEF ClockInv, HeadTimestampTracked, OverrideFloor, CandidateInv,
         SnapshotInv, SameReset, HeadBlock

(* A new head is installed while no candidate exists. *)
LEMMA ClockReset ==
    ASSUME TypeOK, ClockInv, candidate = None, UNCHANGED candidate,
           NEW ts \in U64, NEW off, NEW next \in U64 \cup {None}, NEW inc,
           ResetTimestamp(ts, off, next, inc),
           headSynced' => HeadBlock'.timestamp = ts,
           (next # None /\ ~headSynced') => next >= ts,
           SnapshotInv'
    PROVE  ClockInv'
<1>1. HeadTimestampTracked'
  BY DEF HeadTimestampTracked, ResetTimestamp
<1>2. OverrideFloor'
  BY NoneAssumption DEF OverrideFloor, ResetTimestamp
<1>3. CandidateInv'
  BY DEF CandidateInv
<1> QED
  BY <1>1, <1>2, <1>3 DEF ClockInv

LEMMA ClockPrepare ==
    ASSUME TypeOK, LockInv, ClockInv, NEW m \in Miners, Prepare(m)
    PROVE  ClockInv'
<1> DEFINE pin == PinTimestamp(m)
<1>1. UNCHANGED <<nextExact, headSynced, lastTimestamp, chain,
                  offsetResetGeneration, snapshots>>
  BY DEF Prepare, overrideVars, chainVars
<1>2. pin \in BOOLEAN /\ AllowEqual(pin) \in BOOLEAN
  BY DEF PinTimestamp, AllowEqual
<1>3. /\ candidate'.offsetResetGeneration = offsetResetGeneration
      /\ candidate'.synced = headSynced
  BY DEF Prepare, PendingTimestamp
<1>4. CASE ~Base
  <2>1. /\ candidate'.timestamp = NextTimestamp(pin)
        /\ candidate'.strict = ~AllowEqual(pin)
    BY <1>4 DEF Prepare, PendingTimestamp
  <2>2. /\ candidate'.timestamp >= lastTimestamp
        /\ \/ candidate'.timestamp > lastTimestamp
           \/ candidate'.timestamp = MaxU64
           \/ ~candidate'.strict
    BY <1>2, <2>1, NextNotBehind
  <2>3. headSynced => lastTimestamp = HeadBlock.timestamp
    BY DEF ClockInv, HeadTimestampTracked
  <2>4. CandidateInv'
    BY <1>1, <1>3, <1>4, <2>2, <2>3
    DEF CandidateInv, SameReset, HeadBlock, TypeOK
  <2> QED
    BY <1>1, <2>4
    DEF ClockInv, HeadTimestampTracked, OverrideFloor, SnapshotInv, HeadBlock
<1>5. CASE Base
  <2>1. PICK carry \in 0..1 :
          candidate' = PendingTimestamp(ScheduledTimestamp(carry), TRUE, FALSE)
    BY <1>5 DEF Prepare
  <2>2. candidate'.timestamp = ScheduledTimestamp(carry) /\ ~candidate'.strict
    BY <2>1 DEF PendingTimestamp
  <2>3. /\ candidate'.timestamp >= HeadBlock.timestamp
        /\ candidate'.timestamp >= lastTimestamp
    BY <2>2, ScheduledNotBehind DEF ClockInv
  <2>4. CandidateInv'
    BY <1>1, <1>3, <2>2, <2>3 DEF CandidateInv, SameReset, HeadBlock, TypeOK
  <2> QED
    BY <1>1, <2>4
    DEF ClockInv, HeadTimestampTracked, OverrideFloor, SnapshotInv, HeadBlock
<1> QED
  BY <1>4, <1>5
(* The committed block is the head, and the rest of the chain is as it was. *)
LEMMA CommitChain ==
    ASSUME TypeOK, NEW m \in Miners, Commit(m)
    PROVE  /\ Len(chain') = Len(chain) + 1
           /\ \A i \in 1..Len(chain) : chain'[i] = chain[i]
           /\ HeadBlock' = chain'[Len(chain) + 1]
           /\ HeadBlock'.timestamp = candidate.timestamp
           /\ HeadBlock'.synced = candidate.synced
           /\ HeadBlock'.strict = candidate.strict
<1> DEFINE b == [timestamp |-> candidate.timestamp,
                 synced |-> candidate.synced,
                 strict |-> candidate.strict]
<1>1. chain' = Append(chain, b) /\ chain \in Seq(Block)
  BY DEF Commit, TypeOK
<1> HIDE DEF b
<1>2. /\ Len(chain') = Len(chain) + 1
      /\ \A i \in 1..Len(chain) : chain'[i] = chain[i]
      /\ chain'[Len(chain) + 1] = b
  BY <1>1
<1>3. HeadBlock' = b
  BY <1>2 DEF HeadBlock
<1> QED
  BY <1>2, <1>3 DEF b

LEMMA ClockCommit ==
    ASSUME TypeOK, LockInv, ClockInv, NEW m \in Miners, Commit(m)
    PROVE  ClockInv'
<1>1. candidate \in Pending /\ candidate # None
  BY NoneAssumption DEF Commit, LockInv, TypeOK
<1>2. headSynced' = SameReset /\ candidate' = None /\ UNCHANGED snapshots
  BY DEF Commit
<1>3. lastTimestamp' = IF SameReset THEN candidate.timestamp ELSE lastTimestamp
  BY DEF Commit, CommitNextTimestamp
<1>4. HeadTimestampTracked'
  BY <1>2, <1>3, CommitChain DEF HeadTimestampTracked
<1>5. OverrideFloor'
  <2>1. nextExact' \in {None, nextExact}
    BY DEF Commit, CommitNextTimestamp
  <2> QED
    BY <1>1, <1>2, <1>3, <2>1 DEF OverrideFloor, ClockInv, CandidateInv
<1>6. CandidateInv' /\ SnapshotInv'
  BY <1>2 DEF CandidateInv, SnapshotInv, ClockInv
<1> QED
  BY <1>4, <1>5, <1>6 DEF ClockInv

LEMMA ClockStep ==
    ASSUME TypeOK, LockInv, ClockInv, [Next]_vars
    PROVE  ClockInv'
<1> USE BoundsAssumption, InputsAssumption
<1>1. CASE \/ Tick \/ UNCHANGED vars
           \/ \E s \in Increments : IncreaseTime(s)
           \/ \E i \in Increments \cup {None} : SetInterval(i)
           \/ \E m \in Miners :
                 \/ \E s \in Increments \cup {None} : BeginMine(m, s)
                 \/ RevertIncrease(m)
  BY <1>1, ClockUnchanged
  DEF Tick, vars, IncreaseTime, SetInterval, BeginMine, RevertIncrease,
      overrideVars, chainVars
<1>2. ASSUME NEW ts \in Timestamps, SetTime(ts)
      PROVE  ClockInv'
  <2>1. /\ ~headSynced' /\ nextExact' = None
        /\ offsetResetGeneration' = offsetResetGeneration + 1
        /\ UNCHANGED <<candidate, chain, snapshots>>
    BY <1>2 DEF SetTime, ResetTimestamp, chainVars
  <2>2. candidate # None => candidate.offsetResetGeneration \in Nat
    BY DEF TypeOK, Pending
  <2>3. CandidateInv'
    BY <2>1, <2>2 DEF ClockInv, CandidateInv, SameReset, HeadBlock, TypeOK
  <2> QED
    BY <2>1, <2>3
    DEF ClockInv, HeadTimestampTracked, OverrideFloor, SnapshotInv
<1>3. ASSUME NEW ts \in Timestamps, SetNextBlockTimestamp(ts)
      PROVE  ClockInv'
  <2>1. /\ ts >= lastTimestamp /\ nextExact'.timestamp = ts
        /\ UNCHANGED <<headSynced, lastTimestamp, candidate, chain,
                       offsetResetGeneration, snapshots>>
    BY <1>3 DEF SetNextBlockTimestamp, chainVars
  <2> QED
    BY <2>1 DEF ClockInv, HeadTimestampTracked, OverrideFloor, CandidateInv,
                SnapshotInv, SameReset, HeadBlock
<1>4. ASSUME NEW m \in Miners, Prepare(m)
      PROVE  ClockInv'
  BY <1>4, ClockPrepare
<1>5. ASSUME NEW m \in Miners, Commit(m)
      PROVE  ClockInv'
  BY <1>5, ClockCommit
<1>6. ASSUME NEW m \in Miners, Fail(m)
      PROVE  ClockInv'
  BY <1>6 DEF Fail, ClockInv, HeadTimestampTracked, OverrideFloor,
              CandidateInv, SnapshotInv, HeadBlock, overrideVars, chainVars
<1>7. ASSUME NEW ts \in Timestamps, Reset(ts)
      PROVE  ClockInv'
  <2>1. HeadBlock'.timestamp = ts /\ snapshots' = << >> /\ headSynced'
    BY <1>7 DEF Reset, HeadBlock, GenesisBlock
  <2>2. SnapshotInv'
    BY <2>1 DEF SnapshotInv
  <2>3. candidate = None /\ candidate' = candidate
    BY <1>7 DEF Reset, LockInv
  <2> QED
    BY <1>7, <2>1, <2>2, <2>3, ClockReset DEF Reset
<1>8. ASSUME NEW h \in 1..MaxBlocks, Rollback(h)
      PROVE  ClockInv'
  <2>1. chain \in Seq(Block) /\ h \in 1..Len(chain) /\ chain[h] \in Block
    BY <1>8 DEF Rollback, TypeOK
  <2>2. chain' = SubSeq(chain, 1, h) /\ UNCHANGED snapshots /\ headSynced'
    BY <1>8 DEF Rollback
  <2>3. HeadBlock' = chain[h]
    BY <2>1, <2>2 DEF HeadBlock
  <2>4. chain[h].timestamp \in U64
    BY <2>1 DEF Block
  <2>5. SnapshotInv'
    BY <2>2 DEF SnapshotInv, ClockInv
  <2>6. candidate = None /\ candidate' = candidate
    BY <1>8 DEF Rollback, LockInv
  <2> QED
    BY <1>8, <2>2, <2>3, <2>4, <2>5, <2>6, ClockReset DEF Rollback
<1>9. CASE CreateSnapshot
  <2> DEFINE next == IF nextExact = None THEN None ELSE nextExact.timestamp
             snap == [offset |-> offset, lastTimestamp |-> lastTimestamp,
                      nextBlockTimestamp |-> next,
                      timeIncrease |-> timeIncrease, chain |-> chain,
                      headSynced |-> headSynced]
  <2>1. /\ snapshots' = Append(snapshots, snap)
        /\ UNCHANGED <<nextExact, headSynced, lastTimestamp, candidate, chain,
                       offsetResetGeneration>>
    BY <1>9 DEF CreateSnapshot, overrideVars
  <2>2. /\ Len(snap.chain) > 0
        /\ snap.headSynced =>
              snap.lastTimestamp = snap.chain[Len(snap.chain)].timestamp
        /\ (snap.nextBlockTimestamp # None /\ ~snap.headSynced) =>
              snap.nextBlockTimestamp >= snap.lastTimestamp
    BY DEF TypeOK, ClockInv, HeadTimestampTracked, OverrideFloor, HeadBlock
  <2> HIDE DEF snap
  <2>3. SnapshotInv'
    <3>1. /\ Len(snapshots') = Len(snapshots) + 1
          /\ \A i \in 1..Len(snapshots) : snapshots'[i] = snapshots[i]
          /\ snapshots'[Len(snapshots) + 1] = snap
          /\ Len(snapshots) \in Nat
      BY <2>1 DEF TypeOK
    <3> QED
      BY <2>2, <3>1 DEF SnapshotInv, ClockInv
  <2> QED
    BY <2>1, <2>3 DEF ClockInv, HeadTimestampTracked, OverrideFloor,
                      CandidateInv, SameReset, HeadBlock
<1>10. ASSUME NEW id \in 1..MaxSnapshots, RevertSnapshot(id)
       PROVE  ClockInv'
  <2>1. /\ snapshots \in Seq(Snapshot) /\ id \in 1..Len(snapshots)
        /\ snapshots[id] \in Snapshot
    BY <1>10 DEF RevertSnapshot, TypeOK
  <2>2. /\ snapshots[id].lastTimestamp \in U64
        /\ snapshots[id].nextBlockTimestamp \in U64 \cup {None}
    BY <2>1 DEF Snapshot
  <2>3. /\ chain' = snapshots[id].chain
        /\ snapshots' = SubSeq(snapshots, 1, id - 1)
        /\ headSynced' = snapshots[id].headSynced
        /\ candidate = None /\ candidate' = candidate
    BY <1>10 DEF RevertSnapshot, LockInv
  <2>4. headSynced' => HeadBlock'.timestamp = snapshots[id].lastTimestamp
    BY <2>1, <2>3 DEF ClockInv, SnapshotInv, HeadBlock
  <2>5. (snapshots[id].nextBlockTimestamp # None /\ ~headSynced')
           => snapshots[id].nextBlockTimestamp >= snapshots[id].lastTimestamp
    BY <2>1, <2>3 DEF ClockInv, SnapshotInv
  <2>6. SnapshotInv'
    <3>1. /\ Len(snapshots') = id - 1
          /\ \A i \in 1..(id - 1) : snapshots'[i] = snapshots[i]
      BY <2>1, <2>3
    <3> QED
      BY <2>1, <3>1 DEF SnapshotInv, ClockInv
  <2> QED
    BY <1>10, <2>2, <2>3, <2>4, <2>5, <2>6, ClockReset DEF RevertSnapshot
<1> QED
  BY <1>1, <1>2, <1>3, <1>4, <1>5, <1>6, <1>7, <1>8, <1>9, <1>10
  DEF Next, TimeRpc, MineStep, HeadRpc

----------------------------------------------------------------------------
(* The timestamps along the chain. *)
LEMMA OrderPrefix ==
    ASSUME TypeOK, OrderInv, NEW n \in 1..Len(chain),
           chain' = SubSeq(chain, 1, n)
    PROVE  OrderInv'
<1>1. chain \in Seq(Block)
  BY DEF TypeOK
<1>2. Len(chain') = n /\ \A i \in 1..n : chain'[i] = chain[i]
  BY <1>1
<1> QED
  BY <1>1, <1>2 DEF OrderInv, ChainOrdered, BaseChainOrdered

LEMMA OrderStep ==
    ASSUME TypeOK, LockInv, ClockInv, OrderInv, [Next]_vars
    PROVE  OrderInv'
<1>1. CASE \/ Tick \/ UNCHANGED vars \/ TimeRpc \/ CreateSnapshot
           \/ \E m \in Miners :
                 \/ \E s \in Increments \cup {None} : BeginMine(m, s)
                 \/ Prepare(m) \/ Fail(m) \/ RevertIncrease(m)
  <2>1. UNCHANGED chain
    BY <1>1 DEF Tick, vars, TimeRpc, IncreaseTime, SetTime,
                SetNextBlockTimestamp, SetInterval, CreateSnapshot, BeginMine,
                Prepare, Fail, RevertIncrease, chainVars
  <2> QED
    BY <2>1 DEF OrderInv, ChainOrdered, BaseChainOrdered
<1>2. ASSUME NEW m \in Miners, Commit(m)
      PROVE  OrderInv'
  <2>1. candidate # None
    BY <1>2, NoneAssumption DEF Commit, LockInv
  <2>2. /\ Len(chain') = Len(chain) + 1
        /\ \A i \in 1..Len(chain) : chain'[i] = chain[i]
        /\ chain'[Len(chain) + 1].timestamp = candidate.timestamp
        /\ chain'[Len(chain) + 1].synced = candidate.synced
        /\ chain'[Len(chain) + 1].strict = candidate.strict
    BY <1>2, CommitChain
  <2>3. /\ candidate.synced =>
              /\ candidate.timestamp >= chain[Len(chain)].timestamp
              /\ \/ candidate.timestamp > chain[Len(chain)].timestamp
                 \/ candidate.timestamp = MaxU64
                 \/ ~candidate.strict
        /\ Base => candidate.timestamp >= chain[Len(chain)].timestamp
    BY <2>1 DEF ClockInv, CandidateInv, HeadBlock
  <2>4. Len(chain) \in Nat /\ Len(chain) > 0
    BY DEF TypeOK
  <2>5. ChainOrdered'
    <3> SUFFICES ASSUME NEW i \in 2..Len(chain'), chain'[i].synced
                 PROVE  /\ chain'[i].timestamp >= chain'[i-1].timestamp
                        /\ \/ chain'[i].timestamp > chain'[i-1].timestamp
                           \/ chain'[i].timestamp = MaxU64
                           \/ ~chain'[i].strict
      BY DEF ChainOrdered
    <3>1. CASE i \in 2..Len(chain)
      BY <2>2, <2>4, <3>1 DEF OrderInv, ChainOrdered
    <3>2. CASE i = Len(chain) + 1
      BY <2>2, <2>3, <2>4, <3>2
    <3> QED
      BY <2>2, <2>4, <3>1, <3>2
  <2>6. BaseChainOrdered'
    <3> SUFFICES ASSUME Base, NEW i \in 2..Len(chain')
                 PROVE  chain'[i].timestamp >= chain'[i-1].timestamp
      BY DEF BaseChainOrdered
    <3>1. CASE i \in 2..Len(chain)
      BY <2>2, <2>4, <3>1 DEF OrderInv, BaseChainOrdered
    <3>2. CASE i = Len(chain) + 1
      BY <2>2, <2>3, <2>4, <3>2
    <3> QED
      BY <2>2, <2>4, <3>1, <3>2
  <2> QED
    BY <2>5, <2>6 DEF OrderInv
<1>3. ASSUME NEW ts \in Timestamps, Reset(ts)
      PROVE  OrderInv'
  <2>1. Len(chain') = 1
    BY <1>3 DEF Reset
  <2> QED
    BY <2>1 DEF OrderInv, ChainOrdered, BaseChainOrdered
<1>4. ASSUME NEW h \in 1..MaxBlocks, Rollback(h)
      PROVE  OrderInv'
  BY <1>4, OrderPrefix DEF Rollback
<1>5. ASSUME NEW id \in 1..MaxSnapshots, RevertSnapshot(id)
      PROVE  OrderInv'
  <2> DEFINE n == Len(snapshots[id].chain)
  <2>1. snapshots[id] \in Snapshot /\ id \in 1..Len(snapshots)
    BY <1>5 DEF RevertSnapshot, TypeOK
  <2>2. snapshots[id].chain \in Seq(Block) /\ n > 0 /\ Len(chain) \in Nat
    BY <2>1 DEF Snapshot, ClockInv, SnapshotInv, TypeOK
  <2>3. n \in 1..Len(chain) /\ chain' = SubSeq(chain, 1, n)
    BY <1>5, <2>2 DEF RevertSnapshot
  <2> QED
    BY <2>3, OrderPrefix
<1> QED
  BY <1>1, <1>2, <1>3, <1>4, <1>5 DEF Next, MineStep, HeadRpc

----------------------------------------------------------------------------
LEMMA IInvInit == Init => IInv
<1> SUFFICES ASSUME Init PROVE IInv
  OBVIOUS
<1> USE BoundsAssumption, InputsAssumption, NoneAssumption
<1>1. PICK now \in 0..MaxClock, ts \in Timestamps :
        /\ clock = now /\ offset = ts - now /\ timeIncrease = 0
        /\ offsetResetGeneration = 1 /\ lastTimestamp = ts
        /\ nextExact = None /\ interval = None /\ nextOverrideGeneration = 1
        /\ chain = <<GenesisBlock(ts)>> /\ snapshots = << >>
        /\ mining = None /\ candidate = None
        /\ pc = [m \in Miners |-> "idle"]
        /\ increase = [m \in Miners |-> None]
        /\ headSynced = TRUE /\ latestUsed = TRUE
  BY DEF Init
<1>2. GenesisBlock(ts) \in Block /\ GenesisBlock(ts).timestamp = ts
  BY DEF GenesisBlock, Block
<1>3. chain \in Seq(Block) /\ Len(chain) = 1 /\ chain[1] = GenesisBlock(ts)
  BY <1>1, <1>2
<1>4. TypeOK
  <2>1. ts - now \in Int /\ 0 \in U64 /\ ts \in U64
    BY DEF U64
  <2>2. << >> \in Seq(Snapshot)
    OBVIOUS
  <2> QED
    BY <1>1, <1>3, <2>1, <2>2 DEF TypeOK
<1>5. LockInv
  BY <1>1 DEF LockInv
<1>6. OverrideInv
  BY <1>1 DEF OverrideInv, OverrideExactlyOnce
<1>7. ClockInv
  BY <1>1, <1>2, <1>3 DEF ClockInv, HeadTimestampTracked, OverrideFloor,
                          CandidateInv, SnapshotInv, HeadBlock
<1>8. OrderInv
  BY <1>3 DEF OrderInv, ChainOrdered, BaseChainOrdered
<1> QED
  BY <1>4, <1>5, <1>6, <1>7, <1>8 DEF IInv

LEMMA IInvStep == IInv /\ [Next]_vars => IInv'
  BY LockStep, TypeStep, OverrideStep, ClockStep, OrderStep DEF IInv, ClockInv

LEMMA Inductive == Spec => []IInv
  BY IInvInit, IInvStep, PTL DEF Spec

(* The clock's variables always have their types: no path of the timestamp *)
(* arithmetic leaves u64.                                                   *)
THEOREM TypeCorrect == Spec => []TypeOK
<1>1. IInv => TypeOK
  BY DEF IInv
<1> QED
  BY <1>1, Inductive, PTL

(* The time manager and the head block agree unless evm_setTime separated  *)
(* them, whatever races a candidate with the time RPCs.                    *)
THEOREM HeadTracked == Spec => []HeadTimestampTracked
<1>1. IInv => HeadTimestampTracked
  BY DEF IInv, ClockInv
<1> QED
  BY <1>1, Inductive, PTL

(* Block timestamps are ordered along the chain, for any number of         *)
(* concurrent mining requests, rollbacks and snapshots.                    *)
THEOREM TimestampsOrdered == Spec => []ChainOrdered
<1>1. IInv => ChainOrdered
  BY DEF IInv, OrderInv
<1> QED
  BY <1>1, Inductive, PTL

(* On a Base chain they are ordered unconditionally. *)
THEOREM BaseTimestampsOrdered == Spec => []BaseChainOrdered
<1>1. IInv => BaseChainOrdered
  BY DEF IInv, OrderInv
<1> QED
  BY <1>1, Inductive, PTL

(* An accepted next-block timestamp is neither lost nor used twice. *)
THEOREM OverrideUsedOnce == Spec => []OverrideExactlyOnce
<1>1. IInv => OverrideExactlyOnce
  BY DEF IInv, OverrideInv
<1> QED
  BY <1>1, Inductive, PTL

(* last_timestamp goes back only through an absolute reset. *)
THEOREM LastTimestampOnlyResetBack == Spec => LastTimestampMonotone
<1> DEFINE P == lastTimestamp' < lastTimestamp
                  => offsetResetGeneration' # offsetResetGeneration
<1>1. IInv /\ [Next]_vars => [P]_vars
  <2> SUFFICES ASSUME IInv, Next PROVE P
    BY DEF P
  <2>1. lastTimestamp \in Nat /\ offsetResetGeneration \in Nat
    BY BoundsAssumption DEF IInv, TypeOK, U64
  <2>2. ASSUME NEW ts, NEW off, NEW next, NEW inc,
               ResetTimestamp(ts, off, next, inc)
        PROVE  P
    BY <2>1, <2>2 DEF ResetTimestamp
  <2>3. ASSUME UNCHANGED lastTimestamp
        PROVE  P
    BY <2>1, <2>3
  <2>4. ASSUME NEW m \in Miners, Commit(m)
        PROVE  P
    <3>1. candidate \in Pending /\ candidate # None
      BY <2>4, NoneAssumption DEF Commit, IInv, LockInv, TypeOK
    <3>2. lastTimestamp' = IF SameReset THEN candidate.timestamp
                           ELSE lastTimestamp
      BY <2>4 DEF Commit, CommitNextTimestamp
    <3>3. SameReset => candidate.timestamp >= lastTimestamp
      BY <3>1 DEF IInv, ClockInv, CandidateInv
    <3>4. candidate.timestamp \in Int
      BY <3>1, BoundsAssumption DEF Pending, U64
    <3> QED
      BY <2>1, <3>2, <3>3, <3>4
  <2> QED
    BY <2>2, <2>3, <2>4
    DEF Next, Tick, TimeRpc, IncreaseTime, SetTime, SetNextBlockTimestamp,
        SetInterval, MineStep, BeginMine, Prepare, Fail, RevertIncrease,
        HeadRpc, Reset, Rollback, CreateSnapshot, RevertSnapshot
<1> QED
  BY <1>1, Inductive, PTL DEF Spec, LastTimestampMonotone
=============================================================================
