---------------------------- MODULE TimeManager ----------------------------
(***************************************************************************)
(* Anvil's block clock (crates/anvil/src/eth/backend/time.rs) together     *)
(* with the callers that drive it: the lock-free time RPCs, the miners     *)
(* that prepare and commit a candidate timestamp under the mining mutex,   *)
(* and the operations that install another head (anvil_reset, evm_revert,  *)
(* anvil_rollback).                                                        *)
(*                                                                         *)
(* A miner reads the clock once (prepare), executes the block, and commits *)
(* afterwards; the time RPCs take no lock, so any of them may run in       *)
(* between.  The generation counters exist to make that safe, and the      *)
(* properties at the end of the module say what they have to guarantee.    *)
(***************************************************************************)
EXTENDS Integers, Sequences

CONSTANTS
    MaxU64,         \* u64::MAX
    MaxClock,       \* largest wall clock second that is explored
    MaxGeneration,  \* bound on nextOverrideGeneration (u64 in the code)
    MaxOffset,      \* bound on offset + seconds when time is increased (i128)
    MaxBlocks,      \* bound on the length of the chain
    MaxSnapshots,   \* bound on the number of active state snapshots
    Timestamps,     \* arguments of evm_setTime and evm_setNextBlockTimestamp
    Increments,     \* arguments of evm_increaseTime, anvil_mine's interval
    Miners,         \* concurrent mining requests (RPC tasks, block producer)
    Base,           \* TRUE on a Base chain at the Denim upgrade or later
    None            \* Rust's Option::None

ASSUME BoundsAssumption ==
    /\ MaxU64 \in Nat /\ MaxU64 > 0
    /\ MaxClock \in Nat
    /\ MaxGeneration \in Nat
    /\ MaxOffset \in Int
    /\ MaxBlocks \in Nat
    /\ MaxSnapshots \in Nat

U64 == 0..MaxU64

ASSUME InputsAssumption ==
    /\ Timestamps \subseteq U64
    /\ Increments \subseteq U64
    /\ Base \in BOOLEAN

VARIABLES
    clock,                   \* SystemTime::now(), in seconds
    offset,                  \* TimeState: i128
    timeIncrease,            \* TimeState: explicit increases not yet committed
    offsetResetGeneration,   \* TimeState
    lastTimestamp,           \* TimeState
    nextExact,               \* TimeState: None or [timestamp, generation]
    interval,                \* TimeState: None or u64
    nextOverrideGeneration,  \* TimeState
    chain,                   \* the canonical blocks, genesis first
    snapshots,               \* active_state_snapshots, oldest first
    mining,                  \* holder of the mining mutex, or None
    candidate,               \* None or the holder's PendingBlockTimestamp
    pc,                      \* where each mining request is
    increase,                \* its PendingTimeIncrease, or None
    headSynced,              \* history: no evm_setTime since the head was set
    latestUsed               \* history: the newest override is used or void

overrideVars == <<nextExact, nextOverrideGeneration, latestUsed>>
requestVars == <<pc, increase>>
chainVars == <<chain, snapshots>>
vars == <<clock, offset, timeIncrease, offsetResetGeneration, lastTimestamp,
          interval, overrideVars, chainVars, mining,
          candidate, requestVars, headSynced>>

----------------------------------------------------------------------------
(* u64 arithmetic *)

\* Slip: plain addition where the code saturates.
WrongSatAdd(a, b) == a + b

SatAdd(a, b) == IF a + b > MaxU64 THEN MaxU64 ELSE a + b
SatSub(a, b) == IF a >= b THEN a - b ELSE 0
MaxOf(a, b) == IF a >= b THEN a ELSE b

\* The cast `i128 as u64` keeps the low 64 bits.
AsU64(i) == i % (MaxU64 + 1)

HeadBlock == chain[Len(chain)]

(* A block keeps its header's timestamp.  The other two fields record how  *)
(* the timestamp was chosen: whether lastTimestamp was the parent's, and   *)
(* whether the default (wall clock) path was taken.                        *)
Block == [timestamp : U64, synced : BOOLEAN, strict : BOOLEAN]

GenesisBlock(ts) == [timestamp |-> ts, synced |-> FALSE, strict |-> FALSE]

Override == [timestamp : U64, generation : Nat]

Snapshot == [offset : Int, lastTimestamp : U64,
             nextBlockTimestamp : U64 \cup {None}, timeIncrease : U64,
             chain : Seq(Block), headSynced : BOOLEAN]

Pending == [timestamp : U64, exactGeneration : Nat \cup {None},
            preparedOffset : Int, offsetResetGeneration : Nat,
            nextOffset : Int \cup {None}, timeIncrease : U64,
            synced : BOOLEAN, strict : BOOLEAN]

TimeIncrease == [seconds : U64, offsetResetGeneration : Nat]

ASSUME NoneAssumption ==
    None \notin Int \cup Miners \cup Override \cup Pending \cup TimeIncrease

----------------------------------------------------------------------------
\* Slip: the clock keeps the last timestamp of the head it leaves.
WrongResetKeepsLast(ts, off, next, inc) ==
    /\ nextOverrideGeneration < MaxGeneration
    /\ timeIncrease' = inc
    /\ offset' = off
    /\ offsetResetGeneration' = offsetResetGeneration + 1
    /\ nextOverrideGeneration' = nextOverrideGeneration + 1
    /\ nextExact' = IF next = None THEN None
                    ELSE [timestamp |-> next,
                          generation |-> nextOverrideGeneration + 1]
    /\ latestUsed' = (next = None)
    /\ UNCHANGED lastTimestamp

(* reset_timestamp: `off` is the new offset, `next` the timestamp of an    *)
(* override to install (or None), `inc` the uncommitted increase.          *)
ResetTimestamp(ts, off, next, inc) ==
    /\ nextOverrideGeneration < MaxGeneration
    /\ lastTimestamp' = ts
    /\ timeIncrease' = inc
    /\ offset' = off
    /\ offsetResetGeneration' = offsetResetGeneration + 1
    /\ nextOverrideGeneration' = nextOverrideGeneration + 1
    /\ nextExact' = IF next = None THEN None
                    ELSE [timestamp |-> next,
                          generation |-> nextOverrideGeneration + 1]
    /\ latestUsed' = (next = None)

Init ==
    \E now \in 0..MaxClock, ts \in Timestamps :
        /\ clock = now
        /\ offset = ts - now
        /\ timeIncrease = 0
        /\ offsetResetGeneration = 1
        /\ lastTimestamp = ts
        /\ nextExact = None
        /\ interval = None
        /\ nextOverrideGeneration = 1
        /\ chain = <<GenesisBlock(ts)>>
        /\ snapshots = << >>
        /\ mining = None
        /\ candidate = None
        /\ pc = [m \in Miners |-> "idle"]
        /\ increase = [m \in Miners |-> None]
        /\ headSynced = TRUE
        /\ latestUsed = TRUE

\* The wall clock advances, or is stepped back by the host.
Tick ==
    /\ clock' \in 0..MaxClock
    /\ clock' # clock
    /\ UNCHANGED <<offset, timeIncrease, offsetResetGeneration, lastTimestamp,
                   interval, overrideVars, chainVars,
                   mining, candidate, requestVars, headSynced>>

----------------------------------------------------------------------------
(* The lock-free time RPCs. *)

\* evm_increaseTime
IncreaseTime(seconds) ==
    /\ offset + seconds <= MaxOffset
    /\ offset' = offset + seconds
    /\ timeIncrease' = SatAdd(timeIncrease, seconds)
    /\ UNCHANGED <<clock, offsetResetGeneration, lastTimestamp,
                   interval, overrideVars, chainVars,
                   mining, candidate, requestVars, headSynced>>

\* evm_setTime
SetTime(ts) ==
    /\ ResetTimestamp(ts, ts - clock, None, 0)
    /\ headSynced' = FALSE
    /\ UNCHANGED <<clock, interval, chainVars, mining, candidate, requestVars>>

\* evm_setNextBlockTimestamp: an earlier timestamp is an error, no change.
SetNextBlockTimestamp(ts) ==
    /\ ts >= lastTimestamp
    /\ nextOverrideGeneration < MaxGeneration
    /\ nextOverrideGeneration' = nextOverrideGeneration + 1
    /\ nextExact' = [timestamp |-> ts,
                     generation |-> nextOverrideGeneration + 1]
    /\ latestUsed' = FALSE
    /\ UNCHANGED <<clock, offset, timeIncrease, offsetResetGeneration,
                   lastTimestamp, interval, chainVars,
                   mining, candidate, requestVars, headSynced>>

\* anvil_setBlockTimestampInterval, anvil_removeBlockTimestampInterval
SetInterval(i) ==
    /\ interval' = i
    /\ UNCHANGED <<clock, offset, timeIncrease, offsetResetGeneration,
                   lastTimestamp, overrideVars, chainVars,
                   mining, candidate, requestVars, headSynced>>

----------------------------------------------------------------------------
(* Mining. *)

(* A request starts: anvil_mine with an interval first applies a temporary *)
(* increase, outside the mining mutex; every other request (seconds =      *)
(* None) does not touch the clock.                                         *)
BeginMine(m, seconds) ==
    /\ pc[m] = "idle"
    /\ pc' = [pc EXCEPT ![m] = "waiting"]
    /\ IF seconds = None
       THEN UNCHANGED <<offset, timeIncrease, increase>>
       ELSE /\ offset + seconds <= MaxOffset
            /\ offset' = offset + seconds
            /\ timeIncrease' = SatAdd(timeIncrease, seconds)
            /\ increase' = [increase EXCEPT ![m] =
                  [seconds |-> seconds,
                   offsetResetGeneration |-> offsetResetGeneration]]
    /\ UNCHANGED <<clock, offsetResetGeneration, lastTimestamp,
                   interval, overrideVars, chainVars,
                   mining, candidate, headSynced>>

\* anvil_mine(n, 0): equal timestamps are allowed.
PinTimestamp(m) == increase[m] # None /\ increase[m].seconds = 0

\* compute_next_timestamp, before the monotonicity clamp
RequestedTimestamp ==
    CASE nextExact # None -> nextExact.timestamp
      [] nextExact = None /\ interval # None -> SatAdd(lastTimestamp, interval)
      [] OTHER -> MaxOf(AsU64(clock + offset),
                        SatAdd(lastTimestamp, timeIncrease))

AllowEqual(pin) == nextExact # None \/ pin \/ interval # None

\* Slip: the default path accepts the parent's timestamp.
WrongTooLow(ts, pin) == ts < lastTimestamp

TooLow(ts, pin) ==
    IF AllowEqual(pin) THEN ts < lastTimestamp ELSE ts <= lastTimestamp

NextTimestamp(pin) ==
    IF TooLow(RequestedTimestamp, pin) THEN SatAdd(lastTimestamp, 1)
    ELSE RequestedTimestamp

\* base::prepare_block_timestamp: `carry` is the whole-second carry.
ScheduledTimestamp(carry) ==
    MaxOf(IF nextExact # None THEN nextExact.timestamp
          ELSE SatAdd(SatAdd(lastTimestamp,
                             IF interval # None THEN interval ELSE carry),
                      timeIncrease),
          SatAdd(HeadBlock.timestamp, carry))

(* prepare_next_timestamp_inner, with the mining mutex just acquired.  The *)
(* next offset is only computed for an exact or a scheduled timestamp.     *)
PendingTimestamp(ts, updateOffset, strict) ==
    [timestamp |-> ts,
     exactGeneration |-> IF nextExact = None THEN None
                         ELSE nextExact.generation,
     preparedOffset |-> offset,
     offsetResetGeneration |-> offsetResetGeneration,
     nextOffset |-> IF updateOffset THEN ts - clock ELSE None,
     timeIncrease |-> timeIncrease,
     synced |-> headSynced,
     strict |-> strict]

Prepare(m) ==
    /\ pc[m] = "waiting"
    /\ mining = None
    /\ Len(chain) < MaxBlocks
    /\ mining' = m
    /\ pc' = [pc EXCEPT ![m] = "prepared"]
    /\ IF Base
       THEN \E carry \in 0..1 :
              candidate' = PendingTimestamp(ScheduledTimestamp(carry), TRUE,
                                            FALSE)
       ELSE candidate' = PendingTimestamp(NextTimestamp(PinTimestamp(m)),
                                          nextExact # None,
                                          ~AllowEqual(PinTimestamp(m)))
    /\ UNCHANGED <<clock, offset, timeIncrease, offsetResetGeneration,
                   lastTimestamp, interval, overrideVars,
                   chainVars, increase, headSynced>>

\* No reset, restore or evm_setTime since the candidate was prepared.
SameReset == candidate.offsetResetGeneration = offsetResetGeneration

\* Slip: whatever override is installed is taken for the candidate's.
WrongCommitNextTimestamp ==
    /\ nextExact' = None
    /\ offset' = IF candidate.nextOffset # None /\ SameReset
                 THEN candidate.nextOffset + (offset - candidate.preparedOffset)
                 ELSE offset
    /\ timeIncrease' = IF SameReset
                       THEN SatSub(timeIncrease, candidate.timeIncrease)
                       ELSE timeIncrease
    /\ lastTimestamp' = IF SameReset THEN candidate.timestamp
                        ELSE lastTimestamp

\* Slip: the last timestamp follows the block even after a reset.
WrongCommitOverReset ==
    /\ nextExact' = IF /\ nextExact # None
                       /\ candidate.exactGeneration = nextExact.generation
                    THEN None ELSE nextExact
    /\ offset' = IF candidate.nextOffset # None /\ SameReset
                 THEN candidate.nextOffset + (offset - candidate.preparedOffset)
                 ELSE offset
    /\ timeIncrease' = IF SameReset
                       THEN SatSub(timeIncrease, candidate.timeIncrease)
                       ELSE timeIncrease
    /\ lastTimestamp' = candidate.timestamp

\* commit_next_timestamp
CommitNextTimestamp ==
    /\ nextExact' = IF /\ nextExact # None
                       /\ candidate.exactGeneration = nextExact.generation
                    THEN None ELSE nextExact
    /\ offset' = IF candidate.nextOffset # None /\ SameReset
                 THEN candidate.nextOffset + (offset - candidate.preparedOffset)
                 ELSE offset
    /\ timeIncrease' = IF SameReset
                       THEN SatSub(timeIncrease, candidate.timeIncrease)
                       ELSE timeIncrease
    /\ lastTimestamp' = IF SameReset THEN candidate.timestamp
                        ELSE lastTimestamp

\* The block is finalized, becomes the head, and the mutex is released.
Commit(m) ==
    /\ pc[m] = "prepared"
    /\ CommitNextTimestamp
    /\ chain' = Append(chain, [timestamp |-> candidate.timestamp,
                               synced |-> candidate.synced,
                               strict |-> candidate.strict])
    /\ headSynced' = SameReset
    /\ latestUsed' = (latestUsed \/ candidate.exactGeneration = nextOverrideGeneration)
    /\ mining' = None
    /\ candidate' = None
    /\ pc' = [pc EXCEPT ![m] = "idle"]
    /\ increase' = [increase EXCEPT ![m] = None]
    /\ UNCHANGED <<clock, offsetResetGeneration, interval,
                   nextOverrideGeneration, snapshots>>

(* Building the block fails: the candidate is dropped with no change to    *)
(* the clock and the mutex is released.  A temporary increase is reverted  *)
(* later, in a step of its own.                                            *)
Fail(m) ==
    /\ pc[m] = "prepared"
    /\ mining' = None
    /\ candidate' = None
    /\ pc' = [pc EXCEPT ![m] = IF increase[m] = None THEN "idle" ELSE "revert"]
    /\ UNCHANGED <<clock, offset, timeIncrease, offsetResetGeneration,
                   lastTimestamp, interval, overrideVars,
                   chainVars, increase, headSynced>>

\* revert_time_increase
RevertIncrease(m) ==
    /\ pc[m] = "revert"
    /\ IF increase[m].offsetResetGeneration = offsetResetGeneration
       THEN /\ offset' = offset - increase[m].seconds
            /\ timeIncrease' = SatSub(timeIncrease, increase[m].seconds)
       ELSE UNCHANGED <<offset, timeIncrease>>
    /\ pc' = [pc EXCEPT ![m] = "idle"]
    /\ increase' = [increase EXCEPT ![m] = None]
    /\ UNCHANGED <<clock, offsetResetGeneration, lastTimestamp,
                   interval, overrideVars, chainVars,
                   mining, candidate, headSynced>>

----------------------------------------------------------------------------
(* Operations that hold the mining mutex and install another head.         *)

\* anvil_reset
Reset(ts) ==
    /\ mining = None
    /\ ResetTimestamp(ts, ts - clock, None, 0)
    /\ chain' = <<GenesisBlock(ts)>>
    /\ snapshots' = << >>
    /\ headSynced' = TRUE
    /\ UNCHANGED <<clock, interval, mining, candidate, requestVars>>

\* anvil_rollback to height h (and the first half of anvil_reorg)
Rollback(h) ==
    /\ mining = None
    /\ h \in 1..Len(chain)
    /\ ResetTimestamp(chain[h].timestamp, chain[h].timestamp - clock,
                      None, 0)
    /\ chain' = SubSeq(chain, 1, h)
    /\ headSynced' = TRUE
    /\ UNCHANGED <<clock, interval, snapshots, mining, candidate, requestVars>>

\* evm_snapshot
CreateSnapshot ==
    /\ mining = None
    /\ Len(snapshots) < MaxSnapshots
    /\ snapshots' = Append(snapshots,
          [offset |-> offset,
           lastTimestamp |-> lastTimestamp,
           nextBlockTimestamp |-> IF nextExact = None THEN None
                                  ELSE nextExact.timestamp,
           timeIncrease |-> timeIncrease,
           chain |-> chain,
           headSynced |-> headSynced])
    /\ UNCHANGED <<clock, offset, timeIncrease, offsetResetGeneration,
                   lastTimestamp, interval, overrideVars,
                   chain, mining, candidate, requestVars, headSynced>>

(* evm_revert: the snapshot's head must still be a canonical block, else   *)
(* the request fails with no change.  The snapshot and the later ones go.  *)
RevertSnapshot(id) ==
    /\ mining = None
    /\ id \in 1..Len(snapshots)
    /\ Len(snapshots[id].chain) <= Len(chain)
    /\ SubSeq(chain, 1, Len(snapshots[id].chain)) = snapshots[id].chain
    /\ ResetTimestamp(snapshots[id].lastTimestamp, snapshots[id].offset,
                      snapshots[id].nextBlockTimestamp,
                      snapshots[id].timeIncrease)
    /\ chain' = snapshots[id].chain
    /\ snapshots' = SubSeq(snapshots, 1, id - 1)
    /\ headSynced' = snapshots[id].headSynced
    /\ UNCHANGED <<clock, interval, mining, candidate, requestVars>>

----------------------------------------------------------------------------
TimeRpc ==
    \/ \E s \in Increments : IncreaseTime(s)
    \/ \E ts \in Timestamps : SetTime(ts) \/ SetNextBlockTimestamp(ts)
    \/ \E i \in Increments \cup {None} : SetInterval(i)

MineStep(m) ==
    \/ \E s \in Increments \cup {None} : BeginMine(m, s)
    \/ Prepare(m)
    \/ Commit(m)
    \/ Fail(m)
    \/ RevertIncrease(m)

HeadRpc ==
    \/ \E ts \in Timestamps : Reset(ts)
    \/ \E h \in 1..MaxBlocks : Rollback(h)
    \/ CreateSnapshot
    \/ \E id \in 1..MaxSnapshots : RevertSnapshot(id)

Next == Tick \/ TimeRpc \/ (\E m \in Miners : MineStep(m)) \/ HeadRpc

Spec == Init /\ [][Next]_vars

----------------------------------------------------------------------------
(* Types. *)
TypeOK ==
    /\ clock \in 0..MaxClock
    /\ offset \in Int
    /\ timeIncrease \in U64
    /\ offsetResetGeneration \in Nat
    /\ lastTimestamp \in U64
    /\ nextExact \in Override \cup {None}
    /\ interval \in U64 \cup {None}
    /\ nextOverrideGeneration \in Nat
    /\ chain \in Seq(Block) /\ Len(chain) > 0
    /\ snapshots \in Seq(Snapshot)
    /\ mining \in Miners \cup {None}
    /\ candidate \in Pending \cup {None}
    /\ pc \in [Miners -> {"idle", "waiting", "prepared", "revert"}]
    /\ increase \in [Miners -> TimeIncrease \cup {None}]
    /\ headSynced \in BOOLEAN
    /\ latestUsed \in BOOLEAN

(* As long as nobody called evm_setTime since the head was installed, the  *)
(* clock's last_timestamp is the head block's timestamp, whatever mixture  *)
(* of mining, failures, resets, rollbacks and snapshot restores installed  *)
(* it: the block header and the time manager are two copies of one value.  *)
HeadTimestampTracked == headSynced => lastTimestamp = HeadBlock.timestamp

(* No block is older than its parent when last_timestamp was the parent's  *)
(* at the time it was prepared, and on the default path it is younger      *)
(* (until the clock saturates at u64::MAX).  evm_setTime, a stepped host   *)
(* clock or an override accepted while a candidate is in flight must not   *)
(* get past the clamp of compute_next_timestamp.                           *)
ChainOrdered ==
    \A i \in 2..Len(chain) :
        chain[i].synced =>
            /\ chain[i].timestamp >= chain[i-1].timestamp
            /\ \/ chain[i].timestamp > chain[i-1].timestamp
               \/ chain[i].timestamp = MaxU64
               \/ ~chain[i].strict

(* An accepted evm_setNextBlockTimestamp (or the override a snapshot       *)
(* restores) is used by exactly one block: it stays pending until a block  *)
(* that read it is committed or a newer request replaces it, a failed      *)
(* candidate does not consume it, and the commit of a candidate prepared   *)
(* before it does not throw it away.                                       *)
OverrideExactlyOnce == (nextExact = None) <=> latestUsed

(* The clock of the chain only moves back when an absolute reset says so:  *)
(* a candidate that a reset overtook cannot drag last_timestamp anywhere.  *)
LastTimestampMonotone ==
    [][lastTimestamp' < lastTimestamp
          => offsetResetGeneration' # offsetResetGeneration]_vars

(* On a Base chain the schedule's minimum keeps every block at or after    *)
(* its parent, even after evm_setTime moved the clock back.                *)
BaseChainOrdered ==
    Base => \A i \in 2..Len(chain) :
                chain[i].timestamp >= chain[i-1].timestamp

(* "Sets the exact timestamp to use in the next block. Fails if it's       *)
(* before the last timestamp." (time.rs:174): the candidate that consumes  *)
(* an accepted override has exactly the requested timestamp.               *)
NextTimestampHonoured ==
    (candidate # None /\ nextExact # None) =>
        (candidate.exactGeneration = nextExact.generation
            => candidate.timestamp = nextExact.timestamp)
=============================================================================
