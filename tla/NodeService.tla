---------------------------- MODULE NodeService ----------------------------
(***************************************************************************)
(* Block production in anvil: the NodeService task (service.rs), the Miner *)
(* that decides when a block is due (eth/miner.rs), the BlockProducer's    *)
(* blocking mining task, manual mining, and the RPCs that submit and drop  *)
(* transactions, switch the mining mode and pause mining.                  *)
(*                                                                         *)
(* The service runs only when it is woken.  It selects work while no       *)
(* mining task is in flight; the task takes the mining mutex later, and    *)
(* checks then whether its candidate is still wanted.  The transaction     *)
(* pool is reduced to the sets of ready and waiting transactions, and what *)
(* executing a block does with each transaction is arbitrary.              *)
(***************************************************************************)
EXTENDS Integers, FiniteSets

CONSTANTS
    Txs,             \* transactions; each one is submitted at most once
    MaxTransactions, \* transactions per automatically mined block
    ListenerBuffer,  \* TX_LISTENER_BUFFER_SIZE of the ready listener
    CoalesceWindow,  \* TRUE when --transaction-coalescing-window is not 0
    InitialModes,    \* mining modes the node may be started with
    MaxGeneration    \* bound on the miner's generation counter

Modes == {"none", "auto", "fixed", "mixed"}

ASSUME MiningAssumption ==
    /\ IsFiniteSet(Txs)
    /\ MaxTransactions \in Nat  \* 0 is accepted: no automatic blocks
    /\ ListenerBuffer \in Nat /\ ListenerBuffer > 0
    /\ CoalesceWindow \in BOOLEAN
    /\ InitialModes \subseteq Modes
    /\ MaxGeneration \in Nat

VARIABLES
    miner,       \* MiningMode: mode, has_pending_txs, coalesce, next_tick
    channel,     \* notifications in the miner's ready listener
    generation,  \* Miner::generation
    pauseEpoch,  \* Miner::pause_epoch, odd while paused
    woken,       \* the service task is scheduled to be polled
    registered,  \* the service's waker is registered with the miner
    task,        \* the BlockProducer's mining task
    lock,        \* holder of the mining mutex
    ready,       \* the pool's ready transactions
    waiting,     \* the pool's pending (not ready) transactions
    submitted,   \* every transaction submitted so far
    unnotified,  \* a ready transaction is in the pool, listeners not told yet
    renotify,    \* a delayed re-notification (not-yet-valid) is under way
    manualTxs,   \* transactions of the manual block being mined
    pausing,     \* a pause request waits for the mining mutex
    quiet,       \* history: a pause request has returned, no resume since
    gaveUp,      \* history: the last block failed or left the pool as it was
    autoWanted   \* history: the last request was to mine each transaction

minerVars == <<miner, channel, generation, pauseEpoch>>
wakeVars == <<woken, registered>>
poolVars == <<ready, waiting, submitted, unnotified, renotify>>
vars == <<minerVars, wakeVars, task, lock, poolVars, manualTxs, pausing,
          quiet, gaveUp, autoWanted>>

IsAuto(m) == m.mode \in {"auto", "mixed"}
IsFixed(m) == m.mode \in {"fixed", "mixed"}
IsPaused == pauseEpoch % 2 = 1

Minimum(a, b) == IF a <= b THEN a ELSE b

NewMode(mode) == [mode |-> mode, hasPending |-> "unknown",
                  coalesce |-> "none", tickDue |-> FALSE]

NoTask == [state |-> "none", selected |-> 0, generation |-> 0,
           pauseEpoch |-> 0, txs |-> {}, result |-> "none"]

Init ==
    /\ miner \in {NewMode(mode) : mode \in InitialModes}
    /\ channel = 0
    /\ generation = 0
    /\ pauseEpoch = 0
    /\ woken = TRUE
    /\ registered = FALSE
    /\ task = NoTask
    /\ lock = "free"
    /\ ready = {} /\ waiting = {} /\ submitted = {}
    /\ unnotified = FALSE
    /\ renotify = FALSE
    /\ manualTxs = {}
    /\ pausing = FALSE
    /\ quiet = FALSE
    /\ gaveUp = FALSE
    /\ autoWanted = IsAuto(miner)

----------------------------------------------------------------------------
(* Waking the service: a registered waker fires once. *)
Wake ==
    /\ woken' = (woken \/ registered)
    /\ registered' = FALSE

(* notify_listener: a full channel drops the notification.  In a mode      *)
(* without a listener nobody receives it.                                  *)
Notify ==
    /\ channel' = IF IsAuto(miner) THEN Minimum(channel + 1, ListenerBuffer)
                  ELSE channel
    /\ IF IsAuto(miner) THEN Wake ELSE UNCHANGED wakeVars

----------------------------------------------------------------------------
(* The pool's RPCs. *)

(* eth_sendTransaction: the mining mutex is held from the validation until *)
(* the listeners have been told.                                           *)
SubmitTx(t) ==
    /\ lock = "free"
    /\ t \notin submitted
    /\ lock' = "submit"
    /\ submitted' = submitted \cup {t}
    /\ \/ /\ ready' = ready \cup {t}
          /\ unnotified' = TRUE
          /\ gaveUp' = FALSE
          /\ UNCHANGED waiting
       \/ /\ waiting' = waiting \cup {t}
          /\ UNCHANGED <<ready, unnotified, gaveUp>>
    /\ UNCHANGED <<minerVars, wakeVars, task, renotify, manualTxs, pausing,
                   quiet, autoWanted>>

FinishSubmit ==
    /\ lock = "submit"
    /\ lock' = "free"
    /\ unnotified' = FALSE
    /\ IF unnotified THEN Notify ELSE UNCHANGED <<channel, wakeVars>>
    /\ UNCHANGED <<miner, generation, pauseEpoch, task, ready, waiting,
                   submitted, renotify, manualTxs, pausing, quiet, gaveUp,
                   autoWanted>>

(* anvil_dropTransaction, anvil_removePoolTransactions and                 *)
(* anvil_dropAllTransactions take no part in the mining mutex.             *)
DropTxs(S) ==
    /\ S # {} /\ S \subseteq ready \cup waiting
    /\ ready' = ready \ S
    /\ waiting' = waiting \ S
    /\ UNCHANGED <<minerVars, wakeVars, task, lock, submitted, unnotified,
                   renotify, manualTxs, pausing, quiet, gaveUp, autoWanted>>

\* The task of on_mined_block that sleeps a second, then notifies again.
Renotify ==
    /\ renotify
    /\ renotify' = FALSE
    /\ Notify
    /\ UNCHANGED <<miner, generation, pauseEpoch, task, lock, ready, waiting,
                   submitted, unnotified, manualTxs, pausing, quiet, gaveUp,
                   autoWanted>>

----------------------------------------------------------------------------
\* Slip: the miner is marked for a retry, but nobody wakes the service.
WrongMinedBlock(S, automatic) ==
    \E gone \in SUBSET S, early \in SUBSET S, promoted \in SUBSET waiting :
        /\ gone \cap early = {}
        /\ promoted # {} => gone # {}
        /\ ready' = (ready \ gone) \cup promoted
        /\ waiting' = waiting \ promoted
        /\ renotify' = (renotify \/ early # {})
        /\ miner' = IF gone # {} /\ early = {} /\ ready' # {} /\ IsAuto(miner)
                    THEN [miner EXCEPT !.hasPending = "yes"] ELSE miner
        /\ channel' = IF promoted # {} /\ IsAuto(miner)
                      THEN Minimum(channel + 1, ListenerBuffer) ELSE channel
        /\ woken' = (woken \/ automatic)
        /\ gaveUp' = IF gone \cup early = {} THEN gaveUp \/ (automatic /\ S # {})
                     ELSE FALSE
        /\ UNCHANGED <<submitted, unnotified, registered>>

(* Executing a block over S and handing the outcome to the pool            *)
(* (on_mined_block): `gone` were included, stale or invalid, `early` are   *)
(* not yet valid, the others were left behind; pruning promotes            *)
(* `promoted`.  If the block made progress and left ready transactions     *)
(* behind, the instant miner is told to select again.  The end of the      *)
(* automatic mining task wakes the service.                                *)
MinedBlock(S, automatic) ==
    \E gone \in SUBSET S, early \in SUBSET S, promoted \in SUBSET waiting :
        /\ gone \cap early = {}
        /\ promoted # {} => gone # {}
        /\ ready' = (ready \ gone) \cup promoted
        /\ waiting' = waiting \ promoted
        /\ renotify' = (renotify \/ early # {})
        /\ LET retry == gone # {} /\ early = {} /\ ready' # {} /\ IsAuto(miner)
               notify == promoted # {} /\ IsAuto(miner)
           IN  /\ miner' = IF retry THEN [miner EXCEPT !.hasPending = "yes"]
                           ELSE miner
               /\ channel' = IF notify THEN Minimum(channel + 1, ListenerBuffer)
                             ELSE channel
               /\ woken' = \/ woken \/ automatic
                           \/ registered /\ (retry \/ notify)
               /\ registered' = (registered /\ ~retry /\ ~notify)
        /\ gaveUp' = IF gone \cup early = {} THEN gaveUp \/ (automatic /\ S # {})
                     ELSE FALSE
        /\ UNCHANGED <<submitted, unnotified>>

\* evm_mine, anvil_mine: every ready transaction, under the mutex.
ManualLock ==
    /\ lock = "free"
    /\ lock' = "manual"
    /\ manualTxs' = ready
    /\ UNCHANGED <<minerVars, wakeVars, task, poolVars, pausing, quiet, gaveUp,
                   autoWanted>>

ManualMine ==
    /\ lock = "manual"
    /\ MinedBlock(manualTxs, FALSE)
    /\ lock' = "free"
    /\ manualTxs' = {}
    /\ UNCHANGED <<generation, pauseEpoch, task, pausing, quiet, autoWanted>>

ManualFail ==
    /\ lock = "manual"
    /\ lock' = "free"
    /\ manualTxs' = {}
    /\ UNCHANGED <<minerVars, wakeVars, task, poolVars, pausing, quiet, gaveUp,
                   autoWanted>>

----------------------------------------------------------------------------
(* The BlockProducer's blocking task. *)

\* Mining was paused, or paused and resumed, since the candidate was selected.
IsStale == pauseEpoch # task.pauseEpoch

(* The task gets the mutex.  A stale candidate, or one whose transactions  *)
(* have all left the pool, is skipped; otherwise the transactions are      *)
(* selected again.                                                         *)
TaskLock ==
    /\ task.state = "waiting"
    /\ lock = "free"
    /\ \E S \in SUBSET ready :
          /\ Cardinality(S) = Minimum(task.selected, Cardinality(ready))
          /\ IF IsStale \/ (task.selected > 0 /\ S = {})
             THEN /\ task' = [task EXCEPT !.state = "done",
                                          !.result = "skipped"]
                  /\ woken' = TRUE
                  /\ UNCHANGED lock
             ELSE /\ task' = [task EXCEPT !.state = "mining", !.txs = S]
                  /\ lock' = "task"
                  /\ UNCHANGED woken
    /\ UNCHANGED <<minerVars, registered, poolVars, manualTxs, pausing, quiet,
                   gaveUp, autoWanted>>

TaskMine ==
    /\ task.state = "mining"
    /\ MinedBlock(task.txs, TRUE)
    /\ task' = [task EXCEPT !.state = "done", !.result = "mined", !.txs = {}]
    /\ lock' = "free"
    /\ UNCHANGED <<generation, pauseEpoch, manualTxs, pausing, quiet,
                   autoWanted>>

TaskFail ==
    /\ task.state = "mining"
    /\ task' = [task EXCEPT !.state = "done", !.result = "failed", !.txs = {}]
    /\ lock' = "free"
    /\ woken' = TRUE
    /\ gaveUp' = TRUE
    /\ UNCHANGED <<minerVars, registered, poolVars, manualTxs, pausing, quiet,
                   autoWanted>>

----------------------------------------------------------------------------
(* The service. *)

\* handle_failed_candidate, for a candidate of generation g
HandleFailedCandidate(m, g) ==
    IF generation # g
    THEN IF IsAuto(m) THEN [m EXCEPT !.hasPending = "yes", !.coalesce = "none"]
         ELSE m
    ELSE [m EXCEPT !.coalesce = "none", !.tickDue = FALSE]

\* ReadyTransactionMiner::poll_notifications
Drained(m) ==
    IF IsAuto(m) /\ channel > 0 THEN [m EXCEPT !.hasPending = "yes"] ELSE m

\* A fresh notification arms the coalescing timer.
Armed(m) ==
    IF IsAuto(m) /\ channel > 0 /\ m.coalesce = "none" /\ CoalesceWindow
    THEN [Drained(m) EXCEPT !.coalesce = "running"]
    ELSE Drained(m)

\* ReadyTransactionMiner::poll gets as far as selecting.
AutoSelects(m) == IsAuto(m) /\ m.hasPending # "no" /\ m.coalesce # "running"

\* FixedBlockTimeMiner::poll finds its tick due.
TickSelects(m) == IsFixed(m) /\ m.tickDue

\* What MiningMode::poll leaves behind in the mode.
AfterSelect(m) ==
    LET a == IF AutoSelects(m)
             THEN [m EXCEPT !.hasPending = "no", !.coalesce = "none"] ELSE m
    IN  IF TickSelects(m) THEN [a EXCEPT !.tickDue = FALSE] ELSE a

Selected(m) ==
    IF TickSelects(m) THEN Cardinality(ready)
    ELSE Minimum(MaxTransactions, Cardinality(ready))

\* A tick always yields a block; the instant miner needs a transaction.
YieldsWork(m) == TickSelects(m) \/ (AutoSelects(m) /\ Selected(m) > 0)

(* NodeService::poll.  While the task runs nothing is selected.  Otherwise *)
(* its result is taken in, the miner is polled, and work it returns is     *)
(* queued and spawned at once.                                             *)
ServicePoll ==
    /\ woken
    /\ woken' = FALSE
    /\ IF task.state \in {"waiting", "mining"}
       THEN UNCHANGED <<minerVars, registered, task>>
       ELSE LET m == IF task.result = "failed"
                     THEN HandleFailedCandidate(miner, task.generation)
                     ELSE miner
            IN  /\ registered' = TRUE
                /\ channel' = IF IsAuto(m) THEN 0 ELSE channel
                /\ IF IsPaused
                   THEN miner' = Drained(m) /\ task' = NoTask
                   ELSE /\ miner' = AfterSelect(Armed(m))
                        /\ task' = IF YieldsWork(Armed(m))
                                   THEN [NoTask EXCEPT
                                           !.state = "waiting",
                                           !.selected = Selected(Armed(m)),
                                           !.generation = generation,
                                           !.pauseEpoch = pauseEpoch]
                                   ELSE NoTask
                /\ UNCHANGED <<generation, pauseEpoch>>
    /\ UNCHANGED <<lock, poolVars, manualTxs, pausing, quiet, gaveUp,
                   autoWanted>>

\* Slip: the timer's waker is not registered.
WrongIntervalTick ==
    /\ IsFixed(miner) /\ ~miner.tickDue
    /\ miner' = [miner EXCEPT !.tickDue = TRUE]
    /\ UNCHANGED <<wakeVars, channel, generation, pauseEpoch, task, lock,
                   poolVars, manualTxs, pausing, quiet, gaveUp, autoWanted>>

\* The block-time tick comes due, whether or not mining is paused.
IntervalTick ==
    /\ IsFixed(miner) /\ ~miner.tickDue
    /\ miner' = [miner EXCEPT !.tickDue = TRUE]
    /\ Wake
    /\ UNCHANGED <<channel, generation, pauseEpoch, task, lock, poolVars,
                   manualTxs, pausing, quiet, gaveUp, autoWanted>>

CoalesceElapsed ==
    /\ miner.coalesce = "running"
    /\ miner' = [miner EXCEPT !.coalesce = "elapsed"]
    /\ Wake
    /\ UNCHANGED <<channel, generation, pauseEpoch, task, lock, poolVars,
                   manualTxs, pausing, quiet, gaveUp, autoWanted>>

----------------------------------------------------------------------------
(* The mining-mode RPCs. *)

\* Slip: the mode is replaced without waking the service.
WrongSetMiningMode(mode) ==
    /\ generation < MaxGeneration
    /\ miner' = NewMode(mode)
    /\ channel' = 0
    /\ generation' = generation + 1
    /\ UNCHANGED <<pauseEpoch, wakeVars>>

\* set_mining_mode; the old mode's listener goes away with it.
SetMiningMode(mode) ==
    /\ generation < MaxGeneration
    /\ miner' = NewMode(mode)
    /\ channel' = 0
    /\ generation' = generation + 1
    /\ Wake
    /\ UNCHANGED pauseEpoch

\* evm_setAutomine
SetAutoMine(enable) ==
    /\ autoWanted' = enable
    /\ CASE miner.mode = "auto" /\ ~enable -> SetMiningMode("none")
         [] miner.mode # "auto" /\ enable -> SetMiningMode("auto")
         [] OTHER -> UNCHANGED <<minerVars, wakeVars>>
    /\ UNCHANGED <<task, lock, poolVars, manualTxs, pausing, quiet, gaveUp>>

\* evm_setIntervalMining; an interval of 0 turns mining off.
SetIntervalMining(on) ==
    /\ SetMiningMode(IF on THEN "fixed" ELSE "none")
    /\ autoWanted' = FALSE
    /\ UNCHANGED <<task, lock, poolVars, manualTxs, pausing, quiet, gaveUp>>

\* Slip: only the ticks are skipped, a skipped candidate is not selected again.
WrongResumed(m) == IF IsFixed(m) THEN [m EXCEPT !.tickDue = FALSE] ELSE m

\* MiningMode::resume
Resumed(m) ==
    LET a == IF IsAuto(m) THEN [m EXCEPT !.hasPending = "yes"] ELSE m
    IN  IF IsFixed(m) THEN [a EXCEPT !.tickDue = FALSE] ELSE a

(* anvil_setMiningPaused, first half: flip the state and wake the service. *)
(* A request to pause then waits for the mining mutex.                     *)
SetPaused(paused) ==
    /\ IF paused # IsPaused
       THEN /\ generation < MaxGeneration
            /\ miner' = IF paused THEN miner ELSE Resumed(miner)
            /\ generation' = generation + 1
            /\ pauseEpoch' = pauseEpoch + 1
       ELSE UNCHANGED <<miner, generation, pauseEpoch>>
    /\ Wake
    /\ pausing' = (pausing \/ paused)
    /\ quiet' = (quiet /\ paused)
    /\ UNCHANGED <<channel, task, lock, poolVars, manualTxs, gaveUp, autoWanted>>

\* Slip: the request returns without waiting for the block being mined.
WrongPauseReturns ==
    /\ pausing
    /\ pausing' = FALSE
    /\ quiet' = IsPaused
    /\ UNCHANGED <<minerVars, wakeVars, task, lock, poolVars, manualTxs, gaveUp,
                   autoWanted>>

\* Second half: the mutex was free for a moment, and the request returns.
PauseReturns ==
    /\ pausing
    /\ lock = "free"
    /\ pausing' = FALSE
    /\ quiet' = IsPaused
    /\ UNCHANGED <<minerVars, wakeVars, task, lock, poolVars, manualTxs, gaveUp,
                   autoWanted>>

----------------------------------------------------------------------------
PoolStep ==
    \/ \E t \in Txs : SubmitTx(t)
    \/ FinishSubmit
    \/ \E S \in SUBSET Txs : DropTxs(S)
    \/ Renotify

ManualStep == ManualLock \/ ManualMine \/ ManualFail

TaskStep == TaskLock \/ TaskMine \/ TaskFail

ModeStep ==
    \/ \E b \in BOOLEAN : SetAutoMine(b) \/ SetIntervalMining(b) \/ SetPaused(b)
    \/ PauseReturns

Next ==
    \/ PoolStep \/ ManualStep \/ TaskStep \/ ModeStep
    \/ ServicePoll \/ IntervalTick \/ CoalesceElapsed

Spec == Init /\ [][Next]_vars

(* The runtime polls a woken task, runs spawned tasks and timers, and the  *)
(* mutex is fair: whoever holds it finishes, and a waiting mining task     *)
(* gets it (tokio's mutex is FIFO).  Nobody has to call an RPC.            *)
Fairness ==
    /\ WF_vars(ServicePoll)
    /\ SF_vars(TaskLock)
    /\ WF_vars(TaskMine \/ TaskFail)
    /\ WF_vars(ManualMine \/ ManualFail)
    /\ WF_vars(FinishSubmit)
    /\ WF_vars(Renotify)
    /\ WF_vars(CoalesceElapsed)

FairSpec == Spec /\ Fairness

----------------------------------------------------------------------------
TypeOK ==
    /\ miner \in [mode : Modes, hasPending : {"unknown", "yes", "no"},
                  coalesce : {"none", "running", "elapsed"}, tickDue : BOOLEAN]
    /\ channel \in 0..ListenerBuffer
    /\ generation \in Nat
    /\ pauseEpoch \in Nat
    /\ woken \in BOOLEAN /\ registered \in BOOLEAN
    /\ task \in [state : {"none", "waiting", "mining", "done"},
                 selected : Nat, generation : Nat, pauseEpoch : Nat,
                 txs : SUBSET Txs,
                 result : {"none", "mined", "skipped", "failed"}]
    /\ lock \in {"free", "submit", "manual", "task"}
    /\ ready \subseteq Txs /\ waiting \subseteq Txs /\ submitted \subseteq Txs
    /\ unnotified \in BOOLEAN /\ renotify \in BOOLEAN
    /\ manualTxs \subseteq Txs
    /\ pausing \in BOOLEAN /\ quiet \in BOOLEAN /\ gaveUp \in BOOLEAN
    /\ autoWanted \in BOOLEAN

(* "Once this returns with `paused` set, no automatic block is mined until *)
(* mining resumes" (anvil_setMiningPaused): the mining task never holds    *)
(* the mutex to build a block after a pause request has returned, although *)
(* its candidate may have been selected, and even have passed its own      *)
(* check, while mining was on.                                             *)
PauseHonoured == quiet => task.state # "mining"

(* No lost wake-up.  While instant mining is on, ready transactions always *)
(* have somebody who will look at them: the miner is due to select, a      *)
(* notification is queued or about to be, a block is in flight, a          *)
(* re-notification is pending, or the last block failed or could not use   *)
(* them.                                                                   *)
NoLostWakeup ==
    (IsAuto(miner) /\ ~IsPaused /\ ready # {} /\ ~gaveUp) =>
        \/ miner.hasPending # "no"
        \/ channel > 0
        \/ unnotified
        \/ task.state # "none"
        \/ renotify

(* A due selection is never forgotten by a sleeping service: when there is *)
(* work the service could take up now, it is scheduled or its waker waits  *)
(* on an event that is still to come.                                      *)
SleepsOnlyWhenIdle ==
    (~woken /\ ~IsPaused /\ task.state \notin {"waiting", "mining"}) =>
        /\ task.state = "none"
        /\ registered
        /\ ~TickSelects(miner)
        /\ IsAuto(miner) => channel = 0
        /\ ~(AutoSelects(miner) /\ ready # {})

(* Under FairSpec, instant mining does not leave ready transactions lying: *)
(* again and again there are none, an automatic block is being built, the  *)
(* last one could not use them, or mining is off or paused.                *)
AutoMineProgress ==
    []<>(\/ ready = {} \/ task.state = "mining" \/ gaveUp
         \/ ~IsAuto(miner) \/ IsPaused)

(* Under FairSpec, a block-time tick that is due is taken up, unless it is *)
(* paused away or another mode replaces it.                                *)
TickTakenUp == (IsFixed(miner) /\ miner.tickDue) ~> (~miner.tickDue \/ IsPaused)

(* "Enables or disables, based on the single boolean argument, the         *)
(* automatic mining of new blocks with each new transaction submitted to   *)
(* the network." (api.rs:304, evm_setAutomine)                             *)
AutoMineDisabled == ~autoWanted => ~IsAuto(miner)
=============================================================================
