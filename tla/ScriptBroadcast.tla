--------------------------- MODULE ScriptBroadcast ---------------------------
(***************************************************************************)
(* `forge script --broadcast` and `--resume` (crates/script/src): a script *)
(* has left a list of transactions, the operations, for one chain; they    *)
(* are signed, or handed to a node or a wallet that signs them, sent, and  *)
(* followed to their receipts.  The process may die anywhere, a write of   *)
(* its plan may fail half way, a response may be lost, the endpoint may    *)
(* forget a transaction: --resume picks up the plan from the disk.         *)
(*                                                                         *)
(* A transaction is an operation and a version: signing again, or asking a *)
(* wallet again, makes another transaction.  The node is external.  Every  *)
(* fault takes one of MaxFaults.                                           *)
(***************************************************************************)
EXTENDS Integers, FiniteSets, FiniteSetsExt

CONSTANTS
    NumOps,    \* length of the script
    Senders,   \* addresses the script may broadcast from
    MaxFaults  \* bound on the faults

ASSUME ScriptAssumption == NumOps \in Nat \ {0} /\ MaxFaults \in Nat

VARIABLES
    script,  \* per operation its sender; senders whose key is not here
    node,    \* per transaction, what has become of it
    disk,    \* the recovery snapshot and the uncommitted one, each at most one
    plan,    \* the plan in memory
    pc,      \* where the process is
    wait,    \* a wait_for_pending under way
    queue,   \* operations still to take up, and whether one at a time
    flight,  \* per operation of the current batch, how far it is
    report,  \* what the last broadcast said
    faults   \* how many faults there were

process == <<plan, pc, wait, queue, flight>>
vars == <<script, node, disk, process, report, faults>>

Ops == 1 .. NumOps
Versions == 1 .. 2
Tx == Ops \X Versions
OpOf(t) == t[1]

Sender(o) == script.sender[o]
Delegated(o) == Sender(o) \in script.delegated

\* The nonce a transaction was planned with, counted from the script's first.
Nonce(o) == Cardinality({e \in Ops : e < o /\ Sender(e) = Sender(o)})

----------------------------------------------------------------------------
(* The plan: RecoveryPlan and the ScriptSequence it holds. *)

\* A submission attempt: SignedPayload, or Delegated with its DelegatedStatus.
Attempt == {<<"none", 0>>, <<"prepared", 0>>, <<"unknown", 0>>} \cup
           ({"signed", "pending"} \X Versions)

Plan == [attempt : [Ops -> Attempt], hash : [Ops -> {0} \cup Versions],
         pending : SUBSET Tx, receipts : SUBSET Tx]

NewPlan == [attempt |-> [o \in Ops |-> <<"none", 0>>],
            hash |-> [o \in Ops |-> 0], pending |-> {}, receipts |-> {}]

Kind(p, o) == p.attempt[o][1]
With(p, o, attempt) == [p EXCEPT !.attempt[o] = attempt]

AddPending(p, t) ==
    IF t \in p.pending THEN p
    ELSE [p EXCEPT !.hash[OpOf(t)] = t[2], !.pending = @ \cup {t}]

RemovePending(p, t) == [p EXCEPT !.pending = @ \ {t}]

\* The transaction that stands for the operation; version 0 when there is none.
Identity(p, o) ==
    <<o, IF Kind(p, o) \in {"signed", "pending"} THEN p.attempt[o][2] ELSE p.hash[o]>>

IsOperationCompleted(p, o) == Identity(p, o) \in p.receipts

RemainingOperations(p) == {o \in Ops : ~IsOperationCompleted(p, o)}

\* A signed payload can be sent again; a delegated submission cannot.
Replayable(p, t) == p.attempt[OpOf(t)] = <<"signed", t[2]>>

\* An earlier transaction of its sender has neither a receipt nor a pending hash.
BlockedPending(p) ==
    {t \in p.pending : \E e \in Ops :
        /\ e < OpOf(t) /\ Sender(e) = Sender(OpOf(t))
        /\ <<e, p.hash[e]>> \notin p.pending \cup p.receipts}

DelegatedOutcomesKnown(p) ==
    \A o \in Ops : Kind(p, o) = "pending" =>
        Identity(p, o) \in p.pending \cup p.receipts

ShouldBroadcastSequentially(p, slow) ==
    LET remaining == RemainingOperations(p)
        required == {o \in remaining : Kind(p, o) # "signed"}
    IN  \/ slow
        \/ required = {}
        \/ Cardinality({Sender(o) : o \in remaining}) # 1
        \/ \E o \in required : Delegated(o)

----------------------------------------------------------------------------
(* The node: a transaction is unsent, on its way, known, mined or reverted, *)
(* or gone from every pool.                                                 *)

Visible(t) == node[t] \in {"known", "mined", "reverted"}
HasReceipt(t) == node[t] \in {"mined", "reverted"}
Submitted(t) == node[t] # "unsent"

AccountNonce(sender) ==
    Cardinality({t \in Tx : Sender(OpOf(t)) = sender /\ HasReceipt(t)})

\* Another signature, or another answer of the wallet, is another transaction.
FreshVersion(o) == Min({v \in Versions : ~Submitted(<<o, v>>)} \cup {2})
LatestVersion(o) == Max({v \in Versions : Submitted(<<o, v>>)})

Fault == faults < MaxFaults /\ faults' = faults + 1
NoFault == faults' = faults

Arrive(t) ==
    /\ node[t] = "network"
    /\ node' = [node EXCEPT ![t] = "known"]
    /\ NoFault

\* Forgotten by the endpoint, or by everyone.
Forget(t) ==
    /\ node[t] \in {"network", "known"}
    /\ \E s \in {"network", "gone"} \ {node[t]} : node' = [node EXCEPT ![t] = s]
    /\ Fault

Mine(t) ==
    /\ node[t] = "known"
    /\ AccountNonce(Sender(OpOf(t))) = Nonce(OpOf(t))
    /\ \/ node' = [node EXCEPT ![t] = "mined"] /\ NoFault
       \/ node' = [node EXCEPT ![t] = "reverted"] /\ Fault

NodeStep ==
    /\ \E t \in Tx : Arrive(t) \/ Forget(t) \/ Mine(t)
    /\ UNCHANGED <<script, disk, process, report>>

----------------------------------------------------------------------------
(* Writing the plan: to the pending path, then renamed over the snapshot. *)

Committed(p) == [main |-> {p}, pending |-> {}]

\* What a write_snapshot that fails, or dies, can leave.
Interrupted(p) == {disk, [disk EXCEPT !.pending = {p}], Committed(p)}

Loadable == IF disk.pending # {} THEN disk.pending ELSE disk.main

NoWait == [todo |-> {}, once |-> {}, stopped |-> FALSE, failed |-> FALSE,
           back |-> "plan"]
NoQueue == [ops |-> {}, seq |-> TRUE]
NoFlight == [o \in Ops |-> "idle"]

Idle == wait' = NoWait /\ queue' = NoQueue /\ flight' = NoFlight

\* An error returns; dropping the sequence will save the plan.
Exit(p) == plan' = p /\ pc' = "closing" /\ Idle

\* The process is gone, and with it the plan in memory and the lock.
Gone == plan' = NewPlan /\ pc' = "off" /\ Idle

\* Fails, or dies, while it writes p; on an error memory keeps q.
WriteFails(p, q) == Fault /\ disk' \in Interrupted(p) /\ (Exit(q) \/ Gone)

Writes(p) == NoFault /\ disk' = Committed(p) /\ plan' = p

Quiet == UNCHANGED <<script, node, report>>

Create ==
    /\ pc = "off" /\ Loadable = {}
    /\ \/ Writes(NewPlan) /\ pc' = "wait" /\ Idle
       \/ Fault /\ disk' \in Interrupted(NewPlan) /\ Gone
    /\ Quiet

Load ==
    /\ pc = "off" /\ Loadable # {}
    /\ \E p \in Loadable :
          \/ disk' = Committed(p) /\ plan' = p /\ pc' = "restore" /\ Idle /\ NoFault
          \/ disk.pending # {} /\ disk' \in {disk, Committed(p)} /\ Gone /\ Fault
    /\ Quiet

\* Drop for ScriptSequenceKind.
Close ==
    /\ pc = "closing"
    /\ Gone
    /\ \/ disk' = Committed(plan) /\ NoFault
       \/ disk' \in Interrupted(plan) /\ Fault
    /\ Quiet

Crash ==
    /\ pc # "off"
    /\ Gone /\ Fault
    /\ UNCHANGED disk /\ Quiet

----------------------------------------------------------------------------
(* wait_for_pending: hashes are polled concurrently; once one is dropped,  *)
(* and for those that cannot be mined yet, each is looked up once instead. *)

BeginWait(p, back) ==
    /\ pc' = "wait"
    /\ wait' = [todo |-> p.pending, once |-> BlockedPending(p),
                stopped |-> FALSE, failed |-> FALSE, back |-> back]

\* Slip: a reverted transaction leaves a receipt like any other.
WrongOnRevert(p, t) ==
    [RemovePending(p, t) EXCEPT !.receipts = @ \cup {t}]

OnRevert(p, t) == RemovePending(p, t)

\* Slip: what is no longer visible stays pending, signed or not.
WrongOnDropped(p, t) == [plan |-> p, failed |-> TRUE]

OnDropped(p, t) ==
    IF Replayable(p, t) THEN [plan |-> RemovePending(p, t), failed |-> FALSE]
    ELSE [plan |-> p, failed |-> TRUE]

Settle(t) ==
    /\ wait' = [wait EXCEPT !.todo = @ \ {t},
                            !.stopped = @ \/ ~Visible(t),
                            !.failed = @ \/ node[t] = "reverted"
                                         \/ (~Visible(t) /\ OnDropped(plan, t).failed)]
    /\ plan' = IF node[t] = "mined"
               THEN [RemovePending(plan, t) EXCEPT !.receipts = @ \cup {t}]
               ELSE IF node[t] = "reverted" THEN OnRevert(plan, t)
               ELSE OnDropped(plan, t).plan

\* check_tx_status waits while the node knows the transaction.
Poll(t) ==
    /\ ~wait.stopped /\ t \in wait.todo \ wait.once
    /\ \/ node[t] # "known" /\ Settle(t) /\ NoFault
       \/ /\ wait' = [wait EXCEPT !.todo = @ \ {t}, !.failed = TRUE]
          /\ Fault /\ UNCHANGED plan

CheckOnce(t) ==
    /\ wait.stopped \/ wait.todo \subseteq wait.once
    /\ t \in wait.todo /\ \A u \in wait.todo : OpOf(t) <= OpOf(u)
    /\ \/ node[t] # "known" /\ Settle(t) /\ NoFault
       \/ /\ wait' = [wait EXCEPT !.todo = @ \ {t}]
          /\ IF node[t] = "known" THEN NoFault ELSE Fault
          /\ UNCHANGED plan

WaitForPending ==
    /\ pc = "wait"
    /\ \E t \in wait.todo : Poll(t) \/ CheckOnce(t)
    /\ UNCHANGED <<script, node, disk, pc, queue, flight, report>>

\* All that is still polled is known to the node, behind a nonce that no node
\* has: check_tx_status waits as long as the node knows the transaction.
Hung ==
    /\ pc = "wait" /\ ~wait.stopped /\ wait.todo \ wait.once # {}
    /\ \A t \in wait.todo \ wait.once :
          /\ node[t] = "known"
          /\ \E e \in Ops : /\ e < OpOf(t) /\ Sender(e) = Sender(OpOf(t))
                            /\ \A v \in Versions : node[<<e, v>>] \in {"unsent", "gone"}

\* The operator stops a run that would wait for ever.
Interrupt ==
    /\ Hung
    /\ Gone
    /\ UNCHANGED disk /\ NoFault /\ Quiet

Continue(back) ==
    /\ UNCHANGED <<queue, flight>>
    /\ IF back = "bundled" THEN BeginWait(plan, "plan")
       ELSE pc' = back /\ wait' = NoWait

\* On errors the plan is saved as the sequence is dropped.
Waited ==
    /\ pc = "wait" /\ wait.todo = {}
    /\ IF wait.failed \/ (wait.back # "plan" /\ ~DelegatedOutcomesKnown(plan))
       THEN Exit(plan) /\ NoFault /\ UNCHANGED disk
       ELSE (Writes(plan) /\ Continue(wait.back)) \/ WriteFails(plan, plan)
    /\ Quiet

----------------------------------------------------------------------------
(* --resume: restore_delegated_pending, then what was mined unnoticed. *)

Unresolved == {o \in Ops : Kind(plan, o) = "unknown"}
Restoring == pc = "restore" /\ \A o \in Ops : Kind(plan, o) # "prepared"

\* Slip: a request without a hash counts as one that was never sent.
WrongInterruptedAttempt == <<"none", 0>>

InterruptedAttempt == <<"unknown", 0>>

MarkUnknown(o) ==
    /\ pc = "restore" /\ Kind(plan, o) = "prepared"
    /\ LET p == With(plan, o, InterruptedAttempt)
       IN  \/ Writes(p) /\ UNCHANGED <<pc, wait, queue, flight>>
           \/ WriteFails(p, plan)
    /\ Quiet

\* Delegated submissions of ops whose hash is recorded are followed again.
RestorePending(p, ops) ==
    LET hashes == {Identity(p, o) : o \in {o \in ops : Kind(p, o) = "pending"}}
                  \ p.receipts
    IN  [p EXCEPT !.pending = @ \cup hashes,
                  !.hash = [o \in Ops |-> IF Identity(p, o) \in hashes
                                          THEN Identity(p, o)[2] ELSE @[o]]]

Restored(p) ==
    /\ plan' = RestorePending(p, Ops)
    /\ pc' = "reconcile" /\ wait' = NoWait /\ flight' = NoFlight
    /\ queue' = [NoQueue EXCEPT !.ops = Ops]

\* An attempt with an unknown outcome ends the run, after those before it.
Restore ==
    /\ Restoring
    /\ \/ Unresolved = {} /\ Restored(plan)
       \/ /\ Unresolved # {}
          /\ Exit(RestorePending(plan, {o \in Ops : o < Min(Unresolved)}))
    /\ UNCHANGED disk /\ NoFault /\ Quiet

\* --resume-retry, "only after proving it was not submitted".
ResumeRetry(o) ==
    /\ Restoring /\ Unresolved = {o}
    /\ \A v \in Versions : ~Submitted(<<o, v>>)
    /\ LET p == With(plan, o, <<"none", 0>>)
       IN  \/ NoFault /\ disk' = Committed(p) /\ Restored(p)
           \/ WriteFails(p, plan)
    /\ Quiet

\* --resume-tx-hash: the endpoint must show the transaction.
ResumeTxHash(o) ==
    /\ Restoring /\ Unresolved = {o}
    /\ \E v \in Versions :
          /\ Visible(<<o, v>>)
          /\ LET q == RestorePending(plan, Ops)
                 p == With(q, o, <<"pending", v>>)
             IN  \/ NoFault /\ disk' = Committed(p) /\ Restored(p)
                 \/ WriteFails(p, q)
    /\ Quiet

\* A signed payload whose hash was not recorded is looked up.
LookedUp(o) ==
    /\ Kind(plan, o) = "signed"
    /\ Identity(plan, o) \notin plan.pending \cup plan.receipts

Reconcile ==
    /\ pc = "reconcile" /\ queue.ops # {}
    /\ LET o == Min(queue.ops)
           t == Identity(plan, o)
       IN  \/ /\ plan' = IF LookedUp(o) /\ HasReceipt(t) THEN AddPending(plan, t) ELSE plan
              /\ queue' = [queue EXCEPT !.ops = @ \ {o}]
              /\ UNCHANGED <<pc, wait, flight>> /\ NoFault
           \/ LookedUp(o) /\ Exit(plan) /\ Fault
    /\ UNCHANGED disk /\ Quiet

\* With nothing pending the first of the two waits is left out.
Reconciled ==
    /\ pc = "reconcile" /\ queue.ops = {}
    /\ BeginWait(plan, IF plan.pending = {} THEN "plan" ELSE "bundled")
    /\ UNCHANGED <<disk, plan, queue, flight>> /\ NoFault /\ Quiet

----------------------------------------------------------------------------
(* broadcast. *)

PlanBatches ==
    /\ pc = "plan"
    /\ pc' = "batch"
    /\ \E slow \in BOOLEAN :
          queue' = [ops |-> RemainingOperations(plan),
                    seq |-> ShouldBroadcastSequentially(plan, slow)]
    /\ UNCHANGED <<disk, plan, wait, flight>> /\ NoFault /\ Quiet

NextBatch ==
    /\ pc = "batch" /\ queue.ops # {}
    /\ pc' = "send"
    /\ LET batch == IF queue.seq THEN {Min(queue.ops)} ELSE queue.ops
       IN  /\ flight' = [o \in Ops |-> IF o \in batch THEN "todo" ELSE "idle"]
           /\ queue' = [queue EXCEPT !.ops = @ \ batch]
    /\ UNCHANGED <<disk, plan, wait>> /\ NoFault /\ Quiet

Advance(o, status) ==
    flight' = [flight EXCEPT ![o] = status] /\ UNCHANGED <<pc, wait, queue>>

\* A payload that is there already is sent as it is.
MustSyncNonce(o) == queue.seq /\ Kind(plan, o) # "signed"

Sign(o) == With(plan, o, <<"signed", FreshVersion(o)>>)

Prepare(o) ==
    /\ pc = "send" /\ flight[o] = "todo"
    /\ \A e \in Ops : flight[e] = "todo" => o <= e
    /\ \/ /\ IsOperationCompleted(plan, o)
          /\ Advance(o, "idle") /\ NoFault /\ UNCHANGED <<disk, plan>>
       \/ /\ ~IsOperationCompleted(plan, o) /\ MustSyncNonce(o)
          /\ AccountNonce(Sender(o)) # Nonce(o)  \* behind: after five attempts
          /\ Exit(plan) /\ NoFault /\ UNCHANGED disk
       \/ /\ ~IsOperationCompleted(plan, o)
          /\ MustSyncNonce(o) => AccountNonce(Sender(o)) = Nonce(o)
          /\ IF Delegated(o) \/ Kind(plan, o) = "signed"
             THEN Advance(o, "ready") /\ NoFault /\ UNCHANGED <<disk, plan>>
             ELSE \/ Writes(Sign(o)) /\ Advance(o, "ready")
                  \/ WriteFails(Sign(o), plan)
    /\ Quiet

Sending(o, status) ==
    pc = "send" /\ flight[o] = status /\ \A e \in Ops : flight[e] # "todo"

\* persist_delegated_request: an attempt is never replaced.
Request(o) ==
    /\ Sending(o, "ready") /\ Delegated(o)
    /\ IF Kind(plan, o) # "none"
       THEN Exit(plan) /\ NoFault /\ UNCHANGED disk
       ELSE LET p == With(plan, o, <<"prepared", 0>>)
            IN  (Writes(p) /\ Advance(o, "requested")) \/ WriteFails(p, plan)
    /\ Quiet

\* A signed payload is sent up to five times, a request once.  The answer may
\* be lost with the transaction sent or not, or say that it was not sent.
Send(o) ==
    /\ Sending(o, IF Delegated(o) THEN "requested" ELSE "ready")
    /\ LET v == IF Delegated(o) THEN FreshVersion(o) ELSE Identity(plan, o)[2]
           sent == [node EXCEPT ![<<o, v>>] = IF @ \in {"unsent", "gone"}
                                              THEN "network" ELSE @]
       IN  \/ node' = sent /\ Advance(o, "ok") /\ NoFault
           \/ node' \in {node, sent} /\ Advance(o, "lost") /\ Fault
           \/ Delegated(o) /\ node' = node /\ Advance(o, "refused") /\ Fault
    /\ UNCHANGED <<script, disk, plan, report>>

\* A delegated submission fails: cleared when it was certainly not made.
SubmissionFails(o) ==
    /\ pc = "send" /\ Delegated(o) /\ flight[o] \in {"lost", "refused"}
    /\ LET p == With(plan, o, IF flight[o] = "refused" THEN <<"none", 0>>
                                                       ELSE <<"unknown", 0>>)
       IN  (NoFault /\ disk' = Committed(p) /\ Exit(p)) \/ WriteFails(p, plan)
    /\ Quiet

\* The hash of a delegated submission is recorded before it is followed.
Record(o) ==
    /\ pc = "send" /\ Delegated(o) /\ flight[o] = "ok"
    /\ LET p == With(plan, o, <<"pending", LatestVersion(o)>>)
       IN  (Writes(p) /\ Advance(o, "recorded")) \/ WriteFails(p, plan)
    /\ Quiet

\* A signed payload counts as sent when its hash is visible, whatever came back.
Accepted(o) ==
    IF Delegated(o) THEN flight[o] = "recorded"
    ELSE flight[o] = "ok" \/ (flight[o] = "lost" /\ Visible(Identity(plan, o)))

Checkpoint(o) ==
    /\ pc = "send" /\ Accepted(o)
    /\ LET p == AddPending(plan, Identity(plan, o))
       IN  (Writes(p) /\ Advance(o, "idle")) \/ WriteFails(p, p)
    /\ Quiet

GiveUp(o) ==
    /\ pc = "send" /\ ~Delegated(o) /\ flight[o] = "lost"
    /\ ~Visible(Identity(plan, o))
    /\ Exit(plan)
    /\ UNCHANGED disk /\ NoFault /\ Quiet

BatchSent ==
    /\ pc = "send" /\ flight = NoFlight
    /\ \/ Writes(plan) /\ BeginWait(plan, "batch") /\ UNCHANGED <<queue, flight>>
       \/ WriteFails(plan, plan)
    /\ Quiet

Finish ==
    /\ pc = "batch" /\ queue.ops = {}
    /\ report' = IF \E o \in RemainingOperations(plan) : plan.hash[o] # 0
                 THEN "incomplete" ELSE "complete"
    /\ Exit(plan)
    /\ UNCHANGED <<script, node, disk>> /\ NoFault

----------------------------------------------------------------------------
Init ==
    /\ script \in [sender : [Ops -> Senders], delegated : SUBSET Senders]
    /\ node = [t \in Tx |-> "unsent"]
    /\ disk = [main |-> {}, pending |-> {}]
    /\ plan = NewPlan
    /\ pc = "off"
    /\ wait = NoWait /\ queue = NoQueue /\ flight = NoFlight
    /\ report = "none"
    /\ faults = 0

Operator == Interrupt \/ \E o \in Ops : ResumeRetry(o) \/ ResumeTxHash(o)

Broadcast ==
    \/ PlanBatches \/ NextBatch \/ BatchSent \/ Finish
    \/ \E o \in Ops : \/ Prepare(o) \/ Request(o) \/ Send(o) \/ Record(o)
                      \/ SubmissionFails(o) \/ Checkpoint(o) \/ GiveUp(o)

Resume == Restore \/ Reconcile \/ Reconciled \/ \E o \in Ops : MarkUnknown(o)

Process == Create \/ Load \/ Close \/ Resume \/ WaitForPending \/ Waited \/ Broadcast

Next == Process \/ Operator \/ Crash \/ NodeStep

Spec == Init /\ [][Next]_vars

\* The process runs on while it is alive and is started again when it is not;
\* a transaction on its way arrives, and one that can be mined is mined; the
\* operator answers in one of the runs in which the answer can be had, and
\* stops a run that hangs.
FairSpec ==
    /\ Spec
    /\ WF_vars(Process)
    /\ SF_vars(Operator)
    /\ \A t \in Tx :
          /\ WF_vars(Arrive(t) /\ UNCHANGED <<script, disk, process, report>>)
          /\ WF_vars(Mine(t) /\ UNCHANGED <<script, disk, process, report>>)

----------------------------------------------------------------------------
TypeOK ==
    /\ script \in [sender : [Ops -> Senders], delegated : SUBSET Senders]
    /\ node \in [Tx -> {"unsent", "network", "known", "mined", "reverted", "gone"}]
    /\ \A files \in {disk.main, disk.pending} :
          files \subseteq Plan /\ Cardinality(files) <= 1
    /\ plan \in Plan
    /\ pc \in {"off", "restore", "reconcile", "wait", "plan", "batch", "send",
               "closing"}
    /\ wait \in [todo : SUBSET Tx, once : SUBSET Tx, stopped : BOOLEAN,
                 failed : BOOLEAN, back : {"bundled", "plan", "batch"}]
    /\ queue \in [ops : SUBSET Ops, seq : BOOLEAN]
    /\ flight \in [Ops -> {"idle", "todo", "ready", "requested", "ok", "lost",
                           "refused", "recorded"}]
    /\ report \in {"none", "incomplete", "complete"}
    /\ faults \in 0 .. MaxFaults

\* However the process dies, whatever write fails and whatever answer is lost,
\* no operation is submitted as two different transactions: signed payloads
\* are kept before they are sent and delegated requests before they are made
\* (recovery.rs persist_attempt), and an attempt is never replaced.
NoDoubleSubmission ==
    \A o \in Ops : Cardinality({v \in Versions : Submitted(<<o, v>>)}) <= 1

\* "ONCHAIN EXECUTION COMPLETE & SUCCESSFUL" (broadcast.rs) is said only when
\* every operation of the script was mined and did not revert.
CompleteMeansMined ==
    report = "complete" =>
        \A o \in Ops : \E v \in Versions : node[<<o, v>>] = "mined"

\* A transaction whose fate resuming cannot mend: it reverted, or it was the
\* wallet's and every node has forgotten it.
Hopeless ==
    \E t \in Tx : node[t] = "reverted" \/ (node[t] = "gone" /\ Delegated(OpOf(t)))

\* Resuming again and again completes the script, whatever faults there were:
\* no plan is left on disk from which --resume fails for ever.
EventuallyComplete == <>(report = "complete" \/ Hopeless)

\* No run waits for a transaction that cannot be mined before an earlier one
\* is sent again (progress.rs wait_for_pending, Dropped and blocked_hashes).
WaitsCanEnd == ~Hung

\* An operation is submitted only after the earlier operations of other
\* senders were mined (broadcast.rs, before should_broadcast_sequentially).
InOrder ==
    [][\A t \in Tx : node[t] = "unsent" /\ node'[t] # "unsent" =>
          \A e \in Ops : e < OpOf(t) /\ Sender(e) # Sender(OpOf(t)) =>
              \E v \in Versions : node[<<e, v>>] = "mined"]_vars

=============================================================================
