------------------------ MODULE ScriptBroadcastProofs ------------------------
(***************************************************************************)
(* Proofs about ScriptBroadcast: for scripts of any length, any number of  *)
(* senders and of faults, no operation is submitted as two transactions    *)
(* and a script is not called complete before it is mined.                 *)
(***************************************************************************)
EXTENDS ScriptBroadcast, FiniteSetTheorems, WellFoundedInduction, TLAPS

Statuses == {"unsent", "network", "known", "mined", "reverted", "gone"}
Flights == {"idle", "todo", "ready", "requested", "ok", "lost", "refused",
            "recorded"}
Waiting == [todo : SUBSET Tx, once : SUBSET Tx, stopped : BOOLEAN,
            failed : BOOLEAN, back : {"bundled", "plan", "batch"}]
Queue == [ops : SUBSET Ops, seq : BOOLEAN]
Script == [sender : [Ops -> Senders], delegated : SUBSET Senders]
Places == {"off", "restore", "reconcile", "wait", "plan", "batch", "send",
           "closing"}

----------------------------------------------------------------------------
(* The inductive invariant *)

\* An operation signed elsewhere has no signed payload, one signed here no
\* delegated request.
Own(p) ==
    \A o \in Ops : IF Delegated(o) THEN Kind(p, o) # "signed"
                                   ELSE Kind(p, o) \in {"none", "signed"}

\* What holds of every plan, in memory or on disk, outdated ones included.
PlanOK(p) ==
    /\ p \in Plan
    /\ Own(p)
    /\ \A t \in p.pending : p.hash[OpOf(t)] # 0
    /\ \A t \in p.receipts : node[t] = "mined"

\* Whatever was submitted for an operation, the plan tells of it.
Covers(p) ==
    \A o \in Ops, v \in Versions : Submitted(<<o, v>>) =>
        p.attempt[o] \in {<<"prepared", 0>>, <<"unknown", 0>>,
                          <<"signed", v>>, <<"pending", v>>}

Unsubmitted(o) == \A v \in Versions : ~Submitted(<<o, v>>)

Single ==
    \A o \in Ops : \A v, w \in Versions :
        Submitted(<<o, v>>) /\ Submitted(<<o, w>>) => v = w

Running == pc \notin {"off", "closing"}

\* The plan is on disk before anything is sent: what a crash leaves to load
\* has the attempts of the plan in memory.
WriteAhead ==
    /\ pc # "off" => Covers(plan)
    /\ \A q \in Loadable : Covers(q)
    /\ Loadable = {} => pc = "off" /\ \A o \in Ops : Unsubmitted(o)
    /\ Running => disk.pending = {} /\ \A q \in disk.main : q.attempt = plan.attempt

\* What is known of an operation by how far its submission is.
FlightOK(o) ==
    /\ ~Delegated(o) /\ flight[o] \in {"ready", "ok", "lost"}
         => Kind(plan, o) = "signed"
    /\ Delegated(o) /\ flight[o] \in {"requested", "refused"}
         => plan.attempt[o] = <<"prepared", 0>> /\ Unsubmitted(o)
    /\ Delegated(o) /\ flight[o] = "ok" => ~Unsubmitted(o)
    /\ Delegated(o) /\ flight[o] = "recorded" => Kind(plan, o) = "pending"

Flying == IF pc = "send" THEN \A o \in Ops : FlightOK(o) ELSE flight = NoFlight

Done(p, o) == IsOperationCompleted(p, o) \/ p.hash[o] # 0

\* No operation is forgotten by the batches.
Batching ==
    pc \in {"batch", "send"} \/ (pc = "wait" /\ wait.back = "batch") =>
        \A o \in Ops : o \in queue.ops \/ flight[o] # "idle" \/ Done(plan, o)

Typed ==
    /\ script \in Script
    /\ node \in [Tx -> Statuses]
    /\ disk \in [main : SUBSET Plan, pending : SUBSET Plan]
    /\ pc \in Places
    /\ wait \in Waiting
    /\ queue \in Queue
    /\ flight \in [Ops -> Flights]
    /\ report \in {"none", "incomplete", "complete"}
    /\ faults \in 0 .. MaxFaults
    /\ \A files \in {disk.main, disk.pending} : \A p, q \in files : p = q

PlansOK == PlanOK(plan) /\ \A q \in disk.main \cup disk.pending : PlanOK(q)

ScriptInv ==
    /\ Typed /\ PlansOK /\ Single /\ WriteAhead /\ Flying /\ Batching
    /\ CompleteMeansMined

----------------------------------------------------------------------------
(* Operations on a plan *)

LEMMA PlanFields ==
    ASSUME NEW p \in Plan
    PROVE  /\ p.attempt \in [Ops -> Attempt]
           /\ p.hash \in [Ops -> {0} \cup Versions]
           /\ p.pending \subseteq Tx /\ p.receipts \subseteq Tx
           /\ \A o \in Ops : p.attempt[o] \in Attempt
BY DEF Plan

LEMMA AttemptKinds ==
    ASSUME NEW a \in Attempt
    PROVE  \/ a \in {<<"none", 0>>, <<"prepared", 0>>, <<"unknown", 0>>}
           \/ a[1] \in {"signed", "pending"} /\ a[2] \in Versions /\ a = <<a[1], a[2]>>
BY DEF Attempt

LEMMA AttemptsOf ==
    /\ <<"none", 0>> \in Attempt /\ <<"prepared", 0>> \in Attempt
    /\ <<"unknown", 0>> \in Attempt
    /\ \A v \in Versions : <<"signed", v>> \in Attempt /\ <<"pending", v>> \in Attempt
BY DEF Attempt

LEMMA NewPlanOK ==
    /\ NewPlan \in Plan /\ PlanOK(NewPlan)
    /\ \A o \in Ops : NewPlan.attempt[o] = <<"none", 0>>
<1>1. NewPlan \in Plan
  BY AttemptsOf DEF NewPlan, Plan
<1> QED
  BY <1>1 DEF PlanOK, NewPlan, Own, Kind

LEMMA WithFields ==
    ASSUME NEW p \in Plan, NEW o \in Ops, NEW a \in Attempt
    PROVE  LET q == With(p, o, a)
           IN  /\ q \in Plan
               /\ q.hash = p.hash /\ q.pending = p.pending /\ q.receipts = p.receipts
               /\ q.attempt[o] = a
               /\ \A e \in Ops \ {o} : q.attempt[e] = p.attempt[e]
BY DEF With, Plan

LEMMA WithOK ==
    ASSUME NEW p, PlanOK(p), NEW o \in Ops, NEW a \in Attempt,
           IF Delegated(o) THEN a[1] # "signed" ELSE a[1] \in {"none", "signed"}
    PROVE  PlanOK(With(p, o, a))
<1> DEFINE q == With(p, o, a)
<1>1. /\ q \in Plan /\ p \in Plan
      /\ q.hash = p.hash /\ q.pending = p.pending /\ q.receipts = p.receipts
      /\ q.attempt[o] = a /\ \A e \in Ops \ {o} : q.attempt[e] = p.attempt[e]
  BY WithFields DEF PlanOK
<1> HIDE DEF q
<1>2. Own(q)
  BY <1>1 DEF PlanOK, Own, Kind
<1>3. PlanOK(q)
  BY <1>1, <1>2 DEF PlanOK
<1> QED
  BY <1>3 DEF q

LEMMA WithCovers ==
    ASSUME NEW p \in Plan, Covers(p), NEW o \in Ops, NEW a \in Attempt,
           \A v \in Versions : Submitted(<<o, v>>) =>
              a \in {<<"prepared", 0>>, <<"unknown", 0>>, <<"signed", v>>, <<"pending", v>>}
    PROVE  Covers(With(p, o, a))
<1> DEFINE q == With(p, o, a)
<1>1. q.attempt[o] = a /\ \A e \in Ops \ {o} : q.attempt[e] = p.attempt[e]
  BY WithFields
<1> HIDE DEF q
<1>2. Covers(q)
  BY <1>1 DEF Covers
<1> QED
  BY <1>2 DEF q

LEMMA AddPendingOK ==
    ASSUME NEW p, PlanOK(p), NEW t \in Tx
    PROVE  LET q == AddPending(p, t)
           IN  /\ PlanOK(q)
               /\ q.attempt = p.attempt /\ q.receipts = p.receipts
               /\ q.hash[OpOf(t)] # 0
               /\ \A e \in Ops : p.hash[e] # 0 => q.hash[e] # 0
               /\ \A e \in Ops \ {OpOf(t)} : q.hash[e] = p.hash[e]
<1>1. OpOf(t) \in Ops /\ t[2] \in Versions /\ t[2] # 0
  BY DEF Tx, OpOf, Versions
<1>2. CASE t \in p.pending
  BY <1>2 DEF AddPending, PlanOK
<1>3. CASE t \notin p.pending
  <2> DEFINE q == AddPending(p, t)
  <2>1. q = [p EXCEPT !.hash[OpOf(t)] = t[2], !.pending = @ \cup {t}]
    BY <1>3 DEF AddPending
  <2>2. /\ q \in Plan /\ q.attempt = p.attempt /\ q.receipts = p.receipts
        /\ q.pending = p.pending \cup {t}
        /\ q.hash[OpOf(t)] # 0
        /\ \A e \in Ops : p.hash[e] # 0 => q.hash[e] # 0
        /\ \A e \in Ops \ {OpOf(t)} : q.hash[e] = p.hash[e]
    <3> DEFINE h == [p.hash EXCEPT ![OpOf(t)] = t[2]]
    <3>1. p \in Plan /\ p.pending \subseteq Tx /\ p.hash \in [Ops -> {0} \cup Versions]
      BY PlanFields DEF PlanOK
    <3>2. /\ h \in [Ops -> {0} \cup Versions] /\ h[OpOf(t)] = t[2]
          /\ \A e \in Ops \ {OpOf(t)} : h[e] = p.hash[e]
      BY <1>1, <3>1
    <3>3. q = [p EXCEPT !.hash = h, !.pending = p.pending \cup {t}]
      BY <2>1
    <3>4. p.pending \cup {t} \subseteq Tx
      BY <3>1
    <3> HIDE DEF h
    <3>5. /\ q \in Plan /\ q.attempt = p.attempt /\ q.receipts = p.receipts
          /\ q.pending = p.pending \cup {t} /\ q.hash = h
      BY <3>1, <3>2, <3>3, <3>4 DEF Plan
    <3> QED
      BY <1>1, <3>2, <3>5
  <2>3. \A u \in q.pending : OpOf(u) \in Ops
    BY <2>2 DEF Plan, Tx, OpOf
  <2>4. PlanOK(q)
    BY <2>2, <2>3 DEF PlanOK, Own, Kind
  <2> QED
    BY <2>2, <2>4
<1> QED
  BY <1>2, <1>3

\* Taking a transaction from the pending ones, with a receipt or without.
LEMMA RemovePendingOK ==
    ASSUME NEW p, PlanOK(p), NEW t \in Tx
    PROVE  LET q == RemovePending(p, t)
               r == [q EXCEPT !.receipts = @ \cup {t}]
           IN  /\ PlanOK(q)
               /\ q.attempt = p.attempt /\ q.hash = p.hash /\ q.receipts = p.receipts
               /\ node[t] = "mined" => PlanOK(r)
               /\ r.attempt = p.attempt /\ r.hash = p.hash
               /\ r.receipts = p.receipts \cup {t}
<1> DEFINE q == RemovePending(p, t)
           r == [q EXCEPT !.receipts = @ \cup {t}]
<1>1. /\ q \in Plan /\ q.attempt = p.attempt /\ q.hash = p.hash
      /\ q.receipts = p.receipts /\ q.pending = p.pending \ {t}
  BY DEF RemovePending, PlanOK, Plan
<1>2. PlanOK(q)
  BY <1>1 DEF PlanOK, Own, Kind
<1>3. /\ r \in Plan /\ r.attempt = p.attempt /\ r.hash = p.hash
      /\ r.receipts = p.receipts \cup {t} /\ r.pending = p.pending \ {t}
  BY <1>1 DEF Plan
<1>4. node[t] = "mined" => PlanOK(r)
  BY <1>3 DEF PlanOK, Own, Kind
<1> QED
  BY <1>1, <1>2, <1>3, <1>4

LEMMA IdentityType ==
    ASSUME NEW p \in Plan, NEW o \in Ops
    PROVE  /\ Identity(p, o)[1] = o /\ OpOf(Identity(p, o)) = o
           /\ Kind(p, o) \in {"signed", "pending"} => Identity(p, o) \in Tx
           /\ Kind(p, o) \in {"signed", "pending"} => Identity(p, o)[2] = p.attempt[o][2]
           /\ Identity(p, o) \in p.receipts => Identity(p, o) \in Tx
BY PlanFields, AttemptKinds DEF Identity, Kind, Tx, OpOf

LEMMA RestorePendingOK ==
    ASSUME NEW p, PlanOK(p), NEW ops \in SUBSET Ops
    PROVE  /\ PlanOK(RestorePending(p, ops))
           /\ RestorePending(p, ops).attempt = p.attempt
<1> DEFINE hashes == {Identity(p, o) : o \in {o \in ops : Kind(p, o) = "pending"}}
                       \ p.receipts
           h == [o \in Ops |-> IF Identity(p, o) \in hashes
                               THEN Identity(p, o)[2] ELSE p.hash[o]]
           q == [p EXCEPT !.pending = p.pending \cup hashes, !.hash = h]
<1>0. p \in Plan
  BY DEF PlanOK
<1>1. \A t \in hashes : /\ t \in Tx /\ OpOf(t) \in Ops /\ t = Identity(p, OpOf(t))
                        /\ t[2] \in Versions /\ t[2] # 0
  BY <1>0, IdentityType DEF Tx, OpOf, Versions
<1>2. h \in [Ops -> {0} \cup Versions]
  BY <1>0, <1>1, PlanFields
<1>3. hashes \subseteq Tx
  BY <1>1
<1> HIDE DEF hashes, h
<1>4. /\ q \in Plan /\ q.attempt = p.attempt /\ q.receipts = p.receipts
      /\ q.hash = h /\ q.pending = p.pending \cup hashes
  BY <1>0, <1>2, <1>3 DEF Plan
<1>5. \A t \in q.pending : q.hash[OpOf(t)] # 0
  <2> SUFFICES ASSUME NEW t \in q.pending PROVE h[OpOf(t)] # 0
    BY <1>4
  <2>1. OpOf(t) \in Ops
    BY <1>4 DEF Plan, Tx, OpOf
  <2>2. CASE t \in hashes
    BY <1>1, <2>1, <2>2 DEF h
  <2>3. CASE t \notin hashes
    <3>1. p.hash[OpOf(t)] # 0
      BY <1>4, <2>3 DEF PlanOK
    <3> QED
      BY <1>1, <2>1, <3>1 DEF h
  <2> QED
    BY <2>2, <2>3
<1>6. PlanOK(q)
  BY <1>4, <1>5 DEF PlanOK, Own, Kind
<1>7. RestorePending(p, ops) = q
  BY DEF RestorePending, hashes, h
<1> QED
  BY <1>4, <1>6, <1>7

----------------------------------------------------------------------------
(* Kinds of steps *)

LEMMA IdleTypes == NoWait \in Waiting /\ NoQueue \in Queue /\ NoFlight \in [Ops -> Flights]
<1>1. \A o \in Ops : NoFlight[o] = "idle"
  BY DEF NoFlight
<1> QED
  BY DEF NoWait, NoQueue, NoFlight, Waiting, Queue, Flights

LEMMA FaultTypes ==
    ASSUME Typed, Fault \/ NoFault
    PROVE  faults' \in 0 .. MaxFaults
BY ScriptAssumption DEF Typed, Fault, NoFault

LEMMA CommittedFields ==
    ASSUME NEW p
    PROVE  Committed(p).main = {p} /\ Committed(p).pending = {}
BY DEF Committed

\* With the node as it was, plans and what they cover are as they were.
LEMMA SameNode ==
    ASSUME UNCHANGED <<script, node>>
    PROVE  /\ PlansOK' <=> /\ PlanOK(plan')
                           /\ \A q \in disk'.main \cup disk'.pending : PlanOK(q)
           /\ Covers(plan)' <=> Covers(plan')
           /\ (\A q \in Loadable : Covers(q))' <=> \A q \in Loadable' : Covers(q)
           /\ (\A o \in Ops : Unsubmitted(o))' <=> \A o \in Ops : Unsubmitted(o)
           /\ Single' <=> Single
<1>1. \A t : Submitted(t)' <=> Submitted(t)
  BY DEF Submitted
<1>2. \A o : Delegated(o)' <=> Delegated(o)
  BY DEF Delegated, Sender
<1>3. PlansOK' <=> /\ PlanOK(plan')
                   /\ \A q \in disk'.main \cup disk'.pending : PlanOK(q)
  BY <1>2 DEF PlansOK, PlanOK, Own
<1> QED
  BY <1>1, <1>3 DEF Covers, Single, Unsubmitted

\* The process ends, or is about to: what is left on disk covers what was sent.
LEMMA Stopped ==
    ASSUME ScriptInv, UNCHANGED <<script, node>>, Idle,
           pc' \in {"off", "closing"},
           pc' = "closing" => pc # "off" /\ Covers(plan'),
           PlanOK(plan'),
           \/ disk' = disk
           \/ \E p : /\ PlanOK(p) /\ Covers(p)
                     /\ disk' \in {[disk EXCEPT !.pending = {p}], Committed(p)},
           Fault \/ NoFault,
           report' \in {"none", "incomplete", "complete"}, CompleteMeansMined'
    PROVE  ScriptInv'
<1>1. /\ Typed /\ PlansOK /\ Single /\ WriteAhead /\ Flying /\ Batching
      /\ CompleteMeansMined
  BY DEF ScriptInv
<1>2. /\ disk' \in [main : SUBSET Plan, pending : SUBSET Plan]
      /\ \A q \in disk'.main \cup disk'.pending : PlanOK(q)
      /\ \A q \in Loadable' : Covers(q)
      /\ \A files \in {disk'.main, disk'.pending} : \A p, q \in files : p = q
      /\ Loadable' = {} => Loadable = {}
  <2>1. CASE disk' = disk
    BY <1>1, <2>1 DEF Typed, PlansOK, WriteAhead, Loadable
  <2>2. ASSUME NEW p, PlanOK(p), Covers(p), disk' = [disk EXCEPT !.pending = {p}]
        PROVE  <1>2!:
    <3>1. p \in Plan
      BY <2>2 DEF PlanOK
    <3>2. /\ disk'.main = disk.main /\ disk'.pending = {p}
          /\ disk' \in [main : SUBSET Plan, pending : SUBSET Plan]
      BY <1>1, <2>2, <3>1 DEF Typed
    <3> QED
      BY <1>1, <2>2, <3>2 DEF Typed, PlansOK, Loadable
  <2>3. ASSUME NEW p, PlanOK(p), Covers(p), disk' = Committed(p)
        PROVE  <1>2!:
    <3>1. p \in Plan
      BY <2>3 DEF PlanOK
    <3>2. /\ disk'.main = {p} /\ disk'.pending = {}
          /\ disk' \in [main : SUBSET Plan, pending : SUBSET Plan]
      BY <2>3, <3>1 DEF Committed
    <3> QED
      BY <2>3, <3>2 DEF Loadable
  <2> QED
    BY <2>1, <2>2, <2>3
<1>3. Typed'
  BY <1>1, <1>2, IdleTypes, FaultTypes DEF Typed, Idle, Places
<1>4. PlansOK' /\ Single'
  BY <1>1, <1>2, SameNode
<1>5. WriteAhead'
  <2>1. (pc # "off" => Covers(plan))' /\ (\A q \in Loadable : Covers(q))'
    BY <1>2, SameNode
  <2>2. (Loadable = {} => pc = "off" /\ \A o \in Ops : Unsubmitted(o))'
    BY <1>1, <1>2, SameNode DEF WriteAhead
  <2> QED
    BY <2>1, <2>2 DEF WriteAhead, Running
<1>6. Flying' /\ Batching'
  BY DEF Flying, Batching, Idle
<1> QED
  BY <1>3, <1>4, <1>5, <1>6 DEF ScriptInv

\* The process runs on: nothing is written and no attempt changes, or the plan
\* is written.
LEMMA RunsOn ==
    ASSUME ScriptInv, UNCHANGED <<script, node, report>>, Running',
           \/ Running /\ disk' = disk /\ plan'.attempt = plan.attempt
           \/ \E p : /\ disk' = Committed(p) /\ PlanOK(p) /\ Covers(p)
                     /\ plan'.attempt = p.attempt,
           PlanOK(plan'), Fault \/ NoFault,
           pc' \in Places, wait' \in Waiting, queue' \in Queue,
           flight' \in [Ops -> Flights],
           Flying', Batching'
    PROVE  ScriptInv'
<1>1. /\ Typed /\ PlansOK /\ Single /\ WriteAhead /\ CompleteMeansMined
  BY DEF ScriptInv
<1>2. /\ disk' \in [main : SUBSET Plan, pending : SUBSET Plan]
      /\ \A q \in disk'.main \cup disk'.pending : PlanOK(q)
      /\ disk'.pending = {} /\ disk'.main # {}
      /\ \A q \in disk'.main : Covers(q) /\ q.attempt = plan'.attempt
      /\ \A files \in {disk'.main, disk'.pending} : \A p, q \in files : p = q
      /\ Covers(plan')
  <2>1. CASE Running /\ disk' = disk /\ plan'.attempt = plan.attempt
    BY <1>1, <2>1 DEF Typed, PlansOK, WriteAhead, Loadable, Running, Covers
  <2>2. ASSUME NEW p, PlanOK(p), Covers(p), disk' = Committed(p),
               plan'.attempt = p.attempt
        PROVE  <1>2!:
    <3>1. p \in Plan
      BY <2>2 DEF PlanOK
    <3>2. /\ disk'.main = {p} /\ disk'.pending = {}
          /\ disk' \in [main : SUBSET Plan, pending : SUBSET Plan]
      BY <2>2, <3>1 DEF Committed
    <3> QED
      BY <2>2, <3>2 DEF Covers
  <2> QED
    BY <2>1, <2>2
<1>3. Typed'
  BY <1>1, <1>2, FaultTypes DEF Typed
<1>4. PlansOK' /\ Single'
  BY <1>1, <1>2, SameNode
<1>5. WriteAhead'
  BY <1>2, SameNode DEF WriteAhead, Loadable, Running
<1>6. CompleteMeansMined'
  BY <1>1 DEF CompleteMeansMined
<1> QED
  BY <1>3, <1>4, <1>5, <1>6 DEF ScriptInv

\* A write fails, or the process dies in it.
LEMMA WriteFailed ==
    ASSUME ScriptInv, Quiet, pc # "off", NEW p, NEW q,
           PlanOK(p), Covers(p), PlanOK(q), Covers(q), WriteFails(p, q)
    PROVE  ScriptInv'
<1>1. CompleteMeansMined' /\ report' \in {"none", "incomplete", "complete"}
  BY DEF ScriptInv, CompleteMeansMined, Quiet, Typed
<1>2. CASE Exit(q)
  BY <1>1, <1>2, Stopped DEF WriteFails, Exit, Quiet, Interrupted
<1>3. CASE Gone
  BY <1>1, <1>3, Stopped, NewPlanOK DEF WriteFails, Gone, Quiet, Interrupted
<1> QED
  BY <1>2, <1>3 DEF WriteFails

\* An error returns with nothing written, or with the plan written.
LEMMA Exited ==
    ASSUME ScriptInv, Quiet, pc # "off", NEW p, PlanOK(p), Covers(p), Exit(p),
           disk' = disk \/ disk' = Committed(p), Fault \/ NoFault
    PROVE  ScriptInv'
<1>1. CompleteMeansMined' /\ report' \in {"none", "incomplete", "complete"}
  BY DEF ScriptInv, CompleteMeansMined, Quiet, Typed
<1> QED
  BY <1>1, Stopped DEF Exit, Quiet

LEMMA CreateKeeps ==
    ASSUME ScriptInv, Create PROVE ScriptInv'
<1>1. PlanOK(NewPlan) /\ Covers(NewPlan)
  BY NewPlanOK DEF ScriptInv, WriteAhead, Create, Covers, Unsubmitted
<1>2. CASE Writes(NewPlan) /\ pc' = "wait" /\ Idle
  <2>1. Flying' /\ Batching' /\ Running'
    BY <1>2 DEF Flying, Batching, Running, Idle, NoWait
  <2> QED
    BY <1>1, <1>2, <2>1, RunsOn, IdleTypes DEF Create, Quiet, Writes, Idle, Places
<1>3. CASE Fault /\ disk' \in Interrupted(NewPlan) /\ Gone
  <2>1. CompleteMeansMined' /\ report' \in {"none", "incomplete", "complete"}
    BY DEF Create, ScriptInv, CompleteMeansMined, Quiet, Typed
  <2> QED
    BY <1>1, <1>3, <2>1, Stopped DEF Create, Quiet, Gone, Interrupted
<1> QED
  BY <1>2, <1>3 DEF Create

LEMMA LoadKeeps ==
    ASSUME ScriptInv, Load PROVE ScriptInv'
<1>1. PICK p \in Loadable :
         \/ disk' = Committed(p) /\ plan' = p /\ pc' = "restore" /\ Idle /\ NoFault
         \/ disk.pending # {} /\ disk' \in {disk, Committed(p)} /\ Gone /\ Fault
  BY DEF Load
<1>2. PlanOK(p) /\ Covers(p)
  BY DEF ScriptInv, WriteAhead, PlansOK, Loadable
<1>3. CASE disk' = Committed(p) /\ plan' = p /\ pc' = "restore" /\ Idle /\ NoFault
  <2>1. Flying' /\ Batching' /\ Running'
    BY <1>3 DEF Flying, Batching, Running, Idle
  <2> QED
    BY <1>2, <1>3, <2>1, RunsOn, IdleTypes DEF Load, Quiet, Idle, Places
<1>4. CASE disk' \in {disk, Committed(p)} /\ Gone /\ Fault
  <2>1. CompleteMeansMined' /\ report' \in {"none", "incomplete", "complete"}
    BY DEF Load, ScriptInv, CompleteMeansMined, Quiet, Typed
  <2> QED
    BY <1>2, <1>4, <2>1, Stopped, NewPlanOK DEF Load, Quiet, Gone
<1> QED
  BY <1>1, <1>3, <1>4

LEMMA CloseKeeps ==
    ASSUME ScriptInv, Close \/ Crash \/ Interrupt PROVE ScriptInv'
<1>1. /\ CompleteMeansMined' /\ report' \in {"none", "incomplete", "complete"}
      /\ UNCHANGED <<script, node>> /\ Gone /\ (Fault \/ NoFault)
  BY DEF Close, Crash, Interrupt, ScriptInv, CompleteMeansMined, Quiet, Typed
<1>2. CASE Close
  <2>1. PlanOK(plan) /\ Covers(plan)
    BY <1>2 DEF Close, ScriptInv, PlansOK, WriteAhead
  <2> QED
    BY <1>1, <1>2, <2>1, Stopped, NewPlanOK DEF Close, Gone, Interrupted
<1>3. CASE Crash \/ Interrupt
  BY <1>1, <1>3, Stopped, NewPlanOK DEF Crash, Interrupt, Gone
<1> QED
  BY <1>2, <1>3

LEMMA MinIn == ASSUME NEW S, S \subseteq Ops, S # {} PROVE Min(S) \in S
<1> DEFINE R == {ss \in Nat \X Nat : ss[1] < ss[2]}
<1>1. IsWellFoundedOn(R, Nat)
  BY NatLessThanWellFounded DEF OpToRel
<1>2. S \subseteq Nat
  BY DEF Ops
<1>3. \E x \in S : \A y \in S : <<y, x>> \notin R
  <2> HIDE DEF R
  <2> QED
    BY <1>1, <1>2, WFMin
<1>4. PICK x \in S : \A y \in S : <<y, x>> \notin R
  BY <1>3
<1>5. ASSUME NEW y \in S PROVE x <= y
  <2>1. x \in Nat /\ y \in Nat /\ <<y, x>> \notin R
    BY <1>2, <1>4
  <2>2. ~(y < x)
    BY <2>1
  <2> QED
    BY <2>1, <2>2
<1> QED
  BY <1>5 DEF Min

LEMMA FreshVersionType == ASSUME NEW o PROVE FreshVersion(o) \in Versions
<1> DEFINE S == {v \in Versions : ~Submitted(<<o, v>>)} \cup {2}
<1>1. S \subseteq {1, 2} /\ 2 \in S
  BY DEF Versions
<1>2. \E x \in S : \A y \in S : x <= y
  <2>1. CASE 1 \in S
    BY <1>1, <2>1
  <2>2. CASE 1 \notin S
    BY <1>1, <2>2
  <2> QED
    BY <2>1, <2>2
<1> HIDE DEF S
<1>3. Min(S) \in S
  BY <1>2 DEF Min
<1> QED
  BY <1>1, <1>3 DEF FreshVersion, S, Versions

LEMMA LatestVersionType ==
    ASSUME NEW o \in Ops, Single, ~Unsubmitted(o)
    PROVE  LatestVersion(o) \in Versions /\ Submitted(<<o, LatestVersion(o)>>)
<1> DEFINE S == {v \in Versions : Submitted(<<o, v>>)}
<1>1. PICK x \in S : TRUE
  BY DEF Unsubmitted
<1>2. x \in Int /\ \A y \in S : y = x
  BY DEF Single, Versions
<1>3. \E w \in S : \A y \in S : w >= y
  BY <1>2
<1> HIDE DEF S
<1>4. Max(S) \in S
  BY <1>3 DEF Max
<1> QED
  BY <1>4 DEF LatestVersion, S

----------------------------------------------------------------------------
(* Waiting for what is pending *)

LEMMA DoneKept ==
    ASSUME NEW p, NEW q, NEW o \in Ops, Done(p, o),
           q.attempt[o] = p.attempt[o], q.hash[o] = p.hash[o],
           p.receipts \subseteq q.receipts
    PROVE  Done(q, o)
BY DEF Done, IsOperationCompleted, Identity, Kind

LEMMA BatchingKept ==
    ASSUME Batching, UNCHANGED <<pc, queue, flight>>, wait'.back = wait.back,
           plan'.attempt = plan.attempt, plan'.hash = plan.hash,
           plan.receipts \subseteq plan'.receipts
    PROVE  Batching'
<1>1. \A o \in Ops : Done(plan, o) => Done(plan', o)
  BY DoneKept
<1>2. \A o \in Ops : Done(plan', o) <=> Done(plan, o)'
  BY DEF Done, IsOperationCompleted, Identity, Kind
<1> QED
  BY <1>1, <1>2 DEF Batching

\* A transaction is settled: the plan keeps its attempts and hashes.
LEMMA Settled ==
    ASSUME ScriptInv, NEW t \in Tx, Settle(t)
    PROVE  /\ PlanOK(plan') /\ wait' \in Waiting /\ wait'.back = wait.back
           /\ plan'.attempt = plan.attempt /\ plan'.hash = plan.hash
           /\ plan.receipts \subseteq plan'.receipts
<1>0. PlanOK(plan) /\ wait \in Waiting
  BY DEF ScriptInv, PlansOK, Typed
<1>1. wait' \in Waiting /\ wait'.back = wait.back
  <2> DEFINE b == wait.stopped \/ ~Visible(t)
             c == wait.failed \/ node[t] = "reverted"
                    \/ (~Visible(t) /\ OnDropped(plan, t).failed)
  <2>1. b \in BOOLEAN /\ c \in BOOLEAN
    OBVIOUS
  <2>2. wait' = [wait EXCEPT !.todo = @ \ {t}, !.stopped = b, !.failed = c]
    BY DEF Settle
  <2>3. wait.todo \ {t} \in SUBSET Tx
    BY <1>0 DEF Waiting
  <2> HIDE DEF b, c
  <2> QED
    BY <1>0, <2>1, <2>2, <2>3 DEF Waiting
<1>2. \/ /\ node[t] = "mined"
         /\ plan' = [RemovePending(plan, t) EXCEPT !.receipts = @ \cup {t}]
      \/ plan' = RemovePending(plan, t)
      \/ plan' = plan
  BY DEF Settle, OnRevert, OnDropped
<1>3. CASE /\ node[t] = "mined"
           /\ plan' = [RemovePending(plan, t) EXCEPT !.receipts = @ \cup {t}]
  BY <1>0, <1>1, <1>3, RemovePendingOK
<1>4. CASE plan' = RemovePending(plan, t)
  BY <1>0, <1>1, <1>4, RemovePendingOK
<1>5. CASE plan' = plan
  BY <1>0, <1>1, <1>5
<1> QED
  BY <1>2, <1>3, <1>4, <1>5

LEMMA WaitForPendingKeeps ==
    ASSUME ScriptInv, WaitForPending PROVE ScriptInv'
<1>1. PICK t \in wait.todo : Poll(t) \/ CheckOnce(t)
  BY DEF WaitForPending
<1>2. t \in Tx /\ PlanOK(plan) /\ wait \in Waiting
  BY DEF ScriptInv, PlansOK, Typed, Waiting
<1>3. Settle(t) \/ (/\ \/ wait' = [wait EXCEPT !.todo = @ \ {t}]
                       \/ wait' = [wait EXCEPT !.todo = @ \ {t}, !.failed = TRUE]
                    /\ plan' = plan)
  BY <1>1 DEF Poll, CheckOnce
<1>4. /\ PlanOK(plan') /\ wait' \in Waiting /\ wait'.back = wait.back
      /\ plan'.attempt = plan.attempt /\ plan'.hash = plan.hash
      /\ plan.receipts \subseteq plan'.receipts
  <2>1. CASE Settle(t)
    BY <1>2, <2>1, Settled
  <2>2. CASE /\ \/ wait' = [wait EXCEPT !.todo = @ \ {t}]
                \/ wait' = [wait EXCEPT !.todo = @ \ {t}, !.failed = TRUE]
             /\ plan' = plan
    <3>1. wait.todo \ {t} \in SUBSET Tx
      BY <1>2 DEF Waiting
    <3>2. wait' \in Waiting /\ wait'.back = wait.back
      BY <1>2, <2>2, <3>1 DEF Waiting
    <3> QED
      BY <1>2, <2>2, <3>2
  <2> QED
    BY <1>3, <2>1, <2>2
<1>5. Batching'
  BY <1>4, BatchingKept DEF ScriptInv, WaitForPending
<1>6. Flying' /\ Running /\ Running'
  BY DEF ScriptInv, Flying, WaitForPending, Running
<1>7. Fault \/ NoFault
  BY <1>1 DEF Poll, CheckOnce
<1> QED
  BY <1>4, <1>5, <1>6, <1>7, RunsOn DEF WaitForPending, ScriptInv, Typed

LEMMA WaitBegins ==
    ASSUME NEW p \in Plan, NEW back \in {"bundled", "plan", "batch"}, BeginWait(p, back)
    PROVE  wait' \in Waiting /\ wait'.back = back /\ pc' = "wait"
<1>1. p.pending \in SUBSET Tx /\ BlockedPending(p) \in SUBSET Tx
  BY PlanFields DEF BlockedPending
<1> QED
  BY <1>1 DEF BeginWait, Waiting

LEMMA WaitedKeeps ==
    ASSUME ScriptInv, Waited PROVE ScriptInv'
<1>1. /\ PlanOK(plan) /\ Covers(plan) /\ pc = "wait" /\ flight = NoFlight
      /\ plan \in Plan /\ wait.back \in {"bundled", "plan", "batch"}
      /\ queue \in Queue
  BY DEF ScriptInv, PlansOK, WriteAhead, Waited, Flying, PlanOK, Typed, Waiting
<1>2. CASE Exit(plan) /\ NoFault /\ UNCHANGED disk
  BY <1>1, <1>2, Exited DEF Waited
<1>3. CASE WriteFails(plan, plan)
  BY <1>1, <1>3, WriteFailed DEF Waited
<1>4. CASE Writes(plan) /\ Continue(wait.back)
  <2>1. flight' = NoFlight /\ queue' \in Queue /\ queue' = queue /\ plan' = plan
    BY <1>1, <1>4 DEF Continue, Writes
  <2>2. CASE wait.back = "bundled"
    <3>1. wait' \in Waiting /\ wait'.back = "plan" /\ pc' = "wait"
      BY <1>1, <1>4, <2>2, WaitBegins DEF Continue
    <3>2. Flying' /\ Batching' /\ Running'
      BY <2>1, <3>1 DEF Flying, Batching, Running, NoFlight
    <3> QED
      BY <1>1, <1>4, <2>1, <3>1, <3>2, RunsOn, IdleTypes DEF Waited, Quiet, Writes, Places
  <2>3. CASE wait.back # "bundled"
    <3>1. wait' \in Waiting /\ pc' = wait.back
      BY <1>4, <2>3, IdleTypes DEF Continue
    <3>2. Flying' /\ Running'
      BY <1>1, <2>1, <2>3, <3>1 DEF Flying, Running, NoFlight
    <3>3. Batching'
      <4>1. \A o \in Ops : Done(plan, o)' <=> Done(plan, o)
        BY <2>1 DEF Done, IsOperationCompleted, Identity, Kind
      <4> QED
        BY <1>1, <2>1, <2>3, <3>1, <4>1 DEF Batching, ScriptInv, NoFlight
    <3> QED
      BY <1>1, <1>4, <2>1, <2>3, <3>1, <3>2, <3>3, RunsOn, IdleTypes
         DEF Waited, Quiet, Writes, Places
  <2> QED
    BY <2>2, <2>3
<1> QED
  BY <1>2, <1>3, <1>4 DEF Waited

----------------------------------------------------------------------------
(* Resuming *)

LEMMA RestoredKeeps ==
    ASSUME ScriptInv, UNCHANGED <<script, node, report>>, NoFault,
           NEW p, PlanOK(p), Covers(p), Restored(p),
           \/ Running /\ disk' = disk /\ p = plan
           \/ disk' = Committed(p)
    PROVE  ScriptInv'
<1>1. plan' = RestorePending(p, Ops) /\ PlanOK(plan') /\ plan'.attempt = p.attempt
  BY RestorePendingOK DEF Restored
<1>2. Flying' /\ Batching' /\ Running'
  BY DEF Restored, Flying, Batching, Running
<1>3. queue' \in Queue
  BY IdleTypes DEF Restored, Queue
<1> QED
  BY <1>1, <1>2, <1>3, RunsOn, IdleTypes DEF Restored, Places

LEMMA RestoreKeeps ==
    ASSUME ScriptInv, Restore PROVE ScriptInv'
<1>1. PlanOK(plan) /\ Covers(plan) /\ Running /\ pc # "off"
  BY DEF ScriptInv, PlansOK, WriteAhead, Restore, Restoring, Running
<1>2. CASE Restored(plan)
  BY <1>1, <1>2, RestoredKeeps DEF Restore, Quiet
<1>3. CASE Exit(RestorePending(plan, {o \in Ops : o < Min(Unresolved)}))
  <2> DEFINE p == RestorePending(plan, {o \in Ops : o < Min(Unresolved)})
  <2>1. PlanOK(p) /\ p.attempt = plan.attempt
    BY <1>1, RestorePendingOK
  <2>2. Covers(p)
    BY <1>1, <2>1 DEF Covers
  <2> QED
    BY <1>1, <1>3, <2>1, <2>2, Exited DEF Restore
<1> QED
  BY <1>2, <1>3 DEF Restore

LEMMA MarkUnknownKeeps ==
    ASSUME ScriptInv, NEW o \in Ops, MarkUnknown(o) PROVE ScriptInv'
<1> DEFINE p == With(plan, o, InterruptedAttempt)
<1>1. PlanOK(plan) /\ Covers(plan) /\ Running /\ pc = "restore" /\ plan \in Plan
  BY DEF ScriptInv, PlansOK, PlanOK, WriteAhead, MarkUnknown, Running
<1>2. Delegated(o)
  BY <1>1 DEF PlanOK, Own, MarkUnknown
<1>3. PlanOK(p)
  BY <1>1, <1>2, WithOK, AttemptsOf DEF InterruptedAttempt
<1>4. Covers(p)
  BY <1>1, WithCovers, AttemptsOf DEF InterruptedAttempt
<1>5. CASE Writes(p) /\ UNCHANGED <<pc, wait, queue, flight>>
  <2>1. Flying' /\ Batching' /\ Running'
    BY <1>1, <1>5 DEF ScriptInv, Flying, Batching, Running
  <2> QED
    BY <1>1, <1>3, <1>4, <1>5, <2>1, RunsOn
       DEF MarkUnknown, Quiet, Writes, ScriptInv, Typed
<1>6. CASE WriteFails(p, plan)
  BY <1>1, <1>3, <1>4, <1>6, WriteFailed DEF MarkUnknown
<1> QED
  BY <1>5, <1>6 DEF MarkUnknown

LEMMA ResumeRetryKeeps ==
    ASSUME ScriptInv, NEW o \in Ops, ResumeRetry(o) PROVE ScriptInv'
<1> DEFINE p == With(plan, o, <<"none", 0>>)
<1>1. PlanOK(plan) /\ Covers(plan) /\ pc = "restore" /\ plan \in Plan
  BY DEF ScriptInv, PlansOK, PlanOK, WriteAhead, ResumeRetry, Restoring
<1>2. PlanOK(p)
  BY <1>1, WithOK, AttemptsOf
<1>3. Covers(p)
  BY <1>1, WithCovers, AttemptsOf DEF ResumeRetry
<1>4. CASE NoFault /\ disk' = Committed(p) /\ Restored(p)
  BY <1>2, <1>3, <1>4, RestoredKeeps DEF ResumeRetry, Quiet
<1>5. CASE WriteFails(p, plan)
  BY <1>1, <1>2, <1>3, <1>5, WriteFailed DEF ResumeRetry
<1> QED
  BY <1>4, <1>5 DEF ResumeRetry

LEMMA ResumeTxHashKeeps ==
    ASSUME ScriptInv, NEW o \in Ops, ResumeTxHash(o) PROVE ScriptInv'
<1>1. PICK v \in Versions :
        /\ Visible(<<o, v>>)
        /\ LET q == RestorePending(plan, Ops)
               p == With(q, o, <<"pending", v>>)
           IN  \/ NoFault /\ disk' = Committed(p) /\ Restored(p)
               \/ WriteFails(p, q)
  BY DEF ResumeTxHash
<1> DEFINE q == RestorePending(plan, Ops)
           p == With(q, o, <<"pending", v>>)
<1>2. PlanOK(plan) /\ Covers(plan) /\ pc = "restore"
  BY DEF ScriptInv, PlansOK, WriteAhead, ResumeTxHash, Restoring
<1>3. PlanOK(q) /\ Covers(q) /\ q \in Plan
  BY <1>2, RestorePendingOK DEF Covers, PlanOK
<1>4. Delegated(o)
  <2>1. Kind(plan, o) = "unknown"
    BY DEF ResumeTxHash, Unresolved
  <2> QED
    BY <1>2, <2>1 DEF PlanOK, Own
<1>5. \A w \in Versions : Submitted(<<o, w>>) => w = v
  BY <1>1 DEF ScriptInv, Single, Visible, Submitted
<1>6. PlanOK(p)
  BY <1>3, <1>4, WithOK, AttemptsOf
<1>7. Covers(p)
  BY <1>3, <1>5, WithCovers, AttemptsOf
<1>8. CASE NoFault /\ disk' = Committed(p) /\ Restored(p)
  BY <1>6, <1>7, <1>8, RestoredKeeps DEF ResumeTxHash, Quiet
<1>9. CASE WriteFails(p, q)
  BY <1>2, <1>3, <1>6, <1>7, <1>9, WriteFailed DEF ResumeTxHash
<1> QED
  BY <1>1, <1>8, <1>9

LEMMA ReconcileKeeps ==
    ASSUME ScriptInv, Reconcile PROVE ScriptInv'
<1> DEFINE o == Min(queue.ops)
           t == Identity(plan, o)
           Goes == /\ plan' = IF LookedUp(o) /\ HasReceipt(t) THEN AddPending(plan, t) ELSE plan
                   /\ queue' = [queue EXCEPT !.ops = @ \ {o}]
                   /\ UNCHANGED <<pc, wait, flight>> /\ NoFault
<1>1. /\ PlanOK(plan) /\ Covers(plan) /\ plan \in Plan /\ pc = "reconcile" /\ queue \in Queue
      /\ queue.ops # {} /\ disk' = disk /\ Quiet /\ faults \in 0..MaxFaults
  BY DEF ScriptInv, PlansOK, PlanOK, WriteAhead, Reconcile, Typed
<1>2. CASE Goes
  <2>1. PlanOK(plan') /\ plan'.attempt = plan.attempt
    <3>1. CASE plan' = plan
      BY <1>1, <3>1
    <3>2. CASE plan' # plan
      <4>1. plan' = AddPending(plan, t) /\ Kind(plan, o) = "signed"
        BY <1>2, <3>2 DEF LookedUp
      <4>2. o \in Ops
        BY <1>1, MinIn DEF Queue
      <4>3. t \in Tx
        BY <1>1, <4>1, <4>2, IdentityType
      <4> QED
        BY <1>1, <4>1, <4>3, AddPendingOK
    <3> QED
      BY <3>1, <3>2
  <2>2. queue' \in Queue
    BY <1>1, <1>2 DEF Queue
  <2>3. Flying' /\ Batching' /\ Running' /\ Running
    BY <1>1, <1>2 DEF ScriptInv, Flying, Batching, Running
  <2> QED
    BY <1>1, <1>2, <2>1, <2>2, <2>3, RunsOn DEF Quiet, ScriptInv, Typed
<1>3. CASE Exit(plan) /\ Fault
  BY <1>1, <1>3, Exited
<1> QED
  BY <1>2, <1>3 DEF Reconcile

LEMMA ReconciledKeeps ==
    ASSUME ScriptInv, Reconciled PROVE ScriptInv'
<1>1. PlanOK(plan) /\ plan \in Plan /\ pc = "reconcile"
  BY DEF ScriptInv, PlansOK, PlanOK, Reconciled
<1>2. wait' \in Waiting /\ wait'.back \in {"plan", "bundled"} /\ pc' = "wait"
  BY <1>1, WaitBegins DEF Reconciled
<1>3. Flying' /\ Batching' /\ Running' /\ Running
  BY <1>1, <1>2 DEF ScriptInv, Flying, Batching, Running, Reconciled
<1> QED
  BY <1>1, <1>2, <1>3, RunsOn DEF Reconciled, Quiet, ScriptInv, Typed, Places

----------------------------------------------------------------------------
(* Broadcasting *)

LEMMA PlanBatchesKeeps ==
    ASSUME ScriptInv, PlanBatches PROVE ScriptInv'
<1>1. PlanOK(plan) /\ pc = "plan" /\ flight = NoFlight
  BY DEF ScriptInv, PlansOK, PlanBatches, Flying
<1>2. PICK slow \in BOOLEAN :
        queue' = [ops |-> RemainingOperations(plan),
                  seq |-> ShouldBroadcastSequentially(plan, slow)]
  BY DEF PlanBatches
<1>3. ShouldBroadcastSequentially(plan, slow) \in BOOLEAN
  BY DEF ShouldBroadcastSequentially
<1>4. RemainingOperations(plan) \in SUBSET Ops
  BY DEF RemainingOperations
<1>5. queue' \in Queue
  BY <1>2, <1>3, <1>4 DEF Queue
<1>6. Flying' /\ Running /\ Running'
  BY <1>1 DEF PlanBatches, Flying, Running, NoFlight
<1>7. Batching'
  <2>1. queue'.ops = RemainingOperations(plan)
    BY <1>2
  <2>2. \A o \in Ops : o \in queue'.ops \/ Done(plan, o)
    BY <2>1 DEF RemainingOperations, Done
  <2>3. \A o \in Ops : Done(plan, o)' <=> Done(plan, o)
    BY DEF PlanBatches, Done, IsOperationCompleted, Identity, Kind
  <2> QED
    BY <2>2, <2>3 DEF Batching
<1> QED
  BY <1>1, <1>5, <1>6, <1>7, RunsOn DEF PlanBatches, Quiet, ScriptInv, Typed, Places

LEMMA NextBatchKeeps ==
    ASSUME ScriptInv, NextBatch PROVE ScriptInv'
<1> DEFINE batch == IF queue.seq THEN {Min(queue.ops)} ELSE queue.ops
<1>1. /\ PlanOK(plan) /\ pc = "batch" /\ flight = NoFlight /\ queue \in Queue
      /\ pc' = "send" /\ plan' = plan
  BY DEF ScriptInv, PlansOK, NextBatch, Flying, Typed
<1>2. /\ flight' = [o \in Ops |-> IF o \in batch THEN "todo" ELSE "idle"]
      /\ queue' = [queue EXCEPT !.ops = @ \ batch]
  BY DEF NextBatch
<1> HIDE DEF batch
<1>3. queue' \in Queue /\ queue'.ops = queue.ops \ batch
  BY <1>1, <1>2 DEF Queue
<1>4. flight' \in [Ops -> Flights]
  BY <1>2 DEF Flights
<1>5. Flying' /\ Running /\ Running'
  BY <1>1, <1>2 DEF Flying, FlightOK, Running
<1>6. Batching'
  <2>1. \A o \in Ops : o \in queue.ops \/ Done(plan, o)
    BY <1>1 DEF ScriptInv, Batching, NoFlight
  <2>2. \A o \in Ops : Done(plan, o)' <=> Done(plan, o)
    BY <1>1 DEF Done, IsOperationCompleted, Identity, Kind
  <2>3. \A o \in Ops : o \in queue'.ops \/ flight'[o] # "idle" \/ Done(plan, o)'
    BY <1>2, <1>3, <2>1, <2>2
  <2> QED
    BY <2>3 DEF Batching
<1> QED
  BY <1>1, <1>3, <1>4, <1>5, <1>6, RunsOn DEF NextBatch, Quiet, ScriptInv, Typed, Places

\* A step of one operation of the batch.
LEMMA Advanced ==
    ASSUME ScriptInv, UNCHANGED <<script, node, report>>, pc = "send",
           NEW o \in Ops, NEW status \in Flights, Advance(o, status),
           Fault \/ NoFault, PlanOK(plan'),
           \/ disk' = disk /\ plan' = plan
           \/ disk' = Committed(plan') /\ Covers(plan'),
           \A e \in Ops \ {o} : /\ plan'.attempt[e] = plan.attempt[e]
                                /\ plan'.hash[e] = plan.hash[e],
           plan'.receipts = plan.receipts,
           status = "idle" => Done(plan', o),
           FlightOK(o)'
    PROVE  ScriptInv'
<1>1. /\ flight' \in [Ops -> Flights] /\ flight'[o] = status
      /\ \A e \in Ops \ {o} : flight'[e] = flight[e]
      /\ pc' = "send" /\ queue' = queue /\ wait' = wait
  BY DEF ScriptInv, Typed, Advance
<1>2. Flying'
  <2>1. ASSUME NEW e \in Ops \ {o} PROVE FlightOK(e)'
    <3>1. FlightOK(e)
      BY DEF ScriptInv, Flying
    <3>2. /\ Delegated(e)' <=> Delegated(e)
          /\ Unsubmitted(e)' <=> Unsubmitted(e)
      BY DEF Delegated, Sender, Unsubmitted, Submitted
    <3> QED
      BY <1>1, <3>1, <3>2 DEF FlightOK, Kind
  <2> QED
    BY <1>1, <2>1 DEF Flying
<1>3. Batching'
  <2>1. \A e \in Ops : Done(plan', e) <=> Done(plan, e)'
    BY DEF Done, IsOperationCompleted, Identity, Kind
  <2>2. \A e \in Ops : e \in queue.ops \/ flight[e] # "idle" \/ Done(plan, e)
    BY DEF ScriptInv, Batching
  <2>3. \A e \in Ops \ {o} : Done(plan, e) => Done(plan', e)
    BY DoneKept
  <2>4. \A e \in Ops : e \in queue'.ops \/ flight'[e] # "idle" \/ Done(plan, e)'
    BY <1>1, <2>1, <2>2, <2>3
  <2> QED
    BY <2>4 DEF Batching
<1>4. Running /\ Running'
  BY <1>1 DEF Running
<1> QED
  BY <1>1, <1>2, <1>3, <1>4, RunsOn DEF ScriptInv, Typed

LEMMA PrepareKeeps ==
    ASSUME ScriptInv, NEW o \in Ops, Prepare(o) PROVE ScriptInv'
<1>1. /\ PlanOK(plan) /\ Covers(plan) /\ pc = "send" /\ plan \in Plan /\ Quiet
      /\ UNCHANGED <<script, node, report>>
  BY DEF ScriptInv, PlansOK, WriteAhead, PlanOK, Prepare, Quiet
<1>2. CASE /\ IsOperationCompleted(plan, o)
           /\ Advance(o, "idle") /\ NoFault /\ UNCHANGED <<disk, plan>>
  <2>1. FlightOK(o)'
    BY <1>2 DEF FlightOK, Advance, ScriptInv, Typed
  <2>2. Done(plan', o)
    BY <1>2 DEF Done
  <2> QED
    BY <1>1, <1>2, <2>1, <2>2, Advanced DEF Flights
<1>3. CASE Exit(plan) /\ NoFault /\ UNCHANGED disk
  BY <1>1, <1>3, Exited
<1>4. CASE /\ Delegated(o) \/ Kind(plan, o) = "signed"
           /\ Advance(o, "ready") /\ NoFault /\ UNCHANGED <<disk, plan>>
  <2>1. flight'[o] = "ready" /\ (Delegated(o)' <=> Delegated(o))
    BY <1>1, <1>4 DEF Advance, ScriptInv, Typed, Delegated, Sender
  <2>2. FlightOK(o)'
    BY <1>4, <2>1 DEF FlightOK, Kind
  <2> QED
    BY <1>1, <1>4, <2>2, Advanced DEF Flights
<1>5. CASE /\ ~(Delegated(o) \/ Kind(plan, o) = "signed")
           /\ \/ Writes(Sign(o)) /\ Advance(o, "ready")
              \/ WriteFails(Sign(o), plan)
  <2> DEFINE a == <<"signed", FreshVersion(o)>>
             p == With(plan, o, a)
  <2>1. a \in Attempt /\ Sign(o) = p /\ a[1] = "signed"
    BY FreshVersionType, AttemptsOf DEF Sign
  <2>2. plan.attempt[o] = <<"none", 0>>
    <3>1. Kind(plan, o) = "none"
      BY <1>1, <1>5 DEF PlanOK, Own
    <3>2. plan.attempt[o] \in Attempt
      BY <1>1, PlanFields
    <3> QED
      BY <3>1, <3>2, AttemptKinds DEF Kind
  <2>3. Unsubmitted(o)
    BY <1>1, <2>2 DEF Covers, Unsubmitted
  <2>4. PlanOK(p)
    BY <1>1, <1>5, <2>1, WithOK
  <2>5. Covers(p)
    BY <1>1, <2>1, <2>3, WithCovers DEF Unsubmitted
  <2>6. CASE Writes(p) /\ Advance(o, "ready")
    <3>1. /\ plan' = p /\ plan'.hash = plan.hash /\ plan'.receipts = plan.receipts
          /\ plan'.attempt[o] = a
          /\ \A e \in Ops \ {o} : plan'.attempt[e] = plan.attempt[e]
      BY <1>1, <2>1, <2>6, WithFields DEF Writes
    <3>2. flight'[o] = "ready" /\ (Delegated(o)' <=> Delegated(o))
      BY <1>1, <2>6 DEF Advance, ScriptInv, Typed, Delegated, Sender
    <3>3. FlightOK(o)'
      BY <1>5, <3>1, <3>2 DEF FlightOK, Kind
    <3> HIDE DEF p, a
    <3> QED
      BY <1>1, <2>4, <2>5, <2>6, <3>1, <3>3, Advanced DEF Flights, Writes
  <2>7. CASE WriteFails(p, plan)
    BY <1>1, <2>4, <2>5, <2>7, WriteFailed
  <2> QED
    BY <1>5, <2>1, <2>6, <2>7
<1> QED
  BY <1>2, <1>3, <1>4, <1>5 DEF Prepare

\* A delegated operation gets another attempt.
LEMMA AttemptWritten ==
    ASSUME ScriptInv, Quiet, pc = "send", NEW o \in Ops, Delegated(o),
           NEW a \in Attempt, a[1] # "signed",
           \A v \in Versions : Submitted(<<o, v>>) =>
              a \in {<<"prepared", 0>>, <<"unknown", 0>>, <<"pending", v>>},
           NEW status \in Flights \ {"idle"},
           status \in {"requested", "refused"} => a = <<"prepared", 0>> /\ Unsubmitted(o),
           status # "ok",
           status = "recorded" => a[1] = "pending",
           \/ Writes(With(plan, o, a)) /\ Advance(o, status)
           \/ WriteFails(With(plan, o, a), plan)
           \/ NoFault /\ disk' = Committed(With(plan, o, a)) /\ Exit(With(plan, o, a))
    PROVE  ScriptInv'
<1> DEFINE p == With(plan, o, a)
<1>1. /\ PlanOK(plan) /\ Covers(plan) /\ plan \in Plan
      /\ UNCHANGED <<script, node, report>>
  BY DEF ScriptInv, PlansOK, WriteAhead, PlanOK, Quiet
<1>2. PlanOK(p)
  BY <1>1, WithOK
<1>3. Covers(p)
  BY <1>1, WithCovers
<1>4. CASE Writes(p) /\ Advance(o, status)
  <2>1. /\ plan' = p /\ plan'.hash = plan.hash /\ plan'.receipts = plan.receipts
        /\ plan'.attempt[o] = a
        /\ \A e \in Ops \ {o} : plan'.attempt[e] = plan.attempt[e]
    BY <1>1, <1>4, WithFields DEF Writes
  <2>2. /\ flight'[o] = status
        /\ Delegated(o)' <=> Delegated(o)
        /\ Unsubmitted(o)' <=> Unsubmitted(o)
    BY <1>1, <1>4 DEF Advance, ScriptInv, Typed, Delegated, Sender, Unsubmitted, Submitted
  <2>3. FlightOK(o)'
    BY <2>1, <2>2 DEF FlightOK, Kind
  <2> HIDE DEF p
  <2> QED
    BY <1>1, <1>2, <1>3, <1>4, <2>1, <2>3, Advanced DEF Writes
<1>5. CASE WriteFails(p, plan)
  BY <1>1, <1>2, <1>3, <1>5, WriteFailed
<1>6. CASE NoFault /\ disk' = Committed(p) /\ Exit(p)
  BY <1>2, <1>3, <1>6, Exited
<1> QED
  BY <1>4, <1>5, <1>6

LEMMA RequestKeeps ==
    ASSUME ScriptInv, NEW o \in Ops, Request(o) PROVE ScriptInv'
<1>1. /\ PlanOK(plan) /\ Covers(plan) /\ pc = "send" /\ plan \in Plan
      /\ Delegated(o) /\ Quiet
  BY DEF ScriptInv, PlansOK, WriteAhead, PlanOK, Request, Sending
<1>2. CASE Exit(plan) /\ NoFault /\ UNCHANGED disk
  BY <1>1, <1>2, Exited
<1>3. CASE /\ Kind(plan, o) = "none"
           /\ \/ Writes(With(plan, o, <<"prepared", 0>>)) /\ Advance(o, "requested")
              \/ WriteFails(With(plan, o, <<"prepared", 0>>), plan)
  <2>1. plan.attempt[o] \in Attempt
    BY <1>1, PlanFields
  <2>2. plan.attempt[o] = <<"none", 0>>
    BY <1>3, <2>1, AttemptKinds DEF Kind
  <2>3. Unsubmitted(o)
    BY <1>1, <2>2 DEF Covers, Unsubmitted
  <2> QED
    BY <1>1, <1>3, <2>3, AttemptWritten, AttemptsOf DEF Flights
<1> QED
  BY <1>2, <1>3 DEF Request

LEMMA SubmissionFailsKeeps ==
    ASSUME ScriptInv, NEW o \in Ops, SubmissionFails(o) PROVE ScriptInv'
<1>1. pc = "send" /\ Delegated(o) /\ Quiet /\ FlightOK(o)
  BY DEF ScriptInv, SubmissionFails, Flying
<1> DEFINE a == IF flight[o] = "refused" THEN <<"none", 0>> ELSE <<"unknown", 0>>
<1>2. a \in Attempt /\ a[1] # "signed"
  BY AttemptsOf
<1>3. \A v \in Versions : Submitted(<<o, v>>) => a = <<"unknown", 0>>
  BY <1>1 DEF FlightOK, Unsubmitted, SubmissionFails
<1>4. \/ NoFault /\ disk' = Committed(With(plan, o, a)) /\ Exit(With(plan, o, a))
      \/ WriteFails(With(plan, o, a), plan)
  BY DEF SubmissionFails
<1> HIDE DEF a
<1> QED
  BY <1>1, <1>2, <1>3, <1>4, AttemptWritten DEF Flights

LEMMA RecordKeeps ==
    ASSUME ScriptInv, NEW o \in Ops, Record(o) PROVE ScriptInv'
<1>1. pc = "send" /\ Delegated(o) /\ Quiet /\ FlightOK(o) /\ Single
  BY DEF ScriptInv, Record, Flying
<1> DEFINE v == LatestVersion(o)
           a == <<"pending", v>>
<1>2. v \in Versions /\ Submitted(<<o, v>>)
  BY <1>1, LatestVersionType DEF FlightOK, Record
<1>3. \A w \in Versions : Submitted(<<o, w>>) => w = v
  BY <1>1, <1>2 DEF Single
<1>4. \/ Writes(With(plan, o, a)) /\ Advance(o, "recorded")
      \/ WriteFails(With(plan, o, a), plan)
  BY DEF Record
<1>5. a \in Attempt /\ a[1] = "pending"
  BY <1>2, AttemptsOf
<1>6. \A w \in Versions : Submitted(<<o, w>>) => a = <<"pending", w>>
  BY <1>3
<1> HIDE DEF v, a
<1> QED
  BY <1>1, <1>4, <1>5, <1>6, AttemptWritten DEF Flights

LEMMA CheckpointKeeps ==
    ASSUME ScriptInv, NEW o \in Ops, Checkpoint(o) PROVE ScriptInv'
<1> DEFINE t == Identity(plan, o)
           p == AddPending(plan, t)
<1>1. /\ PlanOK(plan) /\ Covers(plan) /\ pc = "send" /\ plan \in Plan
      /\ FlightOK(o) /\ Quiet /\ UNCHANGED <<script, node, report>>
  BY DEF ScriptInv, PlansOK, WriteAhead, PlanOK, Checkpoint, Flying, Quiet
<1>2. Kind(plan, o) \in {"signed", "pending"}
  BY <1>1 DEF Checkpoint, Accepted, FlightOK
<1>3. t \in Tx /\ OpOf(t) = o
  BY <1>1, <1>2, IdentityType
<1>4. /\ PlanOK(p) /\ p.attempt = plan.attempt /\ p.receipts = plan.receipts
      /\ p.hash[o] # 0
      /\ \A e \in Ops \ {o} : p.hash[e] = plan.hash[e]
  BY <1>1, <1>3, AddPendingOK
<1>5. (Writes(p) /\ Advance(o, "idle")) \/ WriteFails(p, p)
  BY DEF Checkpoint
<1> HIDE DEF p
<1>6. Covers(p)
  BY <1>1, <1>4 DEF Covers
<1>7. CASE Writes(p) /\ Advance(o, "idle")
  <2>1. FlightOK(o)'
    BY <1>7 DEF FlightOK, Advance, ScriptInv, Typed
  <2>2. Done(p, o) /\ plan' = p
    BY <1>4, <1>7 DEF Done, Writes
  <2> QED
    BY <1>1, <1>4, <1>6, <1>7, <2>1, <2>2, Advanced DEF Writes, Flights
<1>8. CASE WriteFails(p, p)
  BY <1>1, <1>4, <1>6, <1>8, WriteFailed
<1> QED
  BY <1>5, <1>7, <1>8

LEMMA GiveUpKeeps ==
    ASSUME ScriptInv, NEW o \in Ops, GiveUp(o) PROVE ScriptInv'
<1>1. PlanOK(plan) /\ Covers(plan) /\ pc # "off"
  BY DEF ScriptInv, PlansOK, WriteAhead, GiveUp
<1> QED
  BY <1>1, Exited DEF GiveUp

LEMMA BatchSentKeeps ==
    ASSUME ScriptInv, BatchSent PROVE ScriptInv'
<1>1. /\ PlanOK(plan) /\ Covers(plan) /\ pc = "send" /\ plan \in Plan
      /\ flight = NoFlight /\ Quiet /\ queue \in Queue
  BY DEF ScriptInv, PlansOK, WriteAhead, PlanOK, BatchSent, Typed
<1>2. CASE Writes(plan) /\ BeginWait(plan, "batch") /\ UNCHANGED <<queue, flight>>
  <2>1. wait' \in Waiting /\ wait'.back = "batch" /\ pc' = "wait" /\ plan' = plan
    BY <1>1, <1>2, WaitBegins DEF Writes
  <2>2. Flying' /\ Running'
    BY <1>1, <1>2, <2>1 DEF Flying, Running, NoFlight
  <2>3. Batching'
    <3>1. \A o \in Ops : Done(plan, o)' <=> Done(plan, o)
      BY <2>1 DEF Done, IsOperationCompleted, Identity, Kind
    <3> QED
      BY <1>1, <1>2, <3>1 DEF ScriptInv, Batching
  <2> QED
    BY <1>1, <1>2, <2>1, <2>2, <2>3, RunsOn, IdleTypes DEF Quiet, Writes, Places
<1>3. CASE WriteFails(plan, plan)
  BY <1>1, <1>3, WriteFailed
<1> QED
  BY <1>2, <1>3 DEF BatchSent

LEMMA FinishKeeps ==
    ASSUME ScriptInv, Finish PROVE ScriptInv'
<1>1. /\ PlanOK(plan) /\ Covers(plan) /\ pc = "batch" /\ plan \in Plan
      /\ flight = NoFlight /\ queue.ops = {}
  BY DEF ScriptInv, PlansOK, WriteAhead, PlanOK, Finish, Flying
<1>2. \A o \in Ops : Done(plan, o)
  BY <1>1 DEF ScriptInv, Batching, NoFlight
<1>3. CompleteMeansMined'
  <2> SUFFICES ASSUME report' = "complete", NEW o \in Ops
               PROVE  \E v \in Versions : node[<<o, v>>] = "mined"
    BY DEF CompleteMeansMined, Finish
  <2>1. o \notin RemainingOperations(plan)
    BY <1>2 DEF Finish, RemainingOperations, Done
  <2>2. Identity(plan, o) \in plan.receipts
    BY <2>1 DEF RemainingOperations, IsOperationCompleted
  <2>3. Identity(plan, o) \in Tx /\ Identity(plan, o)[1] = o
    BY <1>1, <2>2, IdentityType
  <2>4. node[Identity(plan, o)] = "mined"
    BY <1>1, <2>2 DEF PlanOK
  <2>5. /\ Identity(plan, o)[2] \in Versions
        /\ Identity(plan, o) = <<o, Identity(plan, o)[2]>>
    BY <2>3 DEF Tx
  <2> QED
    BY <2>4, <2>5
<1>4. report' \in {"none", "incomplete", "complete"}
  BY DEF Finish
<1> QED
  BY <1>1, <1>3, <1>4, Stopped DEF Finish, Exit

----------------------------------------------------------------------------
(* The node *)

\* Plans stay good: what is mined stays mined.
LEMMA PlansKept ==
    ASSUME ScriptInv, UNCHANGED <<script, disk, plan, report>>,
           \A t \in Tx : node[t] = "mined" => node'[t] = "mined"
    PROVE  PlansOK' /\ CompleteMeansMined'
<1>1. \A p : PlanOK(p) => p.receipts \subseteq Tx
  BY PlanFields DEF PlanOK
<1>2. \A o : Delegated(o)' <=> Delegated(o)
  BY DEF Delegated, Sender
<1>3. PlansOK'
  BY <1>1, <1>2 DEF ScriptInv, PlansOK, PlanOK, Own
<1>4. CompleteMeansMined'
  BY DEF ScriptInv, CompleteMeansMined, Tx
<1> QED
  BY <1>3, <1>4

LEMMA NodeStepKeeps ==
    ASSUME ScriptInv, NodeStep PROVE ScriptInv'
<1>1. PICK t \in Tx : Arrive(t) \/ Forget(t) \/ Mine(t)
  BY DEF NodeStep
<1>2. PICK s \in Statuses \ {"unsent"} : node' = [node EXCEPT ![t] = s]
  BY <1>1 DEF Arrive, Forget, Mine, Statuses
<1>3. node[t] \in {"network", "known"} /\ (Fault \/ NoFault)
  BY <1>1 DEF Arrive, Forget, Mine
<1>4. /\ node \in [Tx -> Statuses] /\ node' \in [Tx -> Statuses]
      /\ \A u \in Tx : node[u] = "mined" => node'[u] = "mined"
      /\ \A u \in Tx : Submitted(u)' <=> Submitted(u)
  BY <1>2, <1>3 DEF ScriptInv, Typed, Submitted
<1>5. PlansOK' /\ CompleteMeansMined'
  BY <1>4, PlansKept DEF NodeStep, process
<1>6. Typed'
  BY <1>3, <1>4, FaultTypes DEF ScriptInv, Typed, NodeStep, process
<1>7. \A o \in Ops, v \in Versions : Submitted(<<o, v>>)' <=> Submitted(<<o, v>>)
  BY <1>4 DEF Tx
<1>8. \A o \in Ops : Unsubmitted(o)' <=> Unsubmitted(o)
  BY <1>7 DEF Unsubmitted
<1>9. Single'
  BY <1>7 DEF ScriptInv, Single
<1>10. WriteAhead'
  <2>1. Loadable' = Loadable /\ plan' = plan /\ pc' = pc /\ disk' = disk
    BY DEF NodeStep, process, Loadable
  <2>2. (\A q \in Loadable : Covers(q))' /\ (pc # "off" => Covers(plan))'
    BY <1>7, <2>1 DEF ScriptInv, WriteAhead, Covers
  <2> QED
    BY <1>8, <2>1, <2>2 DEF ScriptInv, WriteAhead, Running
<1>11. Flying'
  <2>1. \A o : Delegated(o)' <=> Delegated(o)
    BY DEF Delegated, Sender, NodeStep
  <2> QED
    BY <1>8, <2>1 DEF ScriptInv, Flying, FlightOK, Kind, NodeStep, process, NoFlight
<1>12. Batching'
  BY DEF ScriptInv, Batching, Done, IsOperationCompleted, Identity, Kind, NodeStep, process
<1> QED
  BY <1>5, <1>6, <1>9, <1>10, <1>11, <1>12 DEF ScriptInv

\* What is sent is what the plan, in memory and on disk, says is sent.
LEMMA SendKeeps ==
    ASSUME ScriptInv, NEW o \in Ops, Send(o) PROVE ScriptInv'
<1> DEFINE v == IF Delegated(o) THEN FreshVersion(o) ELSE Identity(plan, o)[2]
           sent == [node EXCEPT ![<<o, v>>] = IF @ \in {"unsent", "gone"}
                                              THEN "network" ELSE @]
<1>1. /\ PlanOK(plan) /\ Covers(plan) /\ pc = "send" /\ plan \in Plan /\ FlightOK(o)
      /\ node \in [Tx -> Statuses] /\ flight \in [Ops -> Flights]
      /\ UNCHANGED <<script, disk, plan, report, pc, wait, queue>>
  BY DEF ScriptInv, PlansOK, WriteAhead, PlanOK, Send, Sending, Flying, Typed, Advance
<1>2. /\ v \in Versions
      /\ ~Delegated(o) => plan.attempt[o] = <<"signed", v>>
      /\ Delegated(o) => plan.attempt[o] = <<"prepared", 0>> /\ Unsubmitted(o)
  <2>1. CASE Delegated(o)
    BY <1>1, <2>1, FreshVersionType DEF Send, Sending, FlightOK
  <2>2. CASE ~Delegated(o)
    <3>1. Kind(plan, o) = "signed" /\ v = Identity(plan, o)[2]
      BY <1>1, <2>2 DEF Send, Sending, FlightOK
    <3>2. v = plan.attempt[o][2]
      BY <1>1, <3>1, IdentityType
    <3>3. plan.attempt[o] \in Attempt
      BY <1>1, PlanFields
    <3> HIDE DEF v
    <3> QED
      BY <2>2, <3>1, <3>2, <3>3, AttemptKinds DEF Kind
  <2> QED
    BY <2>1, <2>2
<1>3. PICK status \in {"ok", "lost", "refused"} :
        /\ flight' = [flight EXCEPT ![o] = status]
        /\ node' = node \/ node' = sent
        /\ status = "ok" => node' = sent
        /\ status = "refused" => Delegated(o) /\ node' = node
        /\ Fault \/ NoFault
  BY DEF Send, Advance
<1>4. /\ <<o, v>> \in Tx /\ sent \in [Tx -> Statuses]
      /\ sent[<<o, v>>] # "unsent"
      /\ \A t \in Tx \ {<<o, v>>} : sent[t] = node[t]
      /\ \A t \in Tx : node[t] = "mined" => sent[t] = "mined"
      /\ \A t \in Tx : node[t] # "unsent" => sent[t] # "unsent"
  BY <1>1, <1>2 DEF Tx, Statuses
<1> HIDE DEF v, sent
<1>5. /\ node' \in [Tx -> Statuses]
      /\ \A t \in Tx : node[t] = "mined" => node'[t] = "mined"
      /\ \A t \in Tx : Submitted(t) => Submitted(t)'
      /\ \A t \in Tx : Submitted(t)' => Submitted(t) \/ t = <<o, v>>
      /\ status = "ok" => node'[<<o, v>>] # "unsent"
      /\ status = "refused" => \A t \in Tx : Submitted(t)' => Submitted(t)
  BY <1>1, <1>3, <1>4 DEF Submitted
<1>6. PlansOK' /\ CompleteMeansMined'
  BY <1>1, <1>5, PlansKept
<1>7. /\ flight' \in [Ops -> Flights] /\ flight'[o] = status
      /\ \A e \in Ops \ {o} : flight'[e] = flight[e]
  BY <1>1, <1>3 DEF Flights
<1>8. Typed'
  BY <1>1, <1>3, <1>5, <1>7, FaultTypes DEF ScriptInv, Typed
<1>9. \A e \in Ops, w \in Versions :
         Submitted(<<e, w>>)' => Submitted(<<e, w>>) \/ (e = o /\ w = v)
  <2> SUFFICES ASSUME NEW e \in Ops, NEW w \in Versions, Submitted(<<e, w>>)'
               PROVE  Submitted(<<e, w>>) \/ (e = o /\ w = v)
    OBVIOUS
  <2>1. <<e, w>> \in Tx
    BY DEF Tx
  <2> QED
    BY <1>5, <2>1
<1>10. \A w \in Versions : Submitted(<<o, w>>) => w = v
  BY <1>1, <1>2 DEF Covers, Unsubmitted
<1>11. Single'
  BY <1>9, <1>10 DEF ScriptInv, Single
<1>12. \A p : Covers(p) /\ p.attempt = plan.attempt =>
          \A e \in Ops, w \in Versions : Submitted(<<e, w>>)' =>
             p.attempt[e] \in {<<"prepared", 0>>, <<"unknown", 0>>,
                               <<"signed", w>>, <<"pending", w>>}
  BY <1>2, <1>9 DEF Covers
<1>13. WriteAhead'
  <2>1. Loadable' = Loadable /\ Running /\ Running'
    BY <1>1 DEF Loadable, Running
  <2>2. \A q \in Loadable : Covers(q) /\ q.attempt = plan.attempt
    BY <2>1 DEF ScriptInv, WriteAhead, Loadable
  <2>3. (\A q \in Loadable : Covers(q))' /\ Covers(plan)'
    BY <1>1, <1>12, <2>1, <2>2 DEF Covers
  <2>4. Loadable # {}
    BY <1>1 DEF ScriptInv, WriteAhead
  <2> QED
    BY <1>1, <2>1, <2>3, <2>4 DEF ScriptInv, WriteAhead
<1>14. Flying'
  <2>1. \A e : Delegated(e)' <=> Delegated(e)
    BY <1>1 DEF Delegated, Sender
  <2>2. ASSUME NEW e \in Ops \ {o} PROVE FlightOK(e)'
    <3>1. FlightOK(e) /\ plan' = plan
      BY <1>1 DEF ScriptInv, Flying
    <3>2. Unsubmitted(e)' <=> Unsubmitted(e)
      <4>1. \A w \in Versions : <<e, w>> \in Tx
        BY DEF Tx
      <4> QED
        BY <1>5, <1>9, <4>1 DEF Unsubmitted
    <3> QED
      BY <1>7, <2>1, <3>1, <3>2 DEF FlightOK, Kind
  <2>3. FlightOK(o)'
    <3>1. status = "ok" => ~Unsubmitted(o)'
      BY <1>2, <1>5 DEF Unsubmitted, Submitted
    <3>2. status = "refused" => plan.attempt[o] = <<"prepared", 0>> /\ Unsubmitted(o)'
      <4>1. \A w \in Versions : <<o, w>> \in Tx
        BY DEF Tx
      <4> QED
        BY <1>2, <1>3, <1>5, <4>1 DEF Unsubmitted
    <3>3. ~Delegated(o) => Kind(plan, o) = "signed"
      BY <1>2 DEF Kind
    <3> QED
      BY <1>1, <1>7, <2>1, <3>1, <3>2, <3>3 DEF FlightOK, Kind
  <2> QED
    BY <1>1, <2>2, <2>3 DEF Flying
<1>15. Batching'
  <2>1. \A e \in Ops : Done(plan, e)' <=> Done(plan, e)
    BY <1>1 DEF Done, IsOperationCompleted, Identity, Kind
  <2>2. \A e \in Ops : e \in queue.ops \/ flight[e] # "idle" \/ Done(plan, e)
    BY <1>1 DEF ScriptInv, Batching
  <2>3. \A e \in Ops : e \in queue'.ops \/ flight'[e] # "idle" \/ Done(plan, e)'
    BY <1>1, <1>3, <1>7, <2>1, <2>2
  <2> QED
    BY <2>3 DEF Batching
<1> QED
  BY <1>6, <1>8, <1>11, <1>13, <1>14, <1>15 DEF ScriptInv

----------------------------------------------------------------------------

LEMMA ScriptInvHolds == Spec => []ScriptInv
<1>1. Init => ScriptInv
  <2> SUFFICES ASSUME Init PROVE ScriptInv
    OBVIOUS
  <2>1. Typed
    BY IdleTypes, ScriptAssumption DEF Init, Typed, Script, Statuses, Places
  <2>2. \A o \in Ops, v \in Versions : ~Submitted(<<o, v>>)
    BY DEF Init, Submitted, Tx
  <2>3. PlansOK
    BY NewPlanOK DEF Init, PlansOK
  <2>4. WriteAhead /\ Single
    BY <2>2 DEF Init, WriteAhead, Single, Loadable, Unsubmitted, Running
  <2>5. Flying /\ Batching /\ CompleteMeansMined
    BY DEF Init, Flying, Batching, CompleteMeansMined
  <2> QED
    BY <2>1, <2>3, <2>4, <2>5 DEF ScriptInv
<1>2. ScriptInv /\ [Next]_vars => ScriptInv'
  <2> SUFFICES ASSUME ScriptInv, [Next]_vars PROVE ScriptInv'
    OBVIOUS
  <2>1. CASE Create \/ Load \/ Close \/ Crash \/ Interrupt
    BY <2>1, CreateKeeps, LoadKeeps, CloseKeeps
  <2>2. CASE WaitForPending \/ Waited
    BY <2>2, WaitForPendingKeeps, WaitedKeeps
  <2>3. CASE Restore \/ Reconcile \/ Reconciled
    BY <2>3, RestoreKeeps, ReconcileKeeps, ReconciledKeeps
  <2>4. ASSUME NEW o \in Ops, MarkUnknown(o) \/ ResumeRetry(o) \/ ResumeTxHash(o)
        PROVE  ScriptInv'
    BY <2>4, MarkUnknownKeeps, ResumeRetryKeeps, ResumeTxHashKeeps
  <2>5. CASE PlanBatches \/ NextBatch \/ BatchSent \/ Finish
    BY <2>5, PlanBatchesKeeps, NextBatchKeeps, BatchSentKeeps, FinishKeeps
  <2>6. ASSUME NEW o \in Ops,
               \/ Prepare(o) \/ Request(o) \/ Send(o) \/ Record(o)
               \/ SubmissionFails(o) \/ Checkpoint(o) \/ GiveUp(o)
        PROVE  ScriptInv'
    BY <2>6, PrepareKeeps, RequestKeeps, SendKeeps, RecordKeeps, SubmissionFailsKeeps,
       CheckpointKeeps, GiveUpKeeps
  <2>7. CASE NodeStep
    BY <2>7, NodeStepKeeps
  <2>8. CASE UNCHANGED vars
    BY <2>8 DEF vars, process, ScriptInv, Typed, PlansOK, PlanOK, Own, Kind, Delegated,
                Sender, Single, Submitted, WriteAhead, Covers, Unsubmitted, Loadable,
                Running, Flying, FlightOK, Batching, Done, IsOperationCompleted,
                Identity, CompleteMeansMined
  <2> QED
    BY <2>1, <2>2, <2>3, <2>4, <2>5, <2>6, <2>7, <2>8
       DEF Next, Process, Operator, Resume, Broadcast
<1> QED
  BY <1>1, <1>2, PTL DEF Spec

LEMMA AtMostOne ==
    ASSUME NEW S, \A v, w \in S : v = w
    PROVE  Cardinality(S) <= 1
<1>1. CASE S = {}
  BY <1>1, FS_EmptySet
<1>2. CASE S # {}
  <2>1. PICK v : S = {v}
    BY <1>2
  <2> QED
    BY <2>1, FS_Singleton
<1> QED
  BY <1>1, <1>2

(* The plans in memory and on disk are well formed, and there is at most   *)
(* one snapshot and one uncommitted one, however writes fail               *)
(* (recovery.rs write_snapshot).                                           *)
THEOREM ScriptTyped == Spec => []TypeOK
<1>1. ScriptInv => TypeOK
  <2> SUFFICES ASSUME ScriptInv PROVE TypeOK
    OBVIOUS
  <2>1. Typed /\ plan \in Plan
    BY DEF ScriptInv, PlansOK, PlanOK
  <2>2. ASSUME NEW files \in {disk.main, disk.pending}
        PROVE  files \subseteq Plan /\ Cardinality(files) <= 1
    <3>1. files \subseteq Plan /\ \A p, q \in files : p = q
      BY <2>1 DEF Typed
    <3> QED
      BY <3>1, AtMostOne
  <2> QED
    BY <2>1, <2>2 DEF TypeOK, Typed, Script, Statuses, Places, Waiting, Queue, Flights
<1> QED
  BY <1>1, ScriptInvHolds, PTL

(* No operation is submitted as two transactions: what was signed, or was  *)
(* asked of a wallet, is on disk before it is sent, and is never replaced  *)
(* (recovery.rs persist_attempt), so that no crash, failed write or lost   *)
(* answer makes a later run sign or ask again.                             *)
THEOREM SubmittedOnce == Spec => []NoDoubleSubmission
<1>1. ScriptInv => NoDoubleSubmission
  <2> SUFFICES ASSUME ScriptInv, NEW o \in Ops
               PROVE  Cardinality({v \in Versions : Submitted(<<o, v>>)}) <= 1
    BY DEF NoDoubleSubmission
  <2> DEFINE S == {v \in Versions : Submitted(<<o, v>>)}
  <2>1. \A v, w \in S : v = w
    BY DEF ScriptInv, Single
  <2> HIDE DEF S
  <2>2. Cardinality(S) <= 1
    BY <2>1, AtMostOne
  <2> QED
    BY <2>2 DEF S
<1> QED
  BY <1>1, ScriptInvHolds, PTL

(* "ONCHAIN EXECUTION COMPLETE & SUCCESSFUL" is said only when every       *)
(* operation was mined: the batches of broadcast forget none, and a        *)
(* receipt is recorded for a mined transaction only.                       *)
THEOREM CompleteIsMined == Spec => []CompleteMeansMined
<1>1. ScriptInv => CompleteMeansMined
  BY DEF ScriptInv
<1> QED
  BY <1>1, ScriptInvHolds, PTL

=============================================================================
