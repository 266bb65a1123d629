---------------------------- MODULE TxPoolProofs ----------------------------
(***************************************************************************)
(* Proofs about TxPool: for any transactions, accounts and bounds, the     *)
(* indexes and links of the pool describe its queues through every         *)
(* addition, replacement, drop, prune and restore, the iterator of a block *)
(* walks all of them once, and what a block is about to execute, or leaves *)
(* waiting, is what the nonces of the accounts allow; and no transaction   *)
(* leaves the pool without a reason.                                       *)
(***************************************************************************)
EXTENDS TxPool, FiniteSetTheorems, SequenceTheorems, WellFoundedInduction, TLAPS

----------------------------------------------------------------------------
(* The inductive invariant: the pool *)

\* The marker of the nonce before t's.
Requirement(t) == IF t.nonce = 0 THEN {} ELSE {<<t.sender, t.nonce - 1>>}

IsFcn(f) == f = [x \in DOMAIN f |-> f[x]]

ReadyIndexed(p) ==
    /\ IsFcn(p.provided)
    /\ DOMAIN p.provided = ProvidedBy(DOMAIN p.ready)
    /\ \A t \in DOMAIN p.ready : p.provided[Provides(t)] = t

WaitingIndexed(p) ==
    /\ IsFcn(p.waiting) /\ IsFcn(p.required) /\ IsFcn(p.waitingMarkers)
    /\ DOMAIN p.waitingMarkers = ProvidedBy(DOMAIN p.waiting)
    /\ \A t \in DOMAIN p.waiting : p.waitingMarkers[Provides(t)] = t
    /\ DOMAIN p.required = UNION {p.waiting[t].missing : t \in DOMAIN p.waiting}
    /\ \A m \in DOMAIN p.required :
          p.required[m] = {t \in DOMAIN p.waiting : m \in p.waiting[t].missing}

\* What waits is missing the one marker it requires, and nobody provides it.
WaitingNeeds(p) ==
    \A t \in DOMAIN p.waiting :
        /\ p.waiting[t] \in [requires : SUBSET Markers, missing : SUBSET Markers]
        /\ p.waiting[t].requires = Requirement(t) /\ p.waiting[t].missing = Requirement(t)
        /\ Requirement(t) # {}
        /\ p.waiting[t].missing \cap DOMAIN p.provided = {}

\* The entries of a ready queue r and the links between them.
ReadyTyped(r) == DOMAIN r \subseteq Txs /\ \A t \in DOMAIN r : r[t] \in ReadyEntries

ReadyLinked(r) ==
    \A t \in DOMAIN r :
        /\ r[t].requires \subseteq Requirement(t)
        /\ \A u \in r[t].unlocks : u \in DOMAIN r /\ Provides(t) \in r[u].requires

Parentless(r, u) == \A t \in DOMAIN r : u \notin r[t].unlocks

IndependentExact(p) ==
    /\ p.independent \subseteq DOMAIN p.ready
    /\ \A u \in DOMAIN p.ready :
          /\ u \in p.independent <=> Parentless(p.ready, u)
          /\ p.ready[u].offset =
                IF u \in p.independent /\ p.ready[u].requires # {} THEN 1 ELSE 0

PoolInv(p) ==
    /\ IsFcn(p) /\ DOMAIN p = DOMAIN EmptyPool
    /\ DOMAIN p.waiting \subseteq Txs
    /\ DOMAIN p.ready \cap DOMAIN p.waiting = {}
    /\ p.older \subseteq Txs \X Txs
    /\ ReadyIndexed(p)
    /\ WaitingIndexed(p)
    /\ WaitingNeeds(p)
    /\ ReadyTyped(p.ready)
    /\ ReadyLinked(p.ready)
    /\ IndependentExact(p)

----------------------------------------------------------------------------
(* The inductive invariant: jobs, blocks and snapshots *)

\* What add_ready_transaction has still to add.
QueueOK(p, Q) ==
    /\ Q \subseteq [tx : Txs, requires : SUBSET Markers]
    /\ \A e \in Q : /\ e.tx \notin DOMAIN p.ready /\ e.tx \notin DOMAIN p.waiting
                    /\ e.requires \subseteq Requirement(e.tx)
                    /\ e.requires \subseteq DOMAIN p.provided
    /\ \A e, f \in Q : e.tx = f.tx => e = f

JobOK ==
    /\ IsFcn(job) /\ DOMAIN job = DOMAIN NoJob
    /\ job.new \in BOOLEAN
    /\ job.markers \subseteq Markers /\ job.stack \subseteq Markers
    /\ QueueOK(pool, job.queue)
    /\ job.new => job.markers = {} /\ job.stack = {} /\ \E e \in job.queue : job.queue = {e}
    /\ job.markers # {} \/ job.stack # {} => job.queue = {}
    /\ \A m \in job.markers : m \notin DOMAIN pool.required

BlockTyped ==
    /\ DOMAIN block = DOMAIN NoBlock
    /\ block.state \in {"none", "executing", "mined", "pruning"}
    /\ block.left \in Nat
    /\ ReadyTyped(block.all)
    /\ block.best \subseteq DOMAIN block.all /\ block.yielded \subseteq DOMAIN block.all
    /\ block.included \cup block.stale \cup block.invalid \subseteq DOMAIN block.all
    /\ block.state = "none" => block = NoBlock
    /\ block.state # "none" => /\ job = NoJob
                               /\ block.nonces \in [Senders -> Nonces]

\* The block's copy of the ready queue, and how far it is walked.
BlockOK ==
    /\ ReadyLinked(block.all)
    /\ \A t, u \in DOMAIN block.all : Provides(t) = Provides(u) => t = u
    /\ \A u \in DOMAIN block.all :
          ~Parentless(block.all, u) => block.all[u].offset = 0
    /\ \A t \in DOMAIN block.all : Provides(t) \notin DOMAIN pool.required
    /\ block.best \cap block.yielded = {}
    /\ \A u \in DOMAIN block.all :
          u \in block.best \cup block.yielded <=>
              \A t \in DOMAIN block.all : u \in block.all[t].unlocks => t \in block.yielded

IsHeads(h) == h \in Seq([Senders -> Nonces]) /\ Len(h) > 0

SnapshotsOK ==
    /\ snapshots \in Seq({snapshots[i] : i \in DOMAIN snapshots})
    /\ \A i \in DOMAIN snapshots :
          /\ DOMAIN snapshots[i] = {"pool", "heads", "canonical"}
          /\ IsHeads(snapshots[i].heads)
          /\ PoolInv(snapshots[i].pool)

TxPoolInv ==
    /\ PoolInv(pool) /\ JobOK /\ BlockTyped /\ BlockOK
    /\ IsHeads(heads) /\ SnapshotsOK

----------------------------------------------------------------------------
(* Where only blocks change nonces *)

LastOf(h) == h[Len(h)]

\* What waits is above the account's nonce, unless others raised it; what is
\* independent is not.
Fits(p, n) ==
    /\ \A t \in DOMAIN p.waiting : t.sender \notin Authorities => t.nonce > n[t.sender]
    /\ \A t \in p.independent : t.nonce <= n[t.sender]

NoncesOK ==
    /\ Fits(pool, Head_)
    /\ \A e \in job.queue : e.requires = {} => e.tx.nonce <= Head_[e.tx.sender]
    /\ \A m \in job.markers \cup job.stack : m[2] < Head_[m[1]]
    /\ \A i \in DOMAIN snapshots : Fits(snapshots[i].pool, LastOf(snapshots[i].heads))

BlockNoncesOK ==
    block.state # "none" =>
        /\ \A s \in Senders : Head_[s] <= block.nonces[s]
        /\ block.state # "executing" => block.nonces = Head_
        /\ \A t \in DOMAIN pool.waiting :
              t.sender \notin Authorities => t.nonce > block.nonces[t.sender]
        /\ \A t \in block.included \cup block.stale : t.nonce < block.nonces[t.sender]
        /\ block.invalid \cup block.included \subseteq block.yielded
        /\ NextIsExecutable

----------------------------------------------------------------------------
(* Transactions, maps and records *)

Fields == {"ready", "provided", "independent", "older", "waiting", "required",
           "waitingMarkers"}

LEMMA FieldsOfPool == DOMAIN EmptyPool = Fields
BY DEF EmptyPool, Fields

LEMMA TxFacts ==
    ASSUME NEW t \in Txs
    PROVE  /\ t.sender \in Senders /\ t.nonce \in Nat /\ t.nonce \in Nonces
           /\ t.fee \in Nat /\ Provides(t) \in Markers
BY PoolAssumption DEF Nonces, Markers, Provides

\* The requirement of a transaction tells its sender and its nonce.
LEMMA RequirementFacts ==
    ASSUME NEW t \in Txs, NEW u \in Txs, Provides(u) \in Requirement(t)
    PROVE  u.sender = t.sender /\ u.nonce = t.nonce - 1 /\ t.nonce > 0
<1>1. t.nonce # 0 /\ Provides(u) = <<t.sender, t.nonce - 1>>
  BY DEF Requirement
<1>2. u.sender = t.sender /\ u.nonce = t.nonce - 1
  BY <1>1 DEF Provides
<1> QED
  BY <1>1, <1>2, TxFacts

LEMMA RequirementTyped ==
    ASSUME NEW t \in Txs
    PROVE  Requirement(t) \subseteq Markers /\ \A m, n \in Requirement(t) : m = n
<1>1. CASE t.nonce = 0
  BY <1>1 DEF Requirement
<1>2. CASE t.nonce # 0
  <2>1. t.nonce - 1 \in Nonces /\ t.sender \in Senders
    BY <1>2, TxFacts, PoolAssumption DEF Nonces
  <2>2. <<t.sender, t.nonce - 1>> \in Markers
    BY <2>1 DEF Markers
  <2> QED
    BY <1>2, <2>2 DEF Requirement
<1> QED
  BY <1>1, <1>2

LEMMA NotItsOwn ==
    ASSUME NEW t \in Txs
    PROVE  Provides(t) \notin Requirement(t)
BY TxFacts, RequirementFacts

LEMMA RequirementCardinality ==
    ASSUME NEW t \in Txs, NEW R, R \subseteq Requirement(t)
    PROVE  Cardinality(R) = IF R = {} THEN 0 ELSE 1
<1>1. R = {} \/ R = Requirement(t)
  BY RequirementTyped
<1>2. R # {} => R = {<<t.sender, t.nonce - 1>>}
  BY <1>1 DEF Requirement
<1> QED
  BY <1>2, FS_EmptySet, FS_Singleton

\* Updates of the fields of a pool.
LEMMA ReadyFields ==
    ASSUME NEW p, DOMAIN p = Fields, NEW a, NEW b, NEW c
    PROVE  LET q == [p EXCEPT !.ready = a, !.independent = b, !.older = c]
           IN  /\ IsFcn(q) /\ DOMAIN q = Fields
               /\ q.ready = a /\ q.independent = b /\ q.older = c
               /\ q.provided = p.provided /\ q.waiting = p.waiting
               /\ q.required = p.required /\ q.waitingMarkers = p.waitingMarkers
BY DEF Fields, IsFcn

LEMMA WaitingFields ==
    ASSUME NEW p, DOMAIN p = Fields, NEW a, NEW b, NEW c
    PROVE  LET q == [p EXCEPT !.waiting = a, !.waitingMarkers = b, !.required = c]
           IN  /\ IsFcn(q) /\ DOMAIN q = Fields
               /\ q.waiting = a /\ q.waitingMarkers = b /\ q.required = c
               /\ q.provided = p.provided /\ q.ready = p.ready
               /\ q.independent = p.independent /\ q.older = p.older
BY DEF Fields, IsFcn

LEMMA ProvidedField ==
    ASSUME NEW p, DOMAIN p = Fields, NEW a
    PROVE  LET q == [p EXCEPT !.provided = a]
           IN  /\ IsFcn(q) /\ DOMAIN q = Fields
               /\ q.provided = a
               /\ q.ready = p.ready /\ q.waiting = p.waiting
               /\ q.independent = p.independent /\ q.older = p.older
               /\ q.required = p.required /\ q.waitingMarkers = p.waitingMarkers
BY DEF Fields, IsFcn

LEMMA WithoutFacts ==
    ASSUME NEW f, NEW S
    PROVE  /\ IsFcn(Without(f, S)) /\ DOMAIN Without(f, S) = DOMAIN f \ S
           /\ \A x \in DOMAIN f \ S : Without(f, S)[x] = f[x]
BY DEF IsFcn, Without

LEMMA WithoutNothing ==
    ASSUME NEW f, IsFcn(f), NEW S, DOMAIN f \cap S = {}
    PROVE  Without(f, S) = f
BY DEF IsFcn, Without

LEMMA PutFacts ==
    ASSUME NEW f, NEW k, NEW v
    PROVE  /\ IsFcn(Put(f, k, v)) /\ DOMAIN Put(f, k, v) = DOMAIN f \cup {k}
           /\ Put(f, k, v)[k] = v
           /\ \A x \in DOMAIN f \ {k} : Put(f, k, v)[x] = f[x]
BY DEF IsFcn, Put

\* What is left to say of a pool whose waiting queue has not changed.
SameWaiting(p, q) ==
    /\ q.waiting = p.waiting /\ q.required = p.required
    /\ q.waitingMarkers = p.waitingMarkers

SameReady(p, q) ==
    /\ q.ready = p.ready /\ q.provided = p.provided
    /\ q.independent = p.independent /\ q.older = p.older

LEMMA MarkAndUnlockFields ==
    ASSUME NEW p, DOMAIN p = Fields, NEW m
    PROVE  LET q == MarkAndUnlock(p, m)
           IN  /\ IsFcn(q) /\ DOMAIN q = Fields /\ SameReady(p, q)
               /\ q.required = Without(p.required, {m})
               /\ q.waitingMarkers =
                     Without(p.waitingMarkers, ProvidedBy(UnlockedBy(p, m)))
               /\ q.waiting =
                     [t \in DOMAIN p.waiting \ UnlockedBy(p, m) |->
                        IF m \in DOMAIN p.required /\ t \in p.required[m]
                        THEN Mark(p.waiting[t], m) ELSE p.waiting[t]]
BY DEF Fields, IsFcn, MarkAndUnlock, SameReady

LEMMA RemoveWaitingFields ==
    ASSUME NEW p, DOMAIN p = Fields, NEW S
    PROVE  LET q == RemoveWaiting(p, S)
               gone == S \cap DOMAIN p.waiting
               rest(m) == p.required[m] \ {t \in gone : m \in p.waiting[t].missing}
           IN  /\ IsFcn(q) /\ DOMAIN q = Fields /\ SameReady(p, q)
               /\ q.required = [m \in {n \in DOMAIN p.required : rest(n) # {}} |-> rest(m)]
               /\ q.waitingMarkers = Without(p.waitingMarkers, ProvidedBy(gone))
               /\ q.waiting = Without(p.waiting, gone)
BY DEF Fields, IsFcn, RemoveWaiting, SameReady

LEMMA UnlinkFields ==
    ASSUME NEW p, DOMAIN p = Fields, NEW gone
    PROVE  LET q == Unlink(p, gone)
           IN  /\ IsFcn(q) /\ DOMAIN q = Fields /\ SameWaiting(p, q)
               /\ q.provided = p.provided
               /\ q.independent = p.independent \ gone
               /\ q.older \subseteq p.older
               /\ q.ready =
                    [x \in DOMAIN p.ready \ gone |->
                      NotUnlocking(p.ready[x],
                        {t \in gone : Provides(x) \in p.ready[t].requires})]
BY DEF Fields, IsFcn, Unlink, SameWaiting

----------------------------------------------------------------------------
(* The waiting queue *)

LEMMA ReadySideKept ==
    ASSUME NEW p, PoolInv(p), NEW q, SameReady(p, q)
    PROVE  /\ q.older \subseteq Txs \X Txs /\ ReadyIndexed(q) /\ ReadyTyped(q.ready)
           /\ ReadyLinked(q.ready) /\ IndependentExact(q)
BY DEF PoolInv, SameReady, ReadyIndexed, IndependentExact

\* Some transactions leave the waiting queue and all its indexes.
LEMMA WaitingLeave ==
    ASSUME NEW p, PoolInv(p), NEW gone, gone \subseteq DOMAIN p.waiting,
           NEW q, IsFcn(q), DOMAIN q = Fields, SameReady(p, q),
           q.waiting = Without(p.waiting, gone),
           q.waitingMarkers = Without(p.waitingMarkers, ProvidedBy(gone)),
           IsFcn(q.required),
           \A m : m \in DOMAIN q.required <=>
                    \E t \in DOMAIN p.waiting \ gone : m \in p.waiting[t].missing,
           \A m \in DOMAIN q.required :
              q.required[m] = {t \in DOMAIN p.waiting \ gone : m \in p.waiting[t].missing}
    PROVE  PoolInv(q)
<1>1. /\ DOMAIN q.waiting = DOMAIN p.waiting \ gone /\ IsFcn(q.waiting)
      /\ \A t \in DOMAIN q.waiting : q.waiting[t] = p.waiting[t]
  BY DEF Without, IsFcn
<1>2. /\ DOMAIN q.waitingMarkers = DOMAIN p.waitingMarkers \ ProvidedBy(gone)
      /\ IsFcn(q.waitingMarkers)
      /\ \A m \in DOMAIN q.waitingMarkers : q.waitingMarkers[m] = p.waitingMarkers[m]
  BY DEF Without, IsFcn
<1>3. \A t, u \in DOMAIN p.waiting : Provides(t) = Provides(u) => t = u
  BY DEF PoolInv, WaitingIndexed
<1>4. DOMAIN q.waitingMarkers = ProvidedBy(DOMAIN q.waiting)
  <2>1. DOMAIN p.waitingMarkers = {Provides(t) : t \in DOMAIN p.waiting}
    BY DEF PoolInv, WaitingIndexed, ProvidedBy
  <2>2. DOMAIN q.waitingMarkers = {Provides(t) : t \in DOMAIN p.waiting}
                                    \ {Provides(t) : t \in gone}
    BY <1>2, <2>1 DEF ProvidedBy
  <2>3. DOMAIN q.waitingMarkers = {Provides(t) : t \in DOMAIN p.waiting \ gone}
    BY <1>3, <2>2
  <2> QED
    BY <1>1, <2>3 DEF ProvidedBy
<1>5. \A t \in DOMAIN q.waiting : q.waitingMarkers[Provides(t)] = t
  BY <1>1, <1>2, <1>4 DEF PoolInv, WaitingIndexed, ProvidedBy
<1>6. DOMAIN q.required = UNION {q.waiting[t].missing : t \in DOMAIN q.waiting}
  BY <1>1
<1>7. \A m \in DOMAIN q.required :
         q.required[m] = {t \in DOMAIN q.waiting : m \in q.waiting[t].missing}
  BY <1>1
<1>8. WaitingIndexed(q)
  BY <1>1, <1>2, <1>4, <1>5, <1>6, <1>7 DEF WaitingIndexed
<1>9. WaitingNeeds(q)
  BY <1>1 DEF PoolInv, WaitingNeeds, SameReady
<1>10. /\ DOMAIN q.waiting \subseteq Txs
       /\ DOMAIN q.ready \cap DOMAIN q.waiting = {}
  BY <1>1 DEF PoolInv, SameReady
<1> QED
  BY <1>8, <1>9, <1>10, ReadySideKept, FieldsOfPool DEF PoolInv

LEMMA MissingFacts ==
    ASSUME NEW p, PoolInv(p), NEW m
    PROVE  /\ m \in DOMAIN p.required <=> \E t \in DOMAIN p.waiting : m \in Requirement(t)
           /\ m \in DOMAIN p.required =>
                 p.required[m] = {t \in DOMAIN p.waiting : m \in Requirement(t)}
           /\ m \in DOMAIN p.required => m \notin DOMAIN p.provided
BY DEF PoolInv, WaitingIndexed, WaitingNeeds

LEMMA UnlockedByFacts ==
    ASSUME NEW p, PoolInv(p), NEW m
    PROVE  /\ UnlockedBy(p, m) = {t \in DOMAIN p.waiting : m \in Requirement(t)}
           /\ m \in DOMAIN p.required <=> UnlockedBy(p, m) # {}
           /\ m \in DOMAIN p.required => p.required[m] = UnlockedBy(p, m)
<1>1. \A t \in DOMAIN p.waiting :
         m \in Requirement(t) => p.waiting[t].missing \subseteq {m}
  BY RequirementTyped DEF PoolInv, WaitingNeeds
<1>2. /\ m \in DOMAIN p.required <=> \E t \in DOMAIN p.waiting : m \in Requirement(t)
      /\ m \in DOMAIN p.required =>
           p.required[m] = {t \in DOMAIN p.waiting : m \in Requirement(t)}
  BY MissingFacts
<1> QED
  BY <1>1, <1>2 DEF UnlockedBy

\* mark_and_unlock takes out exactly those that waited for the marker: nobody
\* misses more than one.
LEMMA MarkAndUnlockInv ==
    ASSUME NEW p, PoolInv(p), NEW m
    PROVE  LET q == MarkAndUnlock(p, m)
           IN  /\ PoolInv(q) /\ SameReady(p, q)
               /\ DOMAIN q.waiting = DOMAIN p.waiting \ UnlockedBy(p, m)
               /\ DOMAIN q.required \subseteq DOMAIN p.required \ {m}
<1> DEFINE q == MarkAndUnlock(p, m)
           gone == UnlockedBy(p, m)
<1>0. DOMAIN p = Fields
  BY FieldsOfPool DEF PoolInv
<1>1. /\ IsFcn(q) /\ DOMAIN q = Fields /\ SameReady(p, q)
      /\ q.required = Without(p.required, {m})
      /\ q.waitingMarkers = Without(p.waitingMarkers, ProvidedBy(gone))
      /\ q.waiting = [t \in DOMAIN p.waiting \ gone |->
                        IF m \in DOMAIN p.required /\ t \in p.required[m]
                        THEN Mark(p.waiting[t], m) ELSE p.waiting[t]]
  BY <1>0, MarkAndUnlockFields
<1> HIDE DEF q
<1>2. \A t \in DOMAIN p.waiting \ gone : ~(m \in DOMAIN p.required /\ t \in p.required[m])
  BY UnlockedByFacts
<1>3. q.waiting = Without(p.waiting, gone)
  BY <1>1, <1>2 DEF Without
<1>4. gone \subseteq DOMAIN p.waiting
  BY UnlockedByFacts
<1>5. /\ DOMAIN q.required = DOMAIN p.required \ {m} /\ IsFcn(q.required)
      /\ \A n \in DOMAIN q.required : q.required[n] = p.required[n]
  BY <1>1 DEF Without, IsFcn
<1>6. \A t \in DOMAIN p.waiting : p.waiting[t].missing = Requirement(t) /\ t \in Txs
  BY DEF PoolInv, WaitingNeeds
<1>7. \A t \in gone : Requirement(t) = {m}
  BY <1>6, UnlockedByFacts, RequirementTyped
<1>8. ASSUME NEW n
      PROVE  /\ n \in DOMAIN q.required <=>
                    \E t \in DOMAIN p.waiting \ gone : n \in p.waiting[t].missing
             /\ n \in DOMAIN q.required =>
                  q.required[n] = {t \in DOMAIN p.waiting \ gone : n \in p.waiting[t].missing}
  <2>1. n # m => \A t \in gone : n \notin p.waiting[t].missing
    BY <1>4, <1>6, <1>7
  <2>2. \A t \in DOMAIN p.waiting \ gone : m \notin p.waiting[t].missing
    BY <1>6, UnlockedByFacts
  <2>3. /\ n \in DOMAIN p.required <=> \E t \in DOMAIN p.waiting : n \in p.waiting[t].missing
        /\ n \in DOMAIN p.required =>
             p.required[n] = {t \in DOMAIN p.waiting : n \in p.waiting[t].missing}
    BY DEF PoolInv, WaitingIndexed
  <2> QED
    BY <1>5, <2>1, <2>2, <2>3
<1>9. PoolInv(q)
  <2>1. \A n : n \in DOMAIN q.required <=>
                  \E t \in DOMAIN p.waiting \ gone : n \in p.waiting[t].missing
    BY <1>8
  <2>2. \A n \in DOMAIN q.required :
           q.required[n] = {t \in DOMAIN p.waiting \ gone : n \in p.waiting[t].missing}
    BY <1>8
  <2>3. IsFcn(q) /\ DOMAIN q = Fields /\ SameReady(p, q) /\ IsFcn(q.required)
    BY <1>1, <1>5
  <2>4. q.waitingMarkers = Without(p.waitingMarkers, ProvidedBy(gone))
    BY <1>1
  <2> HIDE DEF gone
  <2> QED
    BY <1>3, <1>4, <2>1, <2>2, <2>3, <2>4, WaitingLeave
<1> QED
  BY <1>1, <1>3, <1>5, <1>9, WithoutFacts DEF q

LEMMA MarkNothing ==
    ASSUME NEW p, PoolInv(p), NEW m, m \notin DOMAIN p.required
    PROVE  MarkAndUnlock(p, m) = p
<1> DEFINE q == MarkAndUnlock(p, m)
<1>0. DOMAIN p = Fields /\ IsFcn(p)
  BY FieldsOfPool DEF PoolInv
<1>1. UnlockedBy(p, m) = {}
  BY UnlockedByFacts
<1>2. /\ IsFcn(q) /\ DOMAIN q = Fields /\ SameReady(p, q)
      /\ q.required = Without(p.required, {m})
      /\ q.waitingMarkers = Without(p.waitingMarkers, ProvidedBy({}))
      /\ q.waiting = [t \in DOMAIN p.waiting \ {} |->
                        IF m \in DOMAIN p.required /\ t \in p.required[m]
                        THEN Mark(p.waiting[t], m) ELSE p.waiting[t]]
  BY <1>0, <1>1, MarkAndUnlockFields
<1> HIDE DEF q
<1>3. q.required = p.required
  BY <1>2, WithoutNothing DEF PoolInv, WaitingIndexed
<1>4. q.waitingMarkers = p.waitingMarkers
  BY <1>2, WithoutNothing DEF PoolInv, WaitingIndexed, ProvidedBy
<1>5. q.waiting = p.waiting
  BY <1>2 DEF PoolInv, WaitingIndexed, IsFcn
<1>6. \A x \in Fields : q[x] = p[x]
  BY <1>2, <1>3, <1>4, <1>5 DEF SameReady, Fields
<1> QED
  BY <1>0, <1>2, <1>6 DEF IsFcn, q

LEMMA RemoveWaitingInv ==
    ASSUME NEW p, PoolInv(p), NEW S
    PROVE  LET q == RemoveWaiting(p, S)
           IN  /\ PoolInv(q) /\ SameReady(p, q)
               /\ DOMAIN q.waiting = DOMAIN p.waiting \ S
               /\ DOMAIN q.required \subseteq DOMAIN p.required
<1> DEFINE q == RemoveWaiting(p, S)
           gone == S \cap DOMAIN p.waiting
           rest(m) == p.required[m] \ {t \in gone : m \in p.waiting[t].missing}
<1>0. DOMAIN p = Fields
  BY FieldsOfPool DEF PoolInv
<1>1. /\ IsFcn(q) /\ DOMAIN q = Fields /\ SameReady(p, q)
      /\ q.required = [m \in {n \in DOMAIN p.required : rest(n) # {}} |-> rest(m)]
      /\ q.waitingMarkers = Without(p.waitingMarkers, ProvidedBy(gone))
      /\ q.waiting = Without(p.waiting, gone)
  BY <1>0, RemoveWaitingFields
<1> HIDE DEF q
<1>2. \A m \in DOMAIN p.required :
         rest(m) = {t \in DOMAIN p.waiting \ gone : m \in p.waiting[t].missing}
  BY DEF PoolInv, WaitingIndexed
<1>3. \A m : m \in DOMAIN p.required <=>
                \E t \in DOMAIN p.waiting : m \in p.waiting[t].missing
  BY DEF PoolInv, WaitingIndexed
<1> HIDE DEF rest
<1>4. /\ DOMAIN q.required = {n \in DOMAIN p.required : rest(n) # {}} /\ IsFcn(q.required)
      /\ \A m \in DOMAIN q.required : q.required[m] = rest(m)
  BY <1>1 DEF IsFcn
<1>5. \A m : m \in DOMAIN q.required <=>
                \E t \in DOMAIN p.waiting \ gone : m \in p.waiting[t].missing
  BY <1>2, <1>3, <1>4
<1>6. \A m \in DOMAIN q.required :
         q.required[m] = {t \in DOMAIN p.waiting \ gone : m \in p.waiting[t].missing}
  BY <1>2, <1>4
<1>7. gone \subseteq DOMAIN p.waiting /\ DOMAIN p.waiting \ gone = DOMAIN p.waiting \ S
  OBVIOUS
<1> HIDE DEF gone
<1>8. PoolInv(q)
  BY <1>1, <1>4, <1>5, <1>6, <1>7, WaitingLeave
<1>9. DOMAIN q.waiting = DOMAIN p.waiting \ S
  BY <1>1, <1>7 DEF Without
<1> QED
  BY <1>1, <1>4, <1>8, <1>9 DEF q

\* One transaction enters the waiting queue, where its marker is free.
LEMMA WaitingEnter ==
    ASSUME NEW p, PoolInv(p), NEW t \in Txs, t \notin DOMAIN p.ready,
           t \notin DOMAIN p.waiting, Provides(t) \notin DOMAIN p.waitingMarkers,
           Requirement(t) # {}, Requirement(t) \cap DOMAIN p.provided = {},
           NEW q, IsFcn(q), DOMAIN q = Fields, SameReady(p, q),
           q.waiting = Put(p.waiting, t, [requires |-> Requirement(t),
                                          missing |-> Requirement(t)]),
           q.waitingMarkers = Put(p.waitingMarkers, Provides(t), t),
           IsFcn(q.required),
           DOMAIN q.required = DOMAIN p.required \cup Requirement(t),
           \A m \in DOMAIN q.required :
              q.required[m] = (IF m \in DOMAIN p.required THEN p.required[m] ELSE {})
                                \cup (IF m \in Requirement(t) THEN {t} ELSE {})
    PROVE  PoolInv(q)
<1> DEFINE new == [requires |-> Requirement(t), missing |-> Requirement(t)]
<1>1. /\ DOMAIN q.waiting = DOMAIN p.waiting \cup {t} /\ IsFcn(q.waiting)
      /\ q.waiting[t] = new
      /\ \A u \in DOMAIN p.waiting : q.waiting[u] = p.waiting[u]
  BY DEF Put, IsFcn
<1>2. /\ DOMAIN q.waitingMarkers = DOMAIN p.waitingMarkers \cup {Provides(t)}
      /\ IsFcn(q.waitingMarkers) /\ q.waitingMarkers[Provides(t)] = t
      /\ \A m \in DOMAIN p.waitingMarkers : q.waitingMarkers[m] = p.waitingMarkers[m]
  BY DEF Put, IsFcn
<1>3. new.requires = Requirement(t) /\ new.missing = Requirement(t)
  OBVIOUS
<1>a. new \in [requires : SUBSET Markers, missing : SUBSET Markers]
  BY RequirementTyped
<1> HIDE DEF new
<1>4. DOMAIN q.waitingMarkers = ProvidedBy(DOMAIN q.waiting)
  <2>1. DOMAIN p.waitingMarkers = {Provides(u) : u \in DOMAIN p.waiting}
    BY DEF PoolInv, WaitingIndexed, ProvidedBy
  <2> QED
    BY <1>1, <1>2, <2>1 DEF ProvidedBy
<1>5. \A u \in DOMAIN q.waiting : q.waitingMarkers[Provides(u)] = u
  BY <1>1, <1>2 DEF PoolInv, WaitingIndexed, ProvidedBy
<1>6. DOMAIN q.required = UNION {q.waiting[u].missing : u \in DOMAIN q.waiting}
  <2>1. \A m : m \in DOMAIN p.required <=>
                  \E u \in DOMAIN p.waiting : m \in p.waiting[u].missing
    BY DEF PoolInv, WaitingIndexed
  <2>2. \A m : m \in DOMAIN q.required <=>
                  \E u \in DOMAIN q.waiting : m \in q.waiting[u].missing
    BY <1>1, <1>3, <2>1
  <2> QED
    BY <2>2
<1>7. \A m \in DOMAIN q.required :
         q.required[m] = {u \in DOMAIN q.waiting : m \in q.waiting[u].missing}
  <2> TAKE m \in DOMAIN q.required
  <2>1. (IF m \in DOMAIN p.required THEN p.required[m] ELSE {})
           = {u \in DOMAIN p.waiting : m \in p.waiting[u].missing}
    BY DEF PoolInv, WaitingIndexed
  <2>2. q.required[m] = {u \in DOMAIN p.waiting : m \in p.waiting[u].missing}
                           \cup (IF m \in Requirement(t) THEN {t} ELSE {})
    BY <2>1
  <2> QED
    BY <1>1, <1>3, <2>2
<1>8. WaitingIndexed(q)
  BY <1>1, <1>2, <1>4, <1>5, <1>6, <1>7 DEF WaitingIndexed
<1>9. WaitingNeeds(q)
  BY <1>1, <1>3, <1>a DEF PoolInv, WaitingNeeds, SameReady
<1>10. /\ DOMAIN q.waiting \subseteq Txs
       /\ DOMAIN q.ready \cap DOMAIN q.waiting = {}
  BY <1>1 DEF PoolInv, SameReady
<1> QED
  BY <1>8, <1>9, <1>10, ReadySideKept, FieldsOfPool DEF PoolInv

LEMMA AddWaitingInv ==
    ASSUME NEW p, PoolInv(p), NEW t \in Txs, t \notin DOMAIN p.ready,
           t \notin DOMAIN p.waiting,
           Requirement(t) # {}, Requirement(t) \cap DOMAIN p.provided = {}
    PROVE  LET q == AddWaiting(p, t, Requirement(t), Requirement(t))
           IN  /\ PoolInv(q) /\ SameReady(p, q)
               /\ DOMAIN q.waiting \subseteq DOMAIN p.waiting \cup {t}
<1>1. CASE \E u \in WaitingReplaced(p, t) : t.fee <= u.fee
  BY <1>1 DEF AddWaiting, SameReady
<1>2. CASE ~\E u \in WaitingReplaced(p, t) : t.fee <= u.fee
  <2> DEFINE old == WaitingReplaced(p, t)
             q == RemoveWaiting(p, old)
             e == [requires |-> Requirement(t), missing |-> Requirement(t)]
             req(m) == IF m \in DOMAIN q.required THEN q.required[m] ELSE {}
             r == AddWaiting(p, t, Requirement(t), Requirement(t))
  <2>1. /\ PoolInv(q) /\ SameReady(p, q)
        /\ DOMAIN q.waiting = DOMAIN p.waiting \ old
    BY RemoveWaitingInv
  <2>2. r = [q EXCEPT
                !.waiting = Put(@, t, e),
                !.waitingMarkers = Put(@, Provides(t), t),
                !.required = [m \in DOMAIN @ \cup Requirement(t) |->
                                req(m) \cup (IF m \in Requirement(t) THEN {t} ELSE {})]]
    BY <1>2 DEF AddWaiting
  <2>3. Provides(t) \notin DOMAIN q.waitingMarkers
    <3>1. \A u \in DOMAIN p.waiting : Provides(u) = Provides(t) => u \in old
      BY DEF PoolInv, WaitingIndexed, WaitingReplaced, ProvidedBy
    <3>2. DOMAIN q.waitingMarkers = {Provides(u) : u \in DOMAIN q.waiting}
      BY <2>1 DEF PoolInv, WaitingIndexed, ProvidedBy
    <3> QED
      BY <2>1, <3>1, <3>2
  <2>4. /\ t \notin DOMAIN q.ready /\ t \notin DOMAIN q.waiting
        /\ Requirement(t) \cap DOMAIN q.provided = {}
    BY <2>1 DEF SameReady
  <2>5. DOMAIN q = Fields
    BY <2>1, FieldsOfPool DEF PoolInv
  <2> HIDE DEF q, r, e
  <2>6. /\ IsFcn(r) /\ DOMAIN r = Fields /\ SameReady(q, r)
        /\ r.waiting = Put(q.waiting, t, e)
        /\ r.waitingMarkers = Put(q.waitingMarkers, Provides(t), t)
        /\ IsFcn(r.required)
        /\ DOMAIN r.required = DOMAIN q.required \cup Requirement(t)
        /\ \A m \in DOMAIN r.required :
             r.required[m] = req(m) \cup (IF m \in Requirement(t) THEN {t} ELSE {})
    BY <2>2, <2>5 DEF Fields, IsFcn, SameReady
  <2>7. PoolInv(r)
    BY <2>1, <2>3, <2>4, <2>6, WaitingEnter DEF e
  <2>8. DOMAIN r.waiting = DOMAIN q.waiting \cup {t}
    BY <2>6 DEF Put
  <2>9. SameReady(p, r)
    BY <2>1, <2>6 DEF SameReady
  <2> QED
    BY <2>1, <2>7, <2>8, <2>9 DEF r
<1> QED
  BY <1>1, <1>2

----------------------------------------------------------------------------
(* The ready queue *)

LEMMA WaitingSideKept ==
    ASSUME NEW p, PoolInv(p), NEW q, SameWaiting(p, q),
           \A m \in DOMAIN q.provided : m \notin DOMAIN p.required
    PROVE  /\ DOMAIN q.waiting \subseteq Txs /\ WaitingIndexed(q) /\ WaitingNeeds(q)
<1>1. WaitingIndexed(q)
  BY DEF PoolInv, WaitingIndexed, SameWaiting
<1>2. \A t \in DOMAIN p.waiting : p.waiting[t].missing \subseteq DOMAIN p.required
  BY DEF PoolInv, WaitingIndexed
<1>3. WaitingNeeds(q)
  BY <1>2 DEF PoolInv, WaitingNeeds, SameWaiting
<1> QED
  BY <1>1, <1>3 DEF PoolInv, SameWaiting

LEMMA EntryFacts ==
    ASSUME NEW e \in ReadyEntries, NEW S
    PROVE  /\ e.requires \subseteq Markers /\ e.unlocks \subseteq Txs /\ e.offset \in Nat
           /\ NotUnlocking(e, S) \in ReadyEntries
           /\ NotUnlocking(e, S).requires = e.requires
           /\ NotUnlocking(e, S).unlocks = e.unlocks \ S
           /\ NotUnlocking(e, S).offset = e.offset
           /\ S \subseteq Txs => Unlocking(e, S) \in ReadyEntries
           /\ Unlocking(e, S).requires = e.requires
           /\ Unlocking(e, S).unlocks = e.unlocks \cup S
           /\ Unlocking(e, S).offset = e.offset
BY DEF ReadyEntries, NotUnlocking, Unlocking

LEMMA MetFacts ==
    ASSUME NEW e \in ReadyEntries
    PROVE  /\ OneMoreMet(e) \in ReadyEntries
           /\ OneMoreMet(e).requires = e.requires
           /\ OneMoreMet(e).unlocks = e.unlocks
           /\ OneMoreMet(e).offset = e.offset + 1
BY DEF ReadyEntries, OneMoreMet

\* Each ready transaction provides a marker of its own, so that at most one
\* of them unlocks another.
LEMMA ReadyFacts ==
    ASSUME NEW p, PoolInv(p)
    PROVE  /\ \A t \in DOMAIN p.ready : t \in Txs /\ p.ready[t] \in ReadyEntries
           /\ \A t, u \in DOMAIN p.ready : Provides(t) = Provides(u) => t = u
           /\ \A t \in DOMAIN p.ready : p.ready[t].requires \subseteq Requirement(t)
           /\ \A t \in DOMAIN p.ready : \A u \in p.ready[t].unlocks :
                 u \in DOMAIN p.ready /\ Provides(t) \in p.ready[u].requires
           /\ \A t, x, u \in DOMAIN p.ready :
                 u \in p.ready[t].unlocks /\ u \in p.ready[x].unlocks => t = x
           /\ \A t \in DOMAIN p.ready : t \notin p.ready[t].unlocks
<1>1. /\ \A t \in DOMAIN p.ready : t \in Txs /\ p.ready[t] \in ReadyEntries
      /\ \A t, u \in DOMAIN p.ready : Provides(t) = Provides(u) => t = u
  BY DEF PoolInv, ReadyTyped, ReadyIndexed
<1>2. /\ \A t \in DOMAIN p.ready : p.ready[t].requires \subseteq Requirement(t)
      /\ \A t \in DOMAIN p.ready : \A u \in p.ready[t].unlocks :
            u \in DOMAIN p.ready /\ Provides(t) \in p.ready[u].requires
  BY DEF PoolInv, ReadyLinked
<1>3. ASSUME NEW t \in DOMAIN p.ready, NEW x \in DOMAIN p.ready, NEW u \in DOMAIN p.ready,
             u \in p.ready[t].unlocks, u \in p.ready[x].unlocks
      PROVE  t = x
  <2>1. Provides(t) \in Requirement(u) /\ Provides(x) \in Requirement(u)
    BY <1>2, <1>3
  <2> QED
    BY <1>1, <2>1, RequirementTyped
<1>4. ASSUME NEW t \in DOMAIN p.ready PROVE t \notin p.ready[t].unlocks
  BY <1>1, <1>2, NotItsOwn
<1> QED
  BY <1>1, <1>2, <1>3, <1>4

LEMMA UnlinkFacts ==
    ASSUME NEW p, PoolInv(p), NEW gone, gone \subseteq DOMAIN p.ready
    PROVE  LET q == Unlink(p, gone)
           IN  /\ DOMAIN q = Fields /\ SameWaiting(p, q) /\ q.provided = p.provided
               /\ q.independent = p.independent \ gone
               /\ q.older \subseteq Txs \X Txs
               /\ DOMAIN q.ready = DOMAIN p.ready \ gone
               /\ \A x \in DOMAIN q.ready :
                    /\ q.ready[x] \in ReadyEntries
                    /\ q.ready[x].requires = p.ready[x].requires
                    /\ q.ready[x].unlocks = p.ready[x].unlocks \ gone
                    /\ q.ready[x].offset = p.ready[x].offset
<1> DEFINE q == Unlink(p, gone)
           of(x) == {t \in gone : Provides(x) \in p.ready[t].requires}
<1>0. DOMAIN p = Fields
  BY FieldsOfPool DEF PoolInv
<1>1. /\ DOMAIN q = Fields /\ SameWaiting(p, q) /\ q.provided = p.provided
      /\ q.independent = p.independent \ gone
      /\ q.older \subseteq p.older
      /\ q.ready = [x \in DOMAIN p.ready \ gone |-> NotUnlocking(p.ready[x], of(x))]
  BY <1>0, UnlinkFields
<1>2. q.older \subseteq Txs \X Txs
  BY <1>1 DEF PoolInv
<1> HIDE DEF q
<1>3. /\ DOMAIN q.ready = DOMAIN p.ready \ gone
      /\ \A x \in DOMAIN q.ready : q.ready[x] = NotUnlocking(p.ready[x], of(x))
  BY <1>1
<1>4. \A x \in DOMAIN p.ready : p.ready[x].unlocks \ of(x) = p.ready[x].unlocks \ gone
  BY ReadyFacts
<1> HIDE DEF of
<1>5. \A x \in DOMAIN q.ready :
         /\ q.ready[x] \in ReadyEntries
         /\ q.ready[x].requires = p.ready[x].requires
         /\ q.ready[x].unlocks = p.ready[x].unlocks \ gone
         /\ q.ready[x].offset = p.ready[x].offset
  BY <1>3, <1>4, ReadyFacts, EntryFacts
<1> QED
  BY <1>1, <1>2, <1>3, <1>5 DEF q

\* Whatever a removed transaction unlocks is removed as well.
LEMMA DependentsClosed ==
    ASSUME NEW p, PoolInv(p), NEW S
    PROVE  /\ ReadyDependents(p, S) \subseteq DOMAIN p.ready
           /\ S \cap DOMAIN p.ready \subseteq ReadyDependents(p, S)
           /\ \A t \in ReadyDependents(p, S) : p.ready[t].unlocks \subseteq ReadyDependents(p, S)
<1>1. ReadyDependents(p, S) \subseteq DOMAIN p.ready
  BY DEF ReadyDependents
<1>2. S \cap DOMAIN p.ready \subseteq ReadyDependents(p, S)
  BY DEF ReadyDependents
<1>3. ASSUME NEW t \in ReadyDependents(p, S), NEW u \in p.ready[t].unlocks
      PROVE  u \in ReadyDependents(p, S)
  <2>1. u \in DOMAIN p.ready /\ t \in DOMAIN p.ready
    BY <1>1, ReadyFacts
  <2>2. SUFFICES ASSUME NEW X \in SUBSET DOMAIN p.ready,
                        \A x \in DOMAIN p.ready :
                            x \in S \/ (\E y \in X : x \in p.ready[y].unlocks) => x \in X
                 PROVE  u \in X
    BY <2>1 DEF ReadyDependents
  <2>3. t \in X
    BY <2>2 DEF ReadyDependents
  <2> QED
    BY <2>1, <2>2, <2>3
<1> QED
  BY <1>1, <1>2, <1>3

LEMMA RemoveReadyInv ==
    ASSUME NEW p, PoolInv(p), NEW S
    PROVE  LET q == RemoveReady(p, S)
           IN  /\ PoolInv(q) /\ SameWaiting(p, q)
               /\ DOMAIN q.ready \subseteq DOMAIN p.ready \ S
               /\ q.independent \subseteq p.independent
               /\ DOMAIN q.provided \subseteq DOMAIN p.provided
<1> DEFINE gone == ReadyDependents(p, S)
           r == Unlink(p, gone)
           q == RemoveReady(p, S)
<1>1. /\ gone \subseteq DOMAIN p.ready /\ S \cap DOMAIN p.ready \subseteq gone
      /\ \A t \in gone : p.ready[t].unlocks \subseteq gone
  BY DependentsClosed
<1>2. q = [r EXCEPT !.provided = Without(@, ProvidedBy(gone))]
  BY DEF RemoveReady
<1> HIDE DEF gone
<1>3. /\ DOMAIN r = Fields /\ SameWaiting(p, r) /\ r.provided = p.provided
      /\ r.independent = p.independent \ gone
      /\ r.older \subseteq Txs \X Txs
      /\ DOMAIN r.ready = DOMAIN p.ready \ gone
      /\ \A x \in DOMAIN r.ready :
           /\ r.ready[x] \in ReadyEntries
           /\ r.ready[x].requires = p.ready[x].requires
           /\ r.ready[x].unlocks = p.ready[x].unlocks \ gone
           /\ r.ready[x].offset = p.ready[x].offset
  BY <1>1, UnlinkFacts
<1> HIDE DEF r, q
<1>4. /\ IsFcn(q) /\ DOMAIN q = Fields /\ SameWaiting(p, q)
      /\ q.provided = Without(p.provided, ProvidedBy(gone))
      /\ q.ready = r.ready /\ q.independent = p.independent \ gone
      /\ q.older \subseteq Txs \X Txs
  BY <1>2, <1>3, ProvidedField DEF SameWaiting
<1>5. /\ DOMAIN q.provided = DOMAIN p.provided \ ProvidedBy(gone) /\ IsFcn(q.provided)
      /\ \A m \in DOMAIN q.provided : q.provided[m] = p.provided[m]
  BY <1>4 DEF Without, IsFcn
<1>6. ReadyIndexed(q)
  <2>1. DOMAIN p.provided = {Provides(t) : t \in DOMAIN p.ready}
    BY DEF PoolInv, ReadyIndexed, ProvidedBy
  <2>2. DOMAIN q.provided = {Provides(t) : t \in DOMAIN p.ready}
                              \ {Provides(t) : t \in gone}
    BY <1>5, <2>1 DEF ProvidedBy
  <2>3. DOMAIN q.provided = {Provides(t) : t \in DOMAIN p.ready \ gone}
    BY <1>1, <2>2, ReadyFacts
  <2>4. \A t \in DOMAIN q.ready : q.provided[Provides(t)] = t
    BY <1>3, <1>4, <1>5, <2>3 DEF PoolInv, ReadyIndexed
  <2> QED
    BY <1>3, <1>4, <1>5, <2>3, <2>4 DEF ReadyIndexed, ProvidedBy
<1>7. ReadyTyped(q.ready)
  BY <1>3, <1>4, ReadyFacts DEF ReadyTyped
<1>8. ReadyLinked(q.ready)
  BY <1>3, <1>4, ReadyFacts DEF ReadyLinked
<1>9. \A u \in DOMAIN q.ready : Parentless(q.ready, u) <=> Parentless(p.ready, u)
  BY <1>1, <1>3, <1>4 DEF Parentless
<1>10. IndependentExact(q)
  BY <1>3, <1>4, <1>9 DEF PoolInv, IndependentExact
<1>11. \A m \in DOMAIN q.provided : m \notin DOMAIN p.required
  BY <1>5, MissingFacts
<1>12. DOMAIN q.waiting \subseteq Txs /\ WaitingIndexed(q) /\ WaitingNeeds(q)
  BY <1>4, <1>11, WaitingSideKept
<1>13. DOMAIN q.ready \cap DOMAIN q.waiting = {}
  BY <1>3, <1>4 DEF PoolInv, SameWaiting
<1>14. PoolInv(q)
  BY <1>4, <1>6, <1>7, <1>8, <1>10, <1>12, <1>13, FieldsOfPool DEF PoolInv
<1> QED
  BY <1>1, <1>3, <1>4, <1>5, <1>14 DEF q

\* Adding a transaction that nobody waits for any more: what it replaces
\* hands over its links, and the provider of its requirement links to it.
LEMMA AddReadyInv ==
    ASSUME NEW p, PoolInv(p), NEW e \in [tx : Txs, requires : SUBSET Markers],
           e.tx \notin DOMAIN p.ready, e.tx \notin DOMAIN p.waiting,
           e.requires \subseteq Requirement(e.tx),
           Provides(e.tx) \notin DOMAIN p.required
    PROVE  LET q == AddReady(p, e)
           IN  /\ PoolInv(q) /\ SameWaiting(p, q)
               /\ e.tx \in DOMAIN q.ready
               /\ DOMAIN q.ready \subseteq DOMAIN p.ready \cup {e.tx}
               /\ DOMAIN q.provided = DOMAIN p.provided \cup {Provides(e.tx)}
               /\ q.independent \subseteq p.independent \cup {e.tx}
               /\ e.tx \in q.independent => e.requires \cap DOMAIN p.provided = {}
<1> DEFINE old == ReadyReplaced(p, e.tx)
           u == Unlink(p, old)
           inherited == UNION {p.ready[x].unlocks : x \in old}
           linked == {m \in e.requires : m \in DOMAIN u.provided}
           providers == {u.provided[m] : m \in linked}
           new == [requires |-> e.requires, unlocks |-> inherited,
                   offset |-> Cardinality(e.requires \ linked)]
           rest == [x \in DOMAIN u.ready |->
                      IF x \in providers THEN Unlocking(u.ready[x], {e.tx})
                      ELSE u.ready[x]]
           q == AddReady(p, e)
<1>t. e.tx \in Txs /\ e.requires \in SUBSET Markers
  OBVIOUS
<1>1. PICK t \in Txs : t = e.tx
  BY <1>t
<1>2. /\ old \subseteq DOMAIN p.ready
      /\ \A x \in DOMAIN p.ready : Provides(x) = Provides(t) <=> x \in old
  BY <1>1 DEF ReadyReplaced, PoolInv, ReadyIndexed, ProvidedBy
<1>3. /\ DOMAIN u = Fields /\ SameWaiting(p, u) /\ u.provided = p.provided
      /\ u.independent = p.independent \ old
      /\ u.older \subseteq Txs \X Txs
      /\ DOMAIN u.ready = DOMAIN p.ready \ old
      /\ \A x \in DOMAIN u.ready :
           /\ u.ready[x] \in ReadyEntries
           /\ u.ready[x].requires = p.ready[x].requires
           /\ u.ready[x].unlocks = p.ready[x].unlocks \ old
           /\ u.ready[x].offset = p.ready[x].offset
  BY <1>2, UnlinkFacts
<1>4. q = [u EXCEPT !.ready = Put(rest, t, new),
                    !.provided = Put(u.provided, Provides(t), t),
                    !.independent = IF linked = {} THEN u.independent \cup {t}
                                    ELSE u.independent,
                    !.older = u.older \cup ((DOMAIN u.ready) \X {t})]
  BY <1>1, <1>3 DEF AddReady, Fields
<1>5. linked = e.requires \cap DOMAIN p.provided /\ providers \subseteq DOMAIN p.ready
  BY <1>3 DEF PoolInv, ReadyIndexed, ProvidedBy
<1>6. \A x \in DOMAIN p.ready : x \in providers <=> Provides(x) \in e.requires
  BY <1>3, <1>5 DEF PoolInv, ReadyIndexed, ProvidedBy
<1>7. \A x \in DOMAIN p.ready : Provides(x) \in e.requires => x \notin old
  BY <1>1, <1>2, NotItsOwn
<1>8. \A c \in inherited : /\ c \in DOMAIN u.ready /\ c # t
                           /\ Provides(t) \in p.ready[c].requires
  <2> TAKE c \in inherited
  <2>1. PICK o \in old : c \in p.ready[o].unlocks
    OBVIOUS
  <2>2. c \in DOMAIN p.ready /\ Provides(o) \in p.ready[c].requires /\ c # o
    BY <1>2, <2>1, ReadyFacts
  <2>3. Provides(o) = Provides(t)
    BY <1>2
  <2>4. c \notin old
    BY <1>2, <2>2, <2>3, ReadyFacts
  <2> QED
    BY <1>1, <1>3, <2>2, <2>3, <2>4
<1>9. /\ new \in ReadyEntries /\ new.requires = e.requires /\ new.unlocks = inherited
      /\ new.offset = IF linked = {} /\ e.requires # {} THEN 1 ELSE 0
  <2>1. inherited \subseteq Txs
    BY <1>3, <1>8, ReadyFacts
  <2>2. e.requires \ linked \subseteq Requirement(t)
    BY <1>1
  <2>3. Cardinality(e.requires \ linked) = IF e.requires \ linked = {} THEN 0 ELSE 1
    BY <2>2, RequirementCardinality
  <2>4. linked = {} \/ linked = e.requires
    BY <1>1, RequirementTyped
  <2> HIDE DEF linked, inherited
  <2> QED
    BY <1>t, <2>1, <2>3, <2>4 DEF ReadyEntries
<1>10. \A x \in DOMAIN u.ready :
          /\ x # t
          /\ rest[x] \in ReadyEntries
          /\ rest[x].requires = p.ready[x].requires
          /\ rest[x].offset = p.ready[x].offset
          /\ rest[x].unlocks = (p.ready[x].unlocks \ old)
                                  \cup (IF Provides(x) \in e.requires THEN {t} ELSE {})
  BY <1>1, <1>3, <1>6, EntryFacts
<1>a. DOMAIN rest = DOMAIN u.ready
  OBVIOUS
<1> HIDE DEF u, q, new, rest, old, providers
<1>11. /\ IsFcn(q) /\ DOMAIN q = Fields /\ SameWaiting(u, q)
       /\ q.ready = Put(rest, t, new)
       /\ q.provided = Put(u.provided, Provides(t), t)
       /\ q.independent = (IF linked = {} THEN u.independent \cup {t} ELSE u.independent)
       /\ q.older = u.older \cup ((DOMAIN u.ready) \X {t})
  BY <1>3, <1>4 DEF Fields, IsFcn, SameWaiting
<1>12. /\ DOMAIN q.ready = (DOMAIN p.ready \ old) \cup {t} /\ q.ready[t] = new
       /\ \A x \in DOMAIN p.ready \ old : x # t /\ q.ready[x] = rest[x]
  BY <1>3, <1>10, <1>11, <1>a DEF Put
<1>13. /\ DOMAIN q.provided = DOMAIN p.provided \cup {Provides(t)}
       /\ q.provided[Provides(t)] = t
       /\ \A m \in DOMAIN p.provided : m # Provides(t) => q.provided[m] = p.provided[m]
       /\ IsFcn(q.provided)
  BY <1>3, <1>11 DEF Put, IsFcn
<1> HIDE DEF linked, inherited
<1>14. ReadyIndexed(q)
  <2>1. DOMAIN p.provided = {Provides(x) : x \in DOMAIN p.ready}
    BY DEF PoolInv, ReadyIndexed, ProvidedBy
  <2>2. DOMAIN q.provided = {Provides(x) : x \in (DOMAIN p.ready \ old) \cup {t}}
    BY <1>2, <1>13, <2>1
  <2>3. \A x \in DOMAIN q.ready : q.provided[Provides(x)] = x
    BY <1>2, <1>12, <1>13, <2>1 DEF PoolInv, ReadyIndexed
  <2> QED
    BY <1>12, <1>13, <2>2, <2>3 DEF ReadyIndexed, ProvidedBy
<1>15. ReadyTyped(q.ready)
  BY <1>3, <1>9, <1>10, <1>12, ReadyFacts DEF ReadyTyped
<1>16. ReadyLinked(q.ready)
  <2>1. q.ready[t].requires \subseteq Requirement(t)
    BY <1>1, <1>9, <1>12
  <2>2. ASSUME NEW c \in q.ready[t].unlocks
        PROVE  c \in DOMAIN q.ready /\ Provides(t) \in q.ready[c].requires
    BY <1>3, <1>8, <1>9, <1>10, <1>12, <2>2
  <2>3. ASSUME NEW x \in DOMAIN p.ready \ old
        PROVE  q.ready[x].requires \subseteq Requirement(x)
    BY <1>3, <1>10, <1>12, ReadyFacts
  <2>4. ASSUME NEW x \in DOMAIN p.ready \ old, NEW c \in q.ready[x].unlocks
        PROVE  c \in DOMAIN q.ready /\ Provides(x) \in q.ready[c].requires
    <3>1. CASE c = t
      <4>1. t \notin p.ready[x].unlocks
        BY <1>1, ReadyFacts
      <4>2. Provides(x) \in e.requires
        BY <1>3, <1>10, <1>12, <2>4, <3>1, <4>1
      <4> QED
        BY <1>9, <1>12, <3>1, <4>2
    <3>2. CASE c # t
      <4>1. c \in p.ready[x].unlocks \ old
        BY <1>3, <1>10, <1>12, <2>4, <3>2
      <4> QED
        BY <1>3, <1>10, <1>12, <4>1, ReadyFacts
    <3> QED
      BY <3>1, <3>2
  <2> QED
    BY <1>12, <2>1, <2>2, <2>3, <2>4 DEF ReadyLinked
<1>17. IndependentExact(q)
  <2>1. q.independent \subseteq DOMAIN q.ready
    BY <1>3, <1>11, <1>12 DEF PoolInv, IndependentExact
  <2>2. t \in q.independent <=> linked = {}
    BY <1>1, <1>3, <1>11 DEF PoolInv, IndependentExact
  <2>3. Parentless(q.ready, t) <=> linked = {}
    <3>1. t \notin q.ready[t].unlocks
      BY <1>8, <1>9, <1>12
    <3>2. \A x \in DOMAIN p.ready \ old :
             t \in q.ready[x].unlocks <=> Provides(x) \in e.requires
      BY <1>1, <1>3, <1>10, <1>12, ReadyFacts
    <3>3. linked = {} <=> \A x \in DOMAIN p.ready : Provides(x) \notin e.requires
      BY <1>5 DEF PoolInv, ReadyIndexed, ProvidedBy
    <3> QED
      BY <1>7, <1>12, <3>1, <3>2, <3>3 DEF Parentless
  <2>4. q.ready[t].offset = IF t \in q.independent /\ q.ready[t].requires # {} THEN 1 ELSE 0
    BY <1>9, <1>12, <2>2
  <2>5. ASSUME NEW x \in DOMAIN p.ready \ old
        PROVE  /\ x \in q.independent <=> Parentless(q.ready, x)
               /\ q.ready[x].offset =
                    IF x \in q.independent /\ q.ready[x].requires # {} THEN 1 ELSE 0
    <3>1. x \in q.independent <=> x \in p.independent
      BY <1>3, <1>11, <1>12, <2>5
    <3>2. Parentless(q.ready, x) <=> Parentless(p.ready, x)
      <4>1. ASSUME NEW y \in DOMAIN p.ready, x \in p.ready[y].unlocks
            PROVE  \E z \in DOMAIN q.ready : x \in q.ready[z].unlocks
        <5>1. CASE y \in old
          BY <1>9, <1>12, <4>1, <5>1 DEF inherited
        <5>2. CASE y \notin old
          BY <1>3, <1>10, <1>12, <2>5, <4>1, <5>2
        <5> QED
          BY <5>1, <5>2
      <4>2. ASSUME NEW z \in DOMAIN q.ready, x \in q.ready[z].unlocks
            PROVE  \E y \in DOMAIN p.ready : x \in p.ready[y].unlocks
        <5>1. CASE z = t
          BY <1>2, <1>9, <1>12, <4>2, <5>1 DEF inherited
        <5>2. CASE z # t
          BY <1>3, <1>10, <1>12, <2>5, <4>2, <5>2
        <5> QED
          BY <5>1, <5>2
      <4> QED
        BY <4>1, <4>2 DEF Parentless
    <3>3. q.ready[x].requires = p.ready[x].requires /\ q.ready[x].offset = p.ready[x].offset
      BY <1>3, <1>10, <1>12
    <3> QED
      BY <3>1, <3>2, <3>3 DEF PoolInv, IndependentExact
  <2> QED
    BY <1>12, <2>1, <2>2, <2>3, <2>4, <2>5 DEF IndependentExact
<1>18. SameWaiting(p, q)
  BY <1>3, <1>11 DEF SameWaiting
<1>19. \A m \in DOMAIN q.provided : m \notin DOMAIN p.required
  BY <1>1, <1>13, MissingFacts
<1>20. DOMAIN q.waiting \subseteq Txs /\ WaitingIndexed(q) /\ WaitingNeeds(q)
  BY <1>18, <1>19, WaitingSideKept
<1>21. DOMAIN q.ready \cap DOMAIN q.waiting = {}
  BY <1>1, <1>12, <1>18 DEF PoolInv, SameWaiting
<1>22. q.older \subseteq Txs \X Txs
  BY <1>3, <1>11, ReadyFacts
<1>23. PoolInv(q)
  BY <1>11, <1>14, <1>15, <1>16, <1>17, <1>20, <1>21, <1>22, FieldsOfPool DEF PoolInv
<1>24. /\ q.independent \subseteq p.independent \cup {t}
       /\ t \in q.independent => linked = {}
  BY <1>1, <1>3, <1>11 DEF PoolInv, IndependentExact
<1> QED
  BY <1>1, <1>5, <1>12, <1>13, <1>18, <1>23, <1>24 DEF q

\* Pruning a transaction frees those it unlocks: their one requirement is met.
LEMMA PruneReadyInv ==
    ASSUME NEW p, PoolInv(p), NEW t \in DOMAIN p.ready
    PROVE  LET q == PruneReady(p, t)
           IN  /\ PoolInv(q) /\ SameWaiting(p, q)
               /\ DOMAIN q.ready \subseteq DOMAIN p.ready
               /\ q.independent \subseteq p.independent \cup p.ready[t].unlocks
<1> DEFINE u == Unlink(p, {t})
           freed == p.ready[t].unlocks \cap DOMAIN u.ready
           rest == [x \in DOMAIN u.ready |->
                      IF x \in freed THEN OneMoreMet(u.ready[x]) ELSE u.ready[x]]
           q == PruneReady(p, t)
<1>1. /\ DOMAIN u = Fields /\ SameWaiting(p, u) /\ u.provided = p.provided
      /\ u.independent = p.independent \ {t}
      /\ u.older \subseteq Txs \X Txs
      /\ DOMAIN u.ready = DOMAIN p.ready \ {t}
      /\ \A x \in DOMAIN u.ready :
           /\ u.ready[x] \in ReadyEntries
           /\ u.ready[x].requires = p.ready[x].requires
           /\ u.ready[x].unlocks = p.ready[x].unlocks \ {t}
           /\ u.ready[x].offset = p.ready[x].offset
  BY UnlinkFacts
<1>2. q = [u EXCEPT !.ready = rest,
                    !.independent = u.independent \cup {x \in freed :
                        p.ready[x].offset + 1 = Cardinality(p.ready[x].requires)},
                    !.provided = Without(u.provided, {Provides(t)})]
  BY <1>1 DEF PruneReady, Fields
<1>3. freed = p.ready[t].unlocks
  BY <1>1, ReadyFacts
<1>4. \A x \in freed : /\ p.ready[x].offset = 0 /\ Cardinality(p.ready[x].requires) = 1
                       /\ x \notin p.independent /\ p.ready[x].requires # {}
  <2> TAKE x \in freed
  <2>1. x \in DOMAIN p.ready /\ ~Parentless(p.ready, x) /\ x \in Txs
    BY <1>1, ReadyFacts DEF Parentless
  <2>2. p.ready[x].offset = 0 /\ x \notin p.independent
    BY <2>1 DEF PoolInv, IndependentExact
  <2>3. p.ready[x].requires # {} /\ p.ready[x].requires \subseteq Requirement(x)
    BY <1>3, <2>1, ReadyFacts
  <2> QED
    BY <2>1, <2>2, <2>3, RequirementCardinality
<1> HIDE DEF freed
<1>5. {x \in freed : p.ready[x].offset + 1 = Cardinality(p.ready[x].requires)} = freed
  BY <1>4
<1>b. \A x \in DOMAIN u.ready :
         rest[x] = IF x \in freed THEN OneMoreMet(u.ready[x]) ELSE u.ready[x]
  OBVIOUS
<1>6. \A x \in DOMAIN u.ready :
         /\ rest[x] \in ReadyEntries
         /\ rest[x].requires = p.ready[x].requires
         /\ rest[x].unlocks = p.ready[x].unlocks \ {t}
         /\ rest[x].offset = IF x \in freed THEN p.ready[x].offset + 1 ELSE p.ready[x].offset
  <2> HIDE DEF u, rest
  <2> QED
    BY <1>1, <1>b, MetFacts
<1>a. DOMAIN rest = DOMAIN u.ready
  OBVIOUS
<1> HIDE DEF u, q, rest
<1>7. /\ IsFcn(q) /\ DOMAIN q = Fields /\ SameWaiting(u, q)
      /\ q.ready = rest
      /\ q.independent = u.independent \cup freed
      /\ q.provided = Without(u.provided, {Provides(t)})
      /\ q.older = u.older
  BY <1>1, <1>2, <1>5 DEF Fields, IsFcn, SameWaiting
<1>8. DOMAIN q.ready = DOMAIN p.ready \ {t}
  BY <1>1, <1>7, <1>a
<1>9. /\ DOMAIN q.provided = DOMAIN p.provided \ {Provides(t)} /\ IsFcn(q.provided)
      /\ \A m \in DOMAIN q.provided : q.provided[m] = p.provided[m]
  BY <1>1, <1>7 DEF Without, IsFcn
<1>10. ReadyIndexed(q)
  <2>1. DOMAIN p.provided = {Provides(x) : x \in DOMAIN p.ready}
    BY DEF PoolInv, ReadyIndexed, ProvidedBy
  <2>2. DOMAIN q.provided = {Provides(x) : x \in DOMAIN p.ready \ {t}}
    BY <1>9, <2>1, ReadyFacts
  <2>3. \A x \in DOMAIN q.ready : q.provided[Provides(x)] = x
    BY <1>8, <1>9, <2>2 DEF PoolInv, ReadyIndexed
  <2> QED
    BY <1>8, <1>9, <2>2, <2>3 DEF ReadyIndexed, ProvidedBy
<1>11. ReadyTyped(q.ready)
  BY <1>1, <1>6, <1>7, <1>8, ReadyFacts DEF ReadyTyped
<1>12. ReadyLinked(q.ready)
  BY <1>1, <1>6, <1>7, <1>8, ReadyFacts DEF ReadyLinked
<1>13. IndependentExact(q)
  <2>1. q.independent \subseteq DOMAIN q.ready
    BY <1>1, <1>3, <1>7, <1>8, ReadyFacts DEF PoolInv, IndependentExact
  <2>2. ASSUME NEW x \in DOMAIN q.ready
        PROVE  /\ x \in q.independent <=> Parentless(q.ready, x)
               /\ q.ready[x].offset =
                    IF x \in q.independent /\ q.ready[x].requires # {} THEN 1 ELSE 0
    <3>0. /\ x \in DOMAIN p.ready /\ x # t /\ x \in DOMAIN u.ready
          /\ \A y \in DOMAIN q.ready : x \in q.ready[y].unlocks <=> x \in p.ready[y].unlocks
      BY <1>1, <1>6, <1>7, <1>8, <2>2
    <3>1. CASE x \in freed
      <4>1. x \in q.independent
        BY <1>7, <3>1
      <4>2. Parentless(q.ready, x)
        BY <1>3, <1>8, <3>0, <3>1, ReadyFacts DEF Parentless
      <4>3. q.ready[x].offset = 1 /\ q.ready[x].requires # {}
        BY <1>4, <1>6, <1>7, <3>0, <3>1
      <4> QED
        BY <4>1, <4>2, <4>3
    <3>2. CASE x \notin freed
      <4>1. x \in q.independent <=> x \in p.independent
        BY <1>1, <1>7, <3>0, <3>2
      <4>2. Parentless(q.ready, x) <=> Parentless(p.ready, x)
        BY <1>3, <1>8, <3>0, <3>2 DEF Parentless
      <4>3. q.ready[x].offset = p.ready[x].offset /\ q.ready[x].requires = p.ready[x].requires
        BY <1>6, <1>7, <3>0, <3>2
      <4> QED
        BY <3>0, <4>1, <4>2, <4>3 DEF PoolInv, IndependentExact
    <3> QED
      BY <3>1, <3>2
  <2> QED
    BY <2>1, <2>2 DEF IndependentExact
<1>14. SameWaiting(p, q)
  BY <1>1, <1>7 DEF SameWaiting
<1>15. \A m \in DOMAIN q.provided : m \notin DOMAIN p.required
  BY <1>9, MissingFacts
<1>16. DOMAIN q.waiting \subseteq Txs /\ WaitingIndexed(q) /\ WaitingNeeds(q)
  BY <1>14, <1>15, WaitingSideKept
<1>17. DOMAIN q.ready \cap DOMAIN q.waiting = {}
  BY <1>8, <1>14 DEF PoolInv, SameWaiting
<1>18. q.older \subseteq Txs \X Txs
  BY <1>1, <1>7
<1>19. PoolInv(q)
  BY <1>7, <1>10, <1>11, <1>12, <1>13, <1>16, <1>17, <1>18, FieldsOfPool DEF PoolInv
<1>20. q.independent \subseteq p.independent \cup p.ready[t].unlocks
  BY <1>1, <1>3, <1>7
<1> QED
  BY <1>8, <1>14, <1>19, <1>20 DEF q

LEMMA EmptyPoolInv ==
    /\ PoolInv(EmptyPool) /\ DOMAIN EmptyPool.ready = {} /\ DOMAIN EmptyPool.waiting = {}
    /\ EmptyPool.independent = {} /\ DOMAIN EmptyPool.required = {}
<1>1. DOMAIN <<>> = {} /\ IsFcn(<<>>)
  BY DEF IsFcn
<1>2. /\ EmptyPool.ready = <<>> /\ EmptyPool.provided = <<>> /\ EmptyPool.independent = {}
      /\ EmptyPool.older = {} /\ EmptyPool.waiting = <<>> /\ EmptyPool.required = <<>>
      /\ EmptyPool.waitingMarkers = <<>> /\ IsFcn(EmptyPool)
  BY DEF EmptyPool, IsFcn
<1>3. ReadyIndexed(EmptyPool) /\ ReadyTyped(EmptyPool.ready) /\ ReadyLinked(EmptyPool.ready)
  BY <1>1, <1>2 DEF ReadyIndexed, ReadyTyped, ReadyLinked, ProvidedBy
<1>4. WaitingIndexed(EmptyPool) /\ WaitingNeeds(EmptyPool) /\ IndependentExact(EmptyPool)
  BY <1>1, <1>2 DEF WaitingIndexed, WaitingNeeds, IndependentExact, ProvidedBy
<1> QED
  BY <1>1, <1>2, <1>3, <1>4 DEF PoolInv

----------------------------------------------------------------------------
(* Jobs and blocks *)

JobFields == {"queue", "new", "markers", "stack"}

BlockFields == {"state", "all", "best", "older", "left", "yielded", "unavailable",
                "included", "stale", "invalid", "nonces"}

LEMMA FieldsOfJobs == DOMAIN NoJob = JobFields /\ DOMAIN NoBlock = BlockFields
BY DEF NoJob, JobFields, NoBlock, BlockFields

LEMMA NoJobFacts ==
    /\ NoJob.queue = {} /\ NoJob.new = FALSE /\ NoJob.markers = {} /\ NoJob.stack = {}
    /\ IsFcn(NoJob)
BY DEF NoJob, IsFcn

LEMMA NoBlockFacts ==
    /\ NoBlock.state = "none" /\ NoBlock.left = 0 /\ NoBlock.all = <<>>
    /\ NoBlock.best = {} /\ NoBlock.yielded = {} /\ NoBlock.unavailable = {}
    /\ NoBlock.included = {} /\ NoBlock.stale = {} /\ NoBlock.invalid = {}
BY DEF NoBlock

LEMMA JobRecord ==
    ASSUME NEW j, IsFcn(j), DOMAIN j = JobFields, j.queue = {}, j.new = FALSE,
           j.markers = {}, j.stack = {}
    PROVE  j = NoJob
<1>1. \A x \in JobFields : j[x] = NoJob[x]
  BY NoJobFacts DEF JobFields
<1> QED
  BY <1>1, FieldsOfJobs, NoJobFacts DEF IsFcn

LEMMA NoJobOK == ASSUME job' = NoJob PROVE JobOK'
BY NoJobFacts DEF JobOK, QueueOK

LEMMA NoBlockOK == ASSUME block' = NoBlock PROVE BlockTyped' /\ BlockOK'
<1>1. DOMAIN <<>> = {}
  OBVIOUS
<1>2. BlockTyped'
  BY <1>1, NoBlockFacts DEF BlockTyped, ReadyTyped
<1>3. BlockOK'
  BY <1>1, NoBlockFacts DEF BlockOK, ReadyLinked
<1> QED
  BY <1>2, <1>3

\* A block goes on beside operations on the pool as long as nobody comes to
\* wait for what it holds.
LEMMA BlockKept ==
    ASSUME TxPoolInv, UNCHANGED block,
           \/ block.state = "none"
           \/ UNCHANGED job /\ DOMAIN pool'.required \subseteq DOMAIN pool.required
    PROVE  BlockTyped' /\ BlockOK'
<1>1. CASE block.state = "none"
  <2>1. block' = NoBlock
    BY <1>1 DEF TxPoolInv, BlockTyped
  <2> QED
    BY <2>1, NoBlockOK
<1>2. CASE UNCHANGED job /\ DOMAIN pool'.required \subseteq DOMAIN pool.required
  <2>1. BlockTyped'
    BY <1>2 DEF TxPoolInv, BlockTyped
  <2>2. BlockOK'
    BY <1>2 DEF TxPoolInv, BlockOK
  <2> QED
    BY <2>1, <2>2
<1> QED
  BY <1>1, <1>2

LEMMA BusyPool ==
    ASSUME TxPoolInv, job # NoJob
    PROVE  block.state = "none"
BY DEF TxPoolInv, BlockTyped

LEMMA ChainKept ==
    ASSUME TxPoolInv, UNCHANGED <<heads, snapshots>>
    PROVE  IsHeads(heads') /\ SnapshotsOK'
BY DEF TxPoolInv, SnapshotsOK

\* The RPCs that take transactions out of the pool.
LEMMA PoolShrinks ==
    ASSUME TxPoolInv, PoolInv(pool'), job = NoJob,
           DOMAIN pool'.required \subseteq DOMAIN pool.required,
           UNCHANGED <<job, block, heads, snapshots>>
    PROVE  TxPoolInv'
<1>1. JobOK'
  BY NoJobOK
<1>2. BlockTyped' /\ BlockOK'
  BY BlockKept
<1> QED
  BY <1>1, <1>2, ChainKept DEF TxPoolInv

LEMMA DropTransactionInv ==
    ASSUME TxPoolInv, NEW t \in Txs, DropTransaction(t)
    PROVE  TxPoolInv'
<1> DEFINE p == RemoveReady(pool, {t})
           S == WaitingDependents(p, {t}, ProvidedBy(ReadyDependents(pool, {t})))
<1>1. pool' = RemoveWaiting(p, S) /\ job = NoJob /\ UNCHANGED <<job, block, heads, snapshots>>
  BY DEF DropTransaction, Unlocked
<1>2. PoolInv(p) /\ SameWaiting(pool, p)
  BY RemoveReadyInv DEF TxPoolInv
<1> HIDE DEF p, S
<1>3. PoolInv(pool') /\ DOMAIN pool'.required \subseteq DOMAIN p.required
  BY <1>1, <1>2, RemoveWaitingInv
<1> QED
  BY <1>1, <1>2, <1>3, PoolShrinks DEF SameWaiting

LEMMA RemoveInvalidInv ==
    ASSUME NEW p, PoolInv(p), NEW S
    PROVE  LET q == RemoveInvalid(p, S)
           IN  /\ PoolInv(q) /\ DOMAIN q.required \subseteq DOMAIN p.required
               /\ DOMAIN q.waiting \subseteq DOMAIN p.waiting
               /\ q.independent \subseteq p.independent
<1> DEFINE r == RemoveReady(p, S)
<1>1. PoolInv(r) /\ SameWaiting(p, r) /\ r.independent \subseteq p.independent
  BY RemoveReadyInv
<1> HIDE DEF r
<1>2. LET q == RemoveWaiting(r, S)
      IN  /\ PoolInv(q) /\ SameReady(r, q)
          /\ DOMAIN q.waiting = DOMAIN r.waiting \ S
          /\ DOMAIN q.required \subseteq DOMAIN r.required
  BY <1>1, RemoveWaitingInv
<1> QED
  BY <1>1, <1>2 DEF RemoveInvalid, SameWaiting, SameReady, r

LEMMA RemoveByAddressInv ==
    ASSUME TxPoolInv, NEW s, RemoveTransactionsByAddress(s)
    PROVE  TxPoolInv'
<1>1. PICK S : pool' = RemoveInvalid(pool, S)
  BY DEF RemoveTransactionsByAddress
<1>2. job = NoJob /\ UNCHANGED <<job, block, heads, snapshots>>
  BY DEF RemoveTransactionsByAddress, Unlocked
<1>3. PoolInv(pool') /\ DOMAIN pool'.required \subseteq DOMAIN pool.required
  BY <1>1, RemoveInvalidInv DEF TxPoolInv
<1> QED
  BY <1>2, <1>3, PoolShrinks

LEMMA ClearInv == ASSUME TxPoolInv, Clear PROVE TxPoolInv'
<1>1. /\ pool' = EmptyPool /\ job = NoJob /\ UNCHANGED <<job, block, heads, snapshots>>
  BY DEF Clear, Unlocked
<1>2. PoolInv(pool') /\ DOMAIN pool'.required \subseteq DOMAIN pool.required
  BY <1>1, EmptyPoolInv
<1> QED
  BY <1>1, <1>2, PoolShrinks

----------------------------------------------------------------------------
(* Adding transactions *)

LEMMA RequiredMarkerFacts ==
    ASSUME NEW t \in Txs, NEW n \in Nonces
    PROVE  /\ t.nonce <= n => RequiredMarker(t, n) = {}
           /\ t.nonce > n => RequiredMarker(t, n) = Requirement(t) /\ Requirement(t) # {}
<1>1. t.nonce \in Nat /\ n \in Nat
  BY TxFacts, PoolAssumption DEF Nonces
<1>2. CASE t.nonce <= n
  <2>1. t.nonce = n \/ n > (IF t.nonce = 0 THEN 0 ELSE t.nonce - 1)
    BY <1>1, <1>2
  <2> QED
    BY <1>1, <1>2, <2>1 DEF RequiredMarker
<1>3. CASE t.nonce > n
  <2>1. /\ t.nonce # 0 /\ t.nonce # n /\ ~(n > t.nonce - 1)
    BY <1>1, <1>3
  <2>2. Requirement(t) = {<<t.sender, t.nonce - 1>>}
    BY <2>1 DEF Requirement
  <2>3. RequiredMarker(t, n) = {<<t.sender, t.nonce - 1>>}
    BY <2>1, Zenon DEF RequiredMarker
  <2>4. ~(t.nonce <= n)
    BY <1>1, <1>3
  <2> QED
    BY <1>3, <2>2, <2>3, <2>4
<1> QED
  BY <1>1, <1>2, <1>3

LEMMA HeadFacts ==
    ASSUME IsHeads(heads)
    PROVE  Head_ \in [Senders -> Nonces] /\ \A s \in Senders : Head_[s] \in Nat
<1>1. Len(heads) \in DOMAIN heads /\ Head_ \in [Senders -> Nonces]
  BY DEF IsHeads, Head_
<1>2. \A s \in Senders : Head_[s] \in Nonces
  BY <1>1
<1> QED
  BY <1>1, <1>2, PoolAssumption DEF Nonces

\* What a submission finds: a marker that the queue does not provide, or none.
LEMMA SubmitFacts ==
    ASSUME TxPoolInv, NEW t \in Txs, SubmitTx(t)
    PROVE  /\ job = NoJob /\ block = NoBlock /\ UNCHANGED <<block, heads, snapshots>>
           /\ t \notin DOMAIN pool.ready /\ t \notin DOMAIN pool.waiting
           /\ \/ /\ pool' = AddWaiting(pool, t, Requirement(t), Requirement(t))
                 /\ Requirement(t) # {} /\ Requirement(t) \cap DOMAIN pool.provided = {}
                 /\ t.nonce > Head_[t.sender]
                 /\ UNCHANGED job
              \/ \E R \in SUBSET Markers :
                    /\ job' = [NoJob EXCEPT !.queue = {[tx |-> t, requires |-> R]},
                                            !.new = TRUE]
                    /\ R \subseteq Requirement(t) /\ R \subseteq DOMAIN pool.provided
                    /\ R = {} => t.nonce <= Head_[t.sender]
                    /\ UNCHANGED pool
<1> DEFINE n == Head_[t.sender]
           R == RequiredMarker(t, n)
<1>1. n \in Nonces /\ n \in Nat /\ t.nonce \in Nat
  BY HeadFacts, TxFacts DEF TxPoolInv
<1>2. /\ job = NoJob /\ block = NoBlock /\ UNCHANGED <<block, heads, snapshots>>
      /\ t \notin DOMAIN pool.ready /\ t \notin DOMAIN pool.waiting
  BY DEF SubmitTx, MutexFree, Unlocked, InPool, TxPoolInv, BlockTyped
<1>3. \/ /\ R \ DOMAIN pool.provided # {}
         /\ pool' = AddWaiting(pool, t, R, R \ DOMAIN pool.provided)
         /\ UNCHANGED job
      \/ /\ R \ DOMAIN pool.provided = {}
         /\ job' = [NoJob EXCEPT !.queue = {[tx |-> t, requires |-> R]}, !.new = TRUE]
         /\ UNCHANGED pool
  BY DEF SubmitTx, MissingMarkers
<1>4. /\ R = {} \/ R = Requirement(t)
      /\ R = {} => t.nonce <= n
      /\ R # {} => t.nonce > n
  BY <1>1, RequiredMarkerFacts
<1> HIDE DEF R, n
<1>5. CASE /\ R \ DOMAIN pool.provided # {}
           /\ pool' = AddWaiting(pool, t, R, R \ DOMAIN pool.provided)
           /\ UNCHANGED job
  <2>1. R = Requirement(t) /\ R # {} /\ t.nonce > n
    BY <1>4, <1>5
  <2>2. R \ DOMAIN pool.provided = R /\ R \cap DOMAIN pool.provided = {}
    BY <1>5, <2>1, RequirementTyped
  <2> QED
    BY <1>2, <1>5, <2>1, <2>2 DEF n
<1>6. CASE /\ R \ DOMAIN pool.provided = {}
           /\ job' = [NoJob EXCEPT !.queue = {[tx |-> t, requires |-> R]}, !.new = TRUE]
           /\ UNCHANGED pool
  <2>1. R \in SUBSET Markers /\ R \subseteq Requirement(t) /\ R \subseteq DOMAIN pool.provided
    BY <1>4, <1>6, RequirementTyped
  <2>2. R = {} => t.nonce <= Head_[t.sender]
    BY <1>4 DEF n
  <2> QED
    BY <1>2, <1>6, <2>1, <2>2
<1> QED
  BY <1>3, <1>5, <1>6

LEMMA SubmitTxInv ==
    ASSUME TxPoolInv, NEW t \in Txs, SubmitTx(t)
    PROVE  TxPoolInv'
<1>1. /\ job = NoJob /\ block = NoBlock /\ UNCHANGED <<block, heads, snapshots>>
      /\ t \notin DOMAIN pool.ready /\ t \notin DOMAIN pool.waiting
  BY SubmitFacts
<1>2. BlockTyped' /\ BlockOK'
  BY <1>1, NoBlockOK
<1>3. IsHeads(heads') /\ SnapshotsOK'
  BY <1>1, ChainKept
<1>4. CASE /\ pool' = AddWaiting(pool, t, Requirement(t), Requirement(t))
           /\ Requirement(t) # {} /\ Requirement(t) \cap DOMAIN pool.provided = {}
           /\ UNCHANGED job
  <2>1. PoolInv(pool')
    BY <1>1, <1>4, AddWaitingInv DEF TxPoolInv
  <2>2. JobOK'
    BY <1>1, <1>4, NoJobOK
  <2> QED
    BY <1>2, <1>3, <2>1, <2>2 DEF TxPoolInv
<1>5. ASSUME NEW R \in SUBSET Markers,
             job' = [NoJob EXCEPT !.queue = {[tx |-> t, requires |-> R]}, !.new = TRUE],
             R \subseteq Requirement(t), R \subseteq DOMAIN pool.provided,
             UNCHANGED pool
      PROVE  TxPoolInv'
  <2> DEFINE e == [tx |-> t, requires |-> R]
  <2>1. e \in [tx : Txs, requires : SUBSET Markers] /\ e.tx = t /\ e.requires = R
    OBVIOUS
  <2> HIDE DEF e
  <2>2. /\ IsFcn(job') /\ DOMAIN job' = DOMAIN NoJob
        /\ job'.queue = {e} /\ job'.new = TRUE /\ job'.markers = {} /\ job'.stack = {}
    BY <1>5 DEF NoJob, IsFcn, e
  <2>3. QueueOK(pool', job'.queue)
    BY <1>1, <1>5, <2>1, <2>2 DEF QueueOK
  <2>4. JobOK'
    BY <2>2, <2>3 DEF JobOK
  <2> QED
    BY <1>2, <1>3, <1>5, <2>4 DEF TxPoolInv
<1> QED
  BY <1>4, <1>5, SubmitFacts

LEMMA EntriesFacts ==
    ASSUME NEW p, PoolInv(p), NEW m, NEW f \in Entries(p, m)
    PROVE  /\ f \in [tx : Txs, requires : SUBSET Markers]
           /\ f.tx \in DOMAIN p.waiting /\ f.tx \in UnlockedBy(p, m)
           /\ f.requires = Requirement(f.tx) /\ Requirement(f.tx) = {m}
           /\ f = [tx |-> f.tx, requires |-> Requirement(f.tx)]
<1>1. PICK u \in UnlockedBy(p, m) : f = Entry(p, u)
  BY DEF Entries
<1>2. u \in DOMAIN p.waiting /\ m \in Requirement(u)
  BY UnlockedByFacts
<1>3. u \in Txs /\ p.waiting[u].requires = Requirement(u)
  BY <1>2 DEF PoolInv, WaitingNeeds
<1>4. f = [tx |-> u, requires |-> Requirement(u)]
  BY <1>1, <1>3 DEF Entry
<1>5. Requirement(u) = {m} /\ Requirement(u) \in SUBSET Markers
  BY <1>2, <1>3, RequirementTyped
<1>6. f.tx = u /\ f.requires = Requirement(u)
  BY <1>4
<1> QED
  BY <1>1, <1>2, <1>3, <1>4, <1>5, <1>6

\* One transaction of the queue: refused, with nothing unlocked, or added with
\* those it unlocks behind it.
LEMMA AddStepFacts ==
    ASSUME TxPoolInv, AddStep
    PROVE  /\ job.markers = {} /\ job.stack = {} /\ job # NoJob
           /\ UNCHANGED <<block, heads, snapshots>>
           /\ \E e \in job.queue :
                \/ /\ Underpriced(pool, e.tx) /\ UNCHANGED pool
                   /\ job' = [job EXCEPT !.queue = IF job.new THEN {} ELSE job.queue \ {e},
                                         !.new = FALSE]
                \/ /\ ~Underpriced(pool, e.tx)
                   /\ pool' = AddReady(MarkAndUnlock(pool, Provides(e.tx)), e)
                   /\ job' = [job EXCEPT !.queue = (job.queue \ {e})
                                             \cup Entries(pool, Provides(e.tx)),
                                         !.new = FALSE]
<1>1. /\ job.markers = {} /\ job.stack = {} /\ UNCHANGED <<block, heads, snapshots>>
  BY DEF AddStep
<1>2. PICK e \in job.queue :
        LET p == MarkAndUnlock(pool, Provides(e.tx))
            queue == (job.queue \ {e}) \cup Entries(pool, Provides(e.tx))
        IN  \/ /\ Underpriced(p, e.tx)
               /\ pool' = p
               /\ job' = [job EXCEPT !.queue = IF job.new THEN {} ELSE queue,
                                     !.new = FALSE]
            \/ /\ ~Underpriced(p, e.tx)
               /\ pool' = AddReady(p, e)
               /\ job' = [job EXCEPT !.queue = queue, !.new = FALSE]
  BY DEF AddStep
<1>3. job # NoJob
  BY <1>2, NoJobFacts
<1> DEFINE p == MarkAndUnlock(pool, Provides(e.tx))
<1>4. SameReady(pool, p)
  BY MarkAndUnlockInv DEF TxPoolInv
<1>5. Underpriced(p, e.tx) <=> Underpriced(pool, e.tx)
  BY <1>4 DEF SameReady, Underpriced, ReadyReplaced
<1>6. CASE Underpriced(p, e.tx)
  <2>1. Provides(e.tx) \in DOMAIN pool.provided
    BY <1>5, <1>6 DEF Underpriced, ReadyReplaced
  <2>2. Provides(e.tx) \notin DOMAIN pool.required
    BY <2>1, MissingFacts DEF TxPoolInv
  <2>3. p = pool /\ UnlockedBy(pool, Provides(e.tx)) = {}
    BY <2>2, MarkNothing, UnlockedByFacts DEF TxPoolInv
  <2>4. Entries(pool, Provides(e.tx)) = {}
    BY <2>3 DEF Entries
  <2>5. (job.queue \ {e}) \cup Entries(pool, Provides(e.tx)) = job.queue \ {e}
    BY <2>4
  <2>6. /\ UNCHANGED pool
        /\ job' = [job EXCEPT !.queue = IF job.new THEN {} ELSE job.queue \ {e}, !.new = FALSE]
    BY <1>2, <1>6, <2>3, <2>5
  <2> QED
    BY <1>1, <1>3, <1>5, <1>6, <2>6
<1>7. CASE ~Underpriced(p, e.tx)
  BY <1>1, <1>2, <1>3, <1>5, <1>7
<1> QED
  BY <1>6, <1>7

LEMMA AddStepInv == ASSUME TxPoolInv, AddStep PROVE TxPoolInv'
<1>1. /\ job.markers = {} /\ job.stack = {} /\ job # NoJob
      /\ UNCHANGED <<block, heads, snapshots>>
  BY AddStepFacts
<1>2. BlockTyped' /\ BlockOK'
  BY <1>1, BusyPool, BlockKept
<1>3. IsHeads(heads') /\ SnapshotsOK'
  BY <1>1, ChainKept
<1>4. PICK e \in job.queue :
         \/ /\ Underpriced(pool, e.tx) /\ UNCHANGED pool
            /\ job' = [job EXCEPT !.queue = IF job.new THEN {} ELSE job.queue \ {e},
                                  !.new = FALSE]
         \/ /\ pool' = AddReady(MarkAndUnlock(pool, Provides(e.tx)), e)
            /\ job' = [job EXCEPT !.queue = (job.queue \ {e})
                                      \cup Entries(pool, Provides(e.tx)),
                                  !.new = FALSE]
  BY AddStepFacts
<1>5. /\ DOMAIN job = JobFields /\ QueueOK(pool, job.queue) /\ PoolInv(pool)
  BY FieldsOfJobs DEF TxPoolInv, JobOK
<1>6. /\ e \in [tx : Txs, requires : SUBSET Markers]
      /\ e.tx \notin DOMAIN pool.ready /\ e.tx \notin DOMAIN pool.waiting
      /\ e.requires \subseteq Requirement(e.tx) /\ e.requires \subseteq DOMAIN pool.provided
      /\ \A f \in job.queue : f.tx = e.tx => f = e
  BY <1>5 DEF QueueOK
<1>7. CASE /\ UNCHANGED pool
           /\ job' = [job EXCEPT !.queue = IF job.new THEN {} ELSE job.queue \ {e},
                                 !.new = FALSE]
  <2>1. PICK Q \in SUBSET job.queue : job' = [job EXCEPT !.queue = Q, !.new = FALSE]
    BY <1>7
  <2>2. /\ IsFcn(job') /\ DOMAIN job' = DOMAIN NoJob
        /\ job'.queue = Q /\ job'.new = FALSE /\ job'.markers = {} /\ job'.stack = {}
    BY <1>1, <1>5, <2>1, FieldsOfJobs DEF JobFields, IsFcn
  <2>3. QueueOK(pool', job'.queue)
    BY <1>5, <1>7, <2>2 DEF QueueOK
  <2>4. JobOK'
    BY <2>2, <2>3 DEF JobOK
  <2> QED
    BY <1>2, <1>3, <1>5, <1>7, <2>4 DEF TxPoolInv
<1>8. CASE /\ pool' = AddReady(MarkAndUnlock(pool, Provides(e.tx)), e)
           /\ job' = [job EXCEPT !.queue = (job.queue \ {e})
                                      \cup Entries(pool, Provides(e.tx)),
                                 !.new = FALSE]
  <2> DEFINE m == Provides(e.tx)
             p == MarkAndUnlock(pool, m)
             Q == (job.queue \ {e}) \cup Entries(pool, m)
  <2>1. /\ PoolInv(p) /\ SameReady(pool, p)
        /\ DOMAIN p.waiting = DOMAIN pool.waiting \ UnlockedBy(pool, m)
        /\ DOMAIN p.required \subseteq DOMAIN pool.required \ {m}
    BY <1>5, MarkAndUnlockInv
  <2>2. e.tx \notin DOMAIN p.ready /\ e.tx \notin DOMAIN p.waiting /\ m \notin DOMAIN p.required
    BY <1>6, <2>1 DEF SameReady
  <2> HIDE DEF p
  <2>3. /\ PoolInv(pool') /\ SameWaiting(p, pool')
        /\ DOMAIN pool'.ready \subseteq DOMAIN p.ready \cup {e.tx}
        /\ DOMAIN pool'.provided = DOMAIN p.provided \cup {m}
    BY <1>6, <1>8, <2>1, <2>2, AddReadyInv DEF p
  <2>4. /\ DOMAIN pool'.ready \subseteq DOMAIN pool.ready \cup {e.tx}
        /\ DOMAIN pool'.provided = DOMAIN pool.provided \cup {m}
        /\ DOMAIN pool'.waiting = DOMAIN pool.waiting \ UnlockedBy(pool, m)
    BY <2>1, <2>3 DEF SameReady, SameWaiting
  <2>5. /\ IsFcn(job') /\ DOMAIN job' = DOMAIN NoJob
        /\ job'.queue = Q /\ job'.new = FALSE /\ job'.markers = {} /\ job'.stack = {}
    BY <1>1, <1>5, <1>8, FieldsOfJobs DEF JobFields, IsFcn
  <2> HIDE DEF m
  <2>6. ASSUME NEW f \in Q
        PROVE  /\ f \in [tx : Txs, requires : SUBSET Markers]
               /\ f.tx \notin DOMAIN pool'.ready /\ f.tx \notin DOMAIN pool'.waiting
               /\ f.requires \subseteq Requirement(f.tx)
               /\ f.requires \subseteq DOMAIN pool'.provided
    <3>1. CASE f \in job.queue \ {e}
      BY <1>5, <1>6, <2>4, <3>1 DEF QueueOK
    <3>2. CASE f \in Entries(pool, m)
      <4>1. /\ f \in [tx : Txs, requires : SUBSET Markers]
            /\ f.tx \in DOMAIN pool.waiting /\ f.tx \in UnlockedBy(pool, m)
            /\ f.requires = Requirement(f.tx) /\ Requirement(f.tx) = {m}
        BY <1>5, <3>2, EntriesFacts
      <4>2. f.tx \notin DOMAIN pool.ready /\ f.tx # e.tx
        BY <1>5, <1>6, <4>1 DEF PoolInv
      <4> QED
        BY <2>4, <4>1, <4>2
    <3> QED
      BY <2>6, <3>1, <3>2
  <2>7. ASSUME NEW f \in Q, NEW g \in Q, f.tx = g.tx PROVE f = g
    <3>1. \A x \in job.queue : x.tx \notin DOMAIN pool.waiting
      BY <1>5 DEF QueueOK
    <3>2. \A x \in Entries(pool, m) : /\ x.tx \in DOMAIN pool.waiting
                                      /\ x = [tx |-> x.tx, requires |-> Requirement(x.tx)]
      BY <1>5, EntriesFacts
    <3>3. \A x, y \in job.queue : x.tx = y.tx => x = y
      BY <1>5 DEF QueueOK
    <3> QED
      BY <2>7, <3>1, <3>2, <3>3
  <2> HIDE DEF Q
  <2>8. QueueOK(pool', job'.queue)
    BY <2>5, <2>6, <2>7 DEF QueueOK
  <2>9. JobOK'
    BY <2>5, <2>8 DEF JobOK
  <2> QED
    BY <1>2, <1>3, <2>3, <2>9 DEF TxPoolInv
<1> QED
  BY <1>4, <1>7, <1>8

----------------------------------------------------------------------------
(* Blocks *)

LEMMA StartBlockFacts ==
    ASSUME TxPoolInv, NEW k, StartBlock(k)
    PROVE  /\ job = NoJob /\ k \in Nat /\ UNCHANGED <<pool, job, heads, snapshots>>
           /\ DOMAIN block' = BlockFields
           /\ block'.state = "executing" /\ block'.all = pool.ready
           /\ block'.best = pool.independent /\ block'.left = k /\ block'.nonces = Head_
           /\ block'.yielded = {} /\ block'.unavailable = {}
           /\ block'.included = {} /\ block'.stale = {} /\ block'.invalid = {}
<1>1. job = NoJob /\ UNCHANGED <<pool, job, heads, snapshots>>
  BY DEF StartBlock, MutexFree, Unlocked
<1>2. k \in Nat
  <2>1. k \in 0..Cardinality(DOMAIN pool.ready)
    BY DEF StartBlock
  <2> QED
    BY <2>1
<1>3. block' = [NoBlock EXCEPT
                    !.state = "executing", !.all = pool.ready,
                    !.best = pool.independent, !.older = pool.older,
                    !.left = k, !.nonces = Head_]
  BY DEF StartBlock
<1> QED
  BY <1>1, <1>2, <1>3 DEF NoBlock, BlockFields

LEMMA StartBlockInv ==
    ASSUME TxPoolInv, NEW k, StartBlock(k)
    PROVE  TxPoolInv'
<1>1. /\ job = NoJob /\ k \in Nat /\ UNCHANGED <<pool, job, heads, snapshots>>
      /\ DOMAIN block' = BlockFields
      /\ block'.state = "executing" /\ block'.all = pool.ready
      /\ block'.best = pool.independent /\ block'.left = k /\ block'.nonces = Head_
      /\ block'.yielded = {} /\ block'.unavailable = {}
      /\ block'.included = {} /\ block'.stale = {} /\ block'.invalid = {}
  BY StartBlockFacts
<1>2. BlockTyped'
  <2>1. ReadyTyped(pool.ready) /\ pool.independent \subseteq DOMAIN pool.ready
    BY DEF TxPoolInv, PoolInv, IndependentExact
  <2>2. Head_ \in [Senders -> Nonces]
    BY HeadFacts DEF TxPoolInv
  <2> QED
    BY <1>1, <2>1, <2>2, FieldsOfJobs DEF BlockTyped
<1>3. BlockOK'
  <2>1. ReadyLinked(pool.ready)
    BY DEF TxPoolInv, PoolInv
  <2>2. \A t, u \in DOMAIN pool.ready : Provides(t) = Provides(u) => t = u
    BY ReadyFacts DEF TxPoolInv
  <2>3. \A u \in DOMAIN pool.ready : ~Parentless(pool.ready, u) => pool.ready[u].offset = 0
    BY DEF TxPoolInv, PoolInv, IndependentExact
  <2>4. \A t \in DOMAIN pool.ready : Provides(t) \notin DOMAIN pool.required
    BY MissingFacts DEF TxPoolInv, PoolInv, ReadyIndexed, ProvidedBy
  <2>5. \A u \in DOMAIN pool.ready :
           u \in pool.independent <=> \A t \in DOMAIN pool.ready : u \notin pool.ready[t].unlocks
    BY DEF TxPoolInv, PoolInv, IndependentExact, Parentless
  <2> QED
    BY <1>1, <2>1, <2>2, <2>3, <2>4, <2>5 DEF BlockOK
<1>4. JobOK'
  BY <1>1, NoJobOK
<1> QED
  BY <1>1, <1>2, <1>3, <1>4, ChainKept DEF TxPoolInv

\* The iterator's link to a transaction is the only thing it waits for.
LEMMA UnlockedInBlockFacts ==
    ASSUME TxPoolInv, NEW t \in DOMAIN block.all
    PROVE  UnlockedInBlock(t) = block.all[t].unlocks
<1>1. ASSUME NEW u \in block.all[t].unlocks
      PROVE  /\ u \in DOMAIN block.all
             /\ block.all[u].offset + 1 >= Cardinality(block.all[u].requires)
  <2>1. u \in DOMAIN block.all /\ Provides(t) \in block.all[u].requires
    BY DEF TxPoolInv, BlockOK, ReadyLinked
  <2>2. block.all[u].offset = 0
    BY <2>1 DEF TxPoolInv, BlockOK, Parentless
  <2>3. u \in Txs /\ block.all[u].requires \subseteq Requirement(u)
    BY <2>1 DEF TxPoolInv, BlockTyped, BlockOK, ReadyTyped, ReadyLinked
  <2>4. Cardinality(block.all[u].requires) = 1
    BY <2>1, <2>3, RequirementCardinality
  <2> QED
    BY <2>1, <2>2, <2>4
<1> QED
  BY <1>1 DEF UnlockedInBlock

\* What one transaction does to the block: it is yielded, and then left out,
\* found stale or invalid, or included.
LEMMA ExecuteFacts ==
    ASSUME TxPoolInv, ExecuteNext
    PROVE  /\ block.state = "executing" /\ UNCHANGED <<pool, job, heads, snapshots>>
           /\ DOMAIN block' = BlockFields
           /\ block'.state = block.state /\ block'.all = block.all
           /\ block'.left \in Nat
           /\ \E t \in block.best :
                /\ block'.best = (block.best \ {t}) \cup block.all[t].unlocks
                /\ block'.yielded = block.yielded \cup {t}
                /\ \/ /\ block'.unavailable = block.unavailable \cup {Provides(t)}
                      /\ block'.included = block.included /\ block'.stale = block.stale
                      /\ block'.invalid = block.invalid /\ block'.nonces = block.nonces
                   \/ /\ t.nonce < block.nonces[t.sender]
                      /\ block'.stale = block.stale \cup {t}
                      /\ block'.included = block.included
                      /\ block'.unavailable = block.unavailable
                      /\ block'.invalid = block.invalid /\ block'.nonces = block.nonces
                   \/ /\ ~DependencyUnavailable(t)
                      /\ block'.invalid = block.invalid \cup {t}
                      /\ block'.included = block.included /\ block'.stale = block.stale
                      /\ block'.unavailable = block.unavailable
                      /\ block'.nonces = block.nonces
                   \/ /\ t.nonce = block.nonces[t.sender] /\ t.nonce < MaxNonce
                      /\ ~DependencyUnavailable(t)
                      /\ block'.included = block.included \cup {t}
                      /\ block'.nonces \in NoncesAfter(t)
                      /\ block'.stale = block.stale /\ block'.invalid = block.invalid
                      /\ block'.unavailable = block.unavailable
<1>1. /\ block.state = "executing" /\ UNCHANGED <<pool, job, heads, snapshots>>
      /\ block.left > 0
  BY DEF ExecuteNext
<1>2. PICK t \in DOMAIN block.all :
        /\ t \in block.best
        /\ \/ block' = [Yield(t) EXCEPT !.unavailable = @ \cup {Provides(t)}]
           \/ /\ t.nonce < block.nonces[t.sender]
              /\ block' = [Yield(t) EXCEPT !.stale = @ \cup {t}]
           \/ /\ ~DependencyUnavailable(t)
              /\ block' = [Yield(t) EXCEPT !.invalid = @ \cup {t}]
           \/ /\ t.nonce = block.nonces[t.sender] /\ ~DependencyUnavailable(t)
              /\ block.nonces[t.sender] < MaxNonce
              /\ \E n \in NoncesAfter(t) :
                    block' = [Yield(t) EXCEPT !.included = @ \cup {t}, !.nonces = n]
  BY DEF ExecuteNext, IsBest
<1> DEFINE b == Yield(t)
<1>3. DOMAIN block = BlockFields /\ block.left \in Nat
  BY FieldsOfJobs DEF TxPoolInv, BlockTyped
<1>4. UnlockedInBlock(t) = block.all[t].unlocks
  BY UnlockedInBlockFacts
<1>5. /\ DOMAIN b = BlockFields
      /\ b.state = block.state /\ b.all = block.all /\ b.left = block.left - 1
      /\ b.best = (block.best \ {t}) \cup block.all[t].unlocks
      /\ b.yielded = block.yielded \cup {t} /\ b.unavailable = block.unavailable
      /\ b.included = block.included /\ b.stale = block.stale
      /\ b.invalid = block.invalid /\ b.nonces = block.nonces
  BY <1>3, <1>4 DEF Yield, BlockFields
<1>6. b.left \in Nat
  BY <1>1, <1>3, <1>5
<1> HIDE DEF b
<1>7. CASE block' = [b EXCEPT !.unavailable = @ \cup {Provides(t)}]
  BY <1>1, <1>2, <1>5, <1>6, <1>7 DEF BlockFields
<1>8. CASE /\ t.nonce < block.nonces[t.sender]
           /\ block' = [b EXCEPT !.stale = @ \cup {t}]
  BY <1>1, <1>2, <1>5, <1>6, <1>8 DEF BlockFields
<1>9. CASE /\ ~DependencyUnavailable(t)
           /\ block' = [b EXCEPT !.invalid = @ \cup {t}]
  BY <1>1, <1>2, <1>5, <1>6, <1>9 DEF BlockFields
<1>10. CASE /\ t.nonce = block.nonces[t.sender] /\ ~DependencyUnavailable(t)
            /\ block.nonces[t.sender] < MaxNonce
            /\ \E n \in NoncesAfter(t) :
                  block' = [b EXCEPT !.included = @ \cup {t}, !.nonces = n]
  <2>1. /\ DOMAIN block' = BlockFields
        /\ block'.state = b.state /\ block'.all = b.all /\ block'.left = b.left
        /\ block'.best = b.best /\ block'.yielded = b.yielded
        /\ block'.unavailable = b.unavailable /\ block'.stale = b.stale
        /\ block'.invalid = b.invalid /\ block'.included = b.included \cup {t}
        /\ block'.nonces \in NoncesAfter(t)
    BY <1>5, <1>10 DEF BlockFields
  <2>2. block'.nonces \in NoncesAfter(t) /\ t.nonce < MaxNonce
    BY <1>10, <2>1
  <2>3. /\ block'.state = block.state /\ block'.all = block.all /\ block'.left \in Nat
        /\ block'.best = (block.best \ {t}) \cup block.all[t].unlocks
        /\ block'.yielded = block.yielded \cup {t} /\ block'.unavailable = block.unavailable
        /\ block'.included = block.included \cup {t} /\ block'.stale = block.stale
        /\ block'.invalid = block.invalid
    BY <1>5, <1>6, <2>1
  <2> QED
    BY <1>1, <1>2, <1>10, <2>1, <2>2, <2>3, Zenon
<1> QED
  BY <1>2, <1>7, <1>8, <1>9, <1>10 DEF b

LEMMA BlockFacts ==
    ASSUME TxPoolInv
    PROVE  /\ \A t \in DOMAIN block.all : t \in Txs
           /\ \A t \in DOMAIN block.all : \A u \in block.all[t].unlocks :
                 /\ u \in DOMAIN block.all /\ Provides(t) \in block.all[u].requires
                 /\ u.sender = t.sender /\ t.nonce = u.nonce - 1
           /\ \A t, x, u \in DOMAIN block.all :
                 u \in block.all[t].unlocks /\ u \in block.all[x].unlocks => t = x
           /\ \A t \in DOMAIN block.all : t \notin block.all[t].unlocks
<1>1. \A t \in DOMAIN block.all : t \in Txs
  BY DEF TxPoolInv, BlockTyped, ReadyTyped
<1>2. /\ \A t \in DOMAIN block.all : block.all[t].requires \subseteq Requirement(t)
      /\ \A t \in DOMAIN block.all : \A u \in block.all[t].unlocks :
            u \in DOMAIN block.all /\ Provides(t) \in block.all[u].requires
  BY DEF TxPoolInv, BlockOK, ReadyLinked
<1>3. \A t \in DOMAIN block.all : \A u \in block.all[t].unlocks :
         u.sender = t.sender /\ t.nonce = u.nonce - 1
  BY <1>1, <1>2, RequirementFacts
<1>4. ASSUME NEW t \in DOMAIN block.all, NEW x \in DOMAIN block.all,
             NEW u \in DOMAIN block.all,
             u \in block.all[t].unlocks, u \in block.all[x].unlocks
      PROVE  t = x
  <2>1. Provides(t) \in Requirement(u) /\ Provides(x) \in Requirement(u)
    BY <1>2, <1>4
  <2>2. Provides(t) = Provides(x)
    BY <1>1, <2>1, RequirementTyped
  <2> QED
    BY <2>2 DEF TxPoolInv, BlockOK
<1>5. ASSUME NEW t \in DOMAIN block.all PROVE t \notin block.all[t].unlocks
  BY <1>1, <1>2, NotItsOwn
<1> QED
  BY <1>1, <1>2, <1>3, <1>4, <1>5

LEMMA ExecuteNextInv == ASSUME TxPoolInv, ExecuteNext PROVE TxPoolInv'
<1>1. /\ block.state = "executing" /\ UNCHANGED <<pool, job, heads, snapshots>>
      /\ DOMAIN block' = BlockFields
      /\ block'.state = block.state /\ block'.all = block.all /\ block'.left \in Nat
  BY ExecuteFacts
<1>2. PICK t \in block.best :
        /\ block'.best = (block.best \ {t}) \cup block.all[t].unlocks
        /\ block'.yielded = block.yielded \cup {t}
        /\ block'.included \subseteq block.included \cup {t}
        /\ block'.stale \subseteq block.stale \cup {t}
        /\ block'.invalid \subseteq block.invalid \cup {t}
        /\ \/ block'.nonces = block.nonces
           \/ block'.nonces \in NoncesAfter(t)
  <2>1. PICK t \in block.best :
                /\ block'.best = (block.best \ {t}) \cup block.all[t].unlocks
                /\ block'.yielded = block.yielded \cup {t}
                /\ \/ /\ block'.unavailable = block.unavailable \cup {Provides(t)}
                      /\ block'.included = block.included /\ block'.stale = block.stale
                      /\ block'.invalid = block.invalid /\ block'.nonces = block.nonces
                   \/ /\ t.nonce < block.nonces[t.sender]
                      /\ block'.stale = block.stale \cup {t}
                      /\ block'.included = block.included
                      /\ block'.unavailable = block.unavailable
                      /\ block'.invalid = block.invalid /\ block'.nonces = block.nonces
                   \/ /\ block'.invalid = block.invalid \cup {t}
                      /\ block'.included = block.included /\ block'.stale = block.stale
                      /\ block'.unavailable = block.unavailable
                      /\ block'.nonces = block.nonces
                   \/ /\ t.nonce = block.nonces[t.sender] /\ t.nonce < MaxNonce
                      /\ block'.included = block.included \cup {t}
                      /\ block'.nonces \in NoncesAfter(t)
                      /\ block'.stale = block.stale /\ block'.invalid = block.invalid
                      /\ block'.unavailable = block.unavailable
    BY ExecuteFacts
  <2> QED
    BY <2>1
<1>3. /\ t \in DOMAIN block.all /\ t \in Txs
      /\ block.best \subseteq DOMAIN block.all /\ block.yielded \subseteq DOMAIN block.all
      /\ block.included \cup block.stale \cup block.invalid \subseteq DOMAIN block.all
  BY BlockFacts DEF TxPoolInv, BlockTyped
<1>4. block'.nonces \in [Senders -> Nonces]
  <2>1. block.nonces \in [Senders -> Nonces]
    BY <1>1 DEF TxPoolInv, BlockTyped
  <2> QED
    BY <1>2, <2>1 DEF NoncesAfter
<1>5. BlockTyped'
  <2>1. block'.best \subseteq DOMAIN block'.all /\ block'.yielded \subseteq DOMAIN block'.all
    BY <1>1, <1>2, <1>3, BlockFacts
  <2>2. block'.included \cup block'.stale \cup block'.invalid \subseteq DOMAIN block'.all
    BY <1>1, <1>2, <1>3
  <2> QED
    BY <1>1, <1>4, <2>1, <2>2, FieldsOfJobs DEF TxPoolInv, BlockTyped
<1>6. block'.best \cap block'.yielded = {}
  <2>1. block.best \cap block.yielded = {}
    BY DEF TxPoolInv, BlockOK
  <2>2. ASSUME NEW u \in block.all[t].unlocks PROVE u \notin block.yielded /\ u # t
    <3>1. u \in DOMAIN block.all /\ u # t
      BY <1>3, BlockFacts
    <3>2. u \in block.yielded => t \in block.yielded
      BY <1>3, <3>1 DEF TxPoolInv, BlockOK
    <3> QED
      BY <2>1, <3>1, <3>2
  <2> QED
    BY <1>2, <2>1, <2>2
<1>7. ASSUME NEW u \in DOMAIN block.all
      PROVE  u \in block'.best \cup block'.yielded <=>
                \A x \in DOMAIN block.all : u \in block.all[x].unlocks => x \in block'.yielded
  <2>1. u \in block.best \cup block.yielded <=>
           \A x \in DOMAIN block.all : u \in block.all[x].unlocks => x \in block.yielded
    BY DEF TxPoolInv, BlockOK
  <2>2. u \in block'.best \cup block'.yielded <=>
           u \in block.best \cup block.yielded \/ u \in block.all[t].unlocks
    BY <1>2
  <2>3. u \in block.all[t].unlocks =>
           \A x \in DOMAIN block.all : u \in block.all[x].unlocks => x = t
    BY <1>3, BlockFacts
  <2> QED
    BY <1>2, <1>3, <2>1, <2>2, <2>3
<1>8. BlockOK'
  BY <1>1, <1>6, <1>7 DEF TxPoolInv, BlockOK
<1>9. JobOK'
  BY <1>1 DEF TxPoolInv, JobOK
<1> QED
  BY <1>1, <1>5, <1>8, <1>9, ChainKept DEF TxPoolInv

LEMMA CommitFacts ==
    ASSUME TxPoolInv, CommitBlock
    PROVE  /\ block.state = "executing" /\ UNCHANGED <<pool, job, snapshots>>
           /\ heads' = Append(heads, block.nonces)
           /\ DOMAIN block' = BlockFields /\ block'.state = "mined"
           /\ \A x \in BlockFields \ {"state"} : block'[x] = block[x]
<1>1. /\ block.state = "executing" /\ UNCHANGED <<pool, job, snapshots>>
      /\ heads' = Append(heads, block.nonces)
      /\ block' = [block EXCEPT !.state = "mined"]
  BY DEF CommitBlock
<1>2. DOMAIN block = BlockFields
  BY FieldsOfJobs DEF TxPoolInv, BlockTyped
<1> QED
  BY <1>1, <1>2 DEF BlockFields

\* A block goes from one phase to the next.
LEMMA PhaseKept ==
    ASSUME TxPoolInv, block.state # "none", UNCHANGED job,
           DOMAIN pool'.required \subseteq DOMAIN pool.required,
           DOMAIN block' = BlockFields, block'.state \in {"mined", "pruning"},
           \A x \in BlockFields \ {"state"} : block'[x] = block[x]
    PROVE  BlockTyped' /\ BlockOK'
<1>1. /\ block'.all = block.all /\ block'.best = block.best /\ block'.left = block.left
      /\ block'.yielded = block.yielded /\ block'.included = block.included
      /\ block'.stale = block.stale /\ block'.invalid = block.invalid
      /\ block'.nonces = block.nonces
  BY DEF BlockFields
<1>2. BlockTyped'
  BY <1>1, FieldsOfJobs DEF TxPoolInv, BlockTyped
<1>3. BlockOK'
  BY <1>1 DEF TxPoolInv, BlockOK
<1> QED
  BY <1>2, <1>3

LEMMA CommitBlockInv == ASSUME TxPoolInv, CommitBlock PROVE TxPoolInv'
<1>1. /\ block.state = "executing" /\ UNCHANGED <<pool, job, snapshots>>
      /\ heads' = Append(heads, block.nonces)
      /\ DOMAIN block' = BlockFields /\ block'.state = "mined"
      /\ \A x \in BlockFields \ {"state"} : block'[x] = block[x]
  BY CommitFacts
<1>2. BlockTyped' /\ BlockOK'
  BY <1>1, PhaseKept
<1>3. IsHeads(heads')
  <2>1. block.nonces \in [Senders -> Nonces] /\ heads \in Seq([Senders -> Nonces])
    BY <1>1 DEF TxPoolInv, BlockTyped, IsHeads
  <2> QED
    BY <1>1, <2>1 DEF IsHeads
<1>4. JobOK' /\ SnapshotsOK'
  BY <1>1 DEF TxPoolInv, JobOK, SnapshotsOK
<1> QED
  BY <1>1, <1>2, <1>3, <1>4 DEF TxPoolInv

LEMMA FailBlockInv == ASSUME TxPoolInv, FailBlock PROVE TxPoolInv'
<1>1. block' = NoBlock /\ UNCHANGED <<pool, job, heads, snapshots>>
  BY DEF FailBlock
<1>2. BlockTyped' /\ BlockOK'
  BY <1>1, NoBlockOK
<1>3. JobOK'
  BY <1>1 DEF TxPoolInv, JobOK
<1> QED
  BY <1>1, <1>2, <1>3, ChainKept DEF TxPoolInv

LEMMA OnMinedInvalidInv == ASSUME TxPoolInv, OnMinedInvalid PROVE TxPoolInv'
<1>1. /\ block.state = "mined" /\ job = NoJob /\ pool' = RemoveInvalid(pool, block.invalid)
      /\ block' = [block EXCEPT !.state = "pruning"] /\ UNCHANGED <<job, heads, snapshots>>
  BY DEF OnMinedInvalid, Unlocked
<1>2. PoolInv(pool') /\ DOMAIN pool'.required \subseteq DOMAIN pool.required
  BY <1>1, RemoveInvalidInv DEF TxPoolInv
<1>3. DOMAIN block = BlockFields
  BY FieldsOfJobs DEF TxPoolInv, BlockTyped
<1>4. /\ DOMAIN block' = BlockFields /\ block'.state = "pruning"
      /\ \A x \in BlockFields \ {"state"} : block'[x] = block[x]
  BY <1>1, <1>3 DEF BlockFields
<1>5. BlockTyped' /\ BlockOK'
  BY <1>1, <1>2, <1>4, PhaseKept
<1>6. JobOK'
  BY <1>1, NoJobOK
<1> QED
  BY <1>1, <1>2, <1>5, <1>6, ChainKept DEF TxPoolInv

----------------------------------------------------------------------------
(* Pruning *)

LEMMA OnMinedPruneFacts ==
    ASSUME TxPoolInv, OnMinedPrune
    PROVE  /\ block.state = "pruning" /\ block' = NoBlock
           /\ UNCHANGED <<pool, heads, snapshots>>
           /\ IsFcn(job') /\ DOMAIN job' = JobFields
           /\ job'.queue = {} /\ job'.new = FALSE /\ job'.stack = {}
           /\ job'.markers = ProvidedBy(block.included \cup block.stale)
<1>1. /\ block.state = "pruning" /\ block' = NoBlock /\ UNCHANGED <<pool, heads, snapshots>>
      /\ job' = [NoJob EXCEPT !.markers = ProvidedBy(block.included \cup block.stale)]
  BY DEF OnMinedPrune
<1> QED
  BY <1>1 DEF NoJob, JobFields, IsFcn

LEMMA OnMinedPruneInv == ASSUME TxPoolInv, OnMinedPrune PROVE TxPoolInv'
<1>1. /\ block.state = "pruning" /\ block' = NoBlock
      /\ UNCHANGED <<pool, heads, snapshots>>
      /\ IsFcn(job') /\ DOMAIN job' = JobFields
      /\ job'.queue = {} /\ job'.new = FALSE /\ job'.stack = {}
      /\ job'.markers = ProvidedBy(block.included \cup block.stale)
  BY OnMinedPruneFacts
<1>2. BlockTyped' /\ BlockOK'
  BY <1>1, NoBlockOK
<1>3. \A t \in block.included \cup block.stale :
         t \in Txs /\ Provides(t) \notin DOMAIN pool.required
  BY BlockFacts DEF TxPoolInv, BlockTyped, BlockOK
<1>4. /\ job'.markers \subseteq Markers
      /\ \A m \in job'.markers : m \notin DOMAIN pool'.required
  BY <1>1, <1>3, TxFacts DEF ProvidedBy
<1>5. JobOK'
  BY <1>1, <1>4, FieldsOfJobs DEF JobOK, QueueOK
<1> QED
  BY <1>1, <1>2, <1>5, ChainKept DEF TxPoolInv

LEMMA PruneMarkerFacts ==
    ASSUME TxPoolInv, PruneMarker
    PROVE  /\ job.stack = {} /\ job # NoJob /\ UNCHANGED <<pool, block, heads, snapshots>>
           /\ \E m \in job.markers :
                /\ IsFcn(job') /\ DOMAIN job' = JobFields
                /\ job'.queue = {} /\ job'.new = job.new /\ job'.stack = {m}
                /\ job'.markers = job.markers \ {m}
<1>1. PICK m \in job.markers :
        /\ pool' = MarkAndUnlock(pool, m)
        /\ job' = [job EXCEPT !.markers = @ \ {m}, !.queue = @ \cup Entries(pool, m),
                              !.stack = {m}]
  BY DEF PruneMarker
<1>2. job.stack = {} /\ UNCHANGED <<block, heads, snapshots>>
  BY DEF PruneMarker
<1>3. m \notin DOMAIN pool.required /\ DOMAIN job = JobFields
  BY FieldsOfJobs DEF TxPoolInv, JobOK
<1>4. pool' = pool
  BY <1>1, <1>3, MarkNothing DEF TxPoolInv
<1>5. job.queue = {}
  BY <1>1 DEF TxPoolInv, JobOK
<1>6. Entries(pool, m) = {}
  BY <1>3, UnlockedByFacts DEF TxPoolInv, Entries
<1>7. /\ IsFcn(job') /\ DOMAIN job' = JobFields
      /\ job'.queue = job.queue \cup Entries(pool, m) /\ job'.new = job.new
      /\ job'.stack = {m} /\ job'.markers = job.markers \ {m}
  BY <1>1, <1>3 DEF JobFields, IsFcn
<1>8. job # NoJob
  BY <1>1, NoJobFacts
<1> QED
  BY <1>1, <1>2, <1>4, <1>5, <1>6, <1>7, <1>8

LEMMA PruneMarkerInv == ASSUME TxPoolInv, PruneMarker PROVE TxPoolInv'
<1>1. job.stack = {} /\ job # NoJob /\ UNCHANGED <<pool, block, heads, snapshots>>
  BY PruneMarkerFacts
<1>2. PICK m \in job.markers :
         /\ IsFcn(job') /\ DOMAIN job' = JobFields
         /\ job'.queue = {} /\ job'.new = job.new /\ job'.stack = {m}
         /\ job'.markers = job.markers \ {m}
  BY PruneMarkerFacts
<1>3. job.new = FALSE /\ job.markers \subseteq Markers
  BY <1>2 DEF TxPoolInv, JobOK
<1>4. \A n \in job'.markers : n \notin DOMAIN pool'.required
  BY <1>1, <1>2 DEF TxPoolInv, JobOK
<1>5. JobOK'
  BY <1>2, <1>3, <1>4, FieldsOfJobs DEF JobOK, QueueOK
<1>6. BlockTyped' /\ BlockOK'
  BY <1>1, BusyPool, BlockKept
<1> QED
  BY <1>1, <1>5, <1>6, ChainKept DEF TxPoolInv

\* One marker of the stack: its provider is pruned, or there is none.
LEMMA PruneTagFacts ==
    ASSUME TxPoolInv, PruneTag
    PROVE  /\ job # NoJob /\ UNCHANGED <<block, heads, snapshots>>
           /\ IsFcn(job') /\ DOMAIN job' = JobFields
           /\ job'.queue = {} /\ job.queue = {} /\ job'.new = FALSE
           /\ job'.markers = job.markers
           /\ \E m \in job.stack :
                \/ /\ UNCHANGED pool /\ job'.stack = job.stack \ {m}
                \/ \E t \in DOMAIN pool.ready :
                      /\ m = Provides(t) /\ pool' = PruneReady(pool, t)
                      /\ job'.stack = (job.stack \ {m}) \cup ProvidedBy(Previous(pool, t))
<1>1. PICK m \in job.stack :
        LET t == pool.provided[m]
        IN  IF m \in DOMAIN pool.provided /\ t \in DOMAIN pool.ready
            THEN /\ pool' = PruneReady(pool, t)
                 /\ job' = [job EXCEPT
                      !.stack = (@ \ {m}) \cup ProvidedBy(Previous(pool, t))]
            ELSE /\ pool' = [pool EXCEPT !.provided = Without(@, {m})]
                 /\ job' = [job EXCEPT !.stack = @ \ {m}]
  BY DEF PruneTag
<1>2. UNCHANGED <<block, heads, snapshots>>
  BY DEF PruneTag
<1>3. /\ job # NoJob /\ DOMAIN job = JobFields /\ job.queue = {} /\ job.new = FALSE
  BY <1>1, NoJobFacts, FieldsOfJobs DEF TxPoolInv, JobOK
<1>4. CASE m \in DOMAIN pool.provided /\ pool.provided[m] \in DOMAIN pool.ready
  <2> DEFINE t == pool.provided[m]
  <2>1. m = Provides(t)
    BY <1>4 DEF TxPoolInv, PoolInv, ReadyIndexed, ProvidedBy
  <2>2. /\ pool' = PruneReady(pool, t)
        /\ job' = [job EXCEPT !.stack = (@ \ {m}) \cup ProvidedBy(Previous(pool, t))]
    BY <1>1, <1>4
  <2>3. /\ IsFcn(job') /\ DOMAIN job' = JobFields /\ job'.queue = job.queue
        /\ job'.new = job.new /\ job'.markers = job.markers
        /\ job'.stack = (job.stack \ {m}) \cup ProvidedBy(Previous(pool, t))
    BY <1>3, <2>2 DEF JobFields, IsFcn
  <2> QED
    BY <1>2, <1>3, <1>4, <2>1, <2>2, <2>3
<1>5. CASE ~(m \in DOMAIN pool.provided /\ pool.provided[m] \in DOMAIN pool.ready)
  <2>1. m \notin DOMAIN pool.provided
    BY <1>5 DEF TxPoolInv, PoolInv, ReadyIndexed, ProvidedBy
  <2>2. /\ pool' = [pool EXCEPT !.provided = Without(@, {m})]
        /\ job' = [job EXCEPT !.stack = @ \ {m}]
    BY <1>1, <1>5
  <2>3. /\ IsFcn(job') /\ DOMAIN job' = JobFields /\ job'.queue = job.queue
        /\ job'.new = job.new /\ job'.markers = job.markers
        /\ job'.stack = job.stack \ {m}
    BY <1>3, <2>2 DEF JobFields, IsFcn
  <2>4. Without(pool.provided, {m}) = pool.provided
    BY <2>1, WithoutNothing DEF TxPoolInv, PoolInv, ReadyIndexed
  <2>5. pool' = pool
    BY <2>2, <2>4, FieldsOfPool DEF TxPoolInv, PoolInv, IsFcn, Fields
  <2> QED
    BY <1>2, <1>3, <2>3, <2>5
<1> QED
  BY <1>4, <1>5

LEMMA PruneTagInv == ASSUME TxPoolInv, PruneTag PROVE TxPoolInv'
<1>1. /\ job # NoJob /\ UNCHANGED <<block, heads, snapshots>>
      /\ IsFcn(job') /\ DOMAIN job' = JobFields
      /\ job'.queue = {} /\ job.queue = {} /\ job'.new = FALSE
      /\ job'.markers = job.markers
  BY PruneTagFacts
<1>2. PICK m \in job.stack :
         \/ /\ UNCHANGED pool /\ job'.stack = job.stack \ {m}
         \/ \E t \in DOMAIN pool.ready :
               /\ m = Provides(t) /\ pool' = PruneReady(pool, t)
               /\ job'.stack = (job.stack \ {m}) \cup ProvidedBy(Previous(pool, t))
  BY PruneTagFacts
<1>3. /\ PoolInv(pool') /\ DOMAIN pool'.required = DOMAIN pool.required
      /\ job'.stack \subseteq Markers
  <2>1. job.stack \subseteq Markers /\ PoolInv(pool)
    BY DEF TxPoolInv, JobOK
  <2>2. CASE UNCHANGED pool /\ job'.stack = job.stack \ {m}
    BY <2>1, <2>2
  <2>3. ASSUME NEW t \in DOMAIN pool.ready, pool' = PruneReady(pool, t),
               job'.stack = (job.stack \ {m}) \cup ProvidedBy(Previous(pool, t))
        PROVE  /\ PoolInv(pool') /\ DOMAIN pool'.required = DOMAIN pool.required
               /\ job'.stack \subseteq Markers
    <3>1. PoolInv(pool') /\ SameWaiting(pool, pool')
      BY <2>1, <2>3, PruneReadyInv
    <3>2. \A u \in Previous(pool, t) : u \in Txs
      BY <2>1, ReadyFacts DEF Previous
    <3>3. ProvidedBy(Previous(pool, t)) \subseteq Markers
      BY <3>2, TxFacts DEF ProvidedBy
    <3> QED
      BY <2>1, <2>3, <3>1, <3>3 DEF SameWaiting
  <2> QED
    BY <1>2, <2>2, <2>3
<1>4. /\ job'.markers \subseteq Markers /\ \A n \in job'.markers : n \notin DOMAIN pool'.required
  BY <1>1, <1>3 DEF TxPoolInv, JobOK
<1>5. JobOK'
  BY <1>1, <1>3, <1>4, FieldsOfJobs DEF JobOK, QueueOK
<1>6. BlockTyped' /\ BlockOK'
  BY <1>1, BusyPool, BlockKept
<1> QED
  BY <1>1, <1>3, <1>5, <1>6, ChainKept DEF TxPoolInv

----------------------------------------------------------------------------
(* The chain *)

LEMMA SeqOfItself ==
    ASSUME NEW S, NEW s \in Seq(S)
    PROVE  s \in Seq({s[i] : i \in DOMAIN s})
<1> DEFINE T == {s[i] : i \in DOMAIN s}
<1>1. Len(s) \in Nat /\ DOMAIN s = 1..Len(s) /\ s = [i \in 1..Len(s) |-> s[i]]
  OBVIOUS
<1>2. \A i \in 1..Len(s) : s[i] \in T
  BY <1>1
<1> HIDE DEF T
<1>3. s \in [1..Len(s) -> T]
  BY <1>1, <1>2
<1>4. s \in Seq(T)
  BY <1>1, <1>3
<1> QED
  BY <1>4 DEF T

LEMMA SnapshotSeq ==
    ASSUME SnapshotsOK
    PROVE  Len(snapshots) \in Nat /\ DOMAIN snapshots = 1..Len(snapshots)
BY DEF SnapshotsOK

LEMMA SetNonceInv ==
    ASSUME TxPoolInv, NEW s \in Senders, NEW n \in Nonces, SetNonce(s, n)
    PROVE  TxPoolInv'
<1>1. /\ heads' = [heads EXCEPT ![Len(heads)] = [@ EXCEPT ![s] = n]]
      /\ UNCHANGED <<pool, job, block, snapshots>>
  BY DEF SetNonce
<1>2. heads \in Seq([Senders -> Nonces]) /\ Len(heads) > 0
  BY DEF TxPoolInv, IsHeads
<1>3. heads[Len(heads)] \in [Senders -> Nonces]
  BY <1>2
<1>4. PICK h \in [Senders -> Nonces] : h = [heads[Len(heads)] EXCEPT ![s] = n]
  BY <1>3
<1>5. heads' = [heads EXCEPT ![Len(heads)] = h]
  BY <1>1, <1>4
<1>6. heads' \in Seq([Senders -> Nonces]) /\ Len(heads') = Len(heads)
  BY <1>2, <1>5
<1>7. IsHeads(heads')
  BY <1>2, <1>6 DEF IsHeads
<1>8. BlockTyped' /\ BlockOK'
  BY <1>1, BlockKept
<1>9. JobOK' /\ SnapshotsOK'
  BY <1>1 DEF TxPoolInv, JobOK, SnapshotsOK
<1> QED
  BY <1>1, <1>7, <1>8, <1>9 DEF TxPoolInv

LEMMA RollbackInv ==
    ASSUME TxPoolInv, NEW height, Rollback(height)
    PROVE  TxPoolInv'
<1> DEFINE old(i) == [snapshots[i] EXCEPT
                        !.canonical = @ /\ Len(snapshots[i].heads) <= height]
<1>1. /\ height \in 1..Len(heads) - 1 /\ heads' = SubSeq(heads, 1, height)
      /\ snapshots' = [i \in DOMAIN snapshots |-> old(i)]
      /\ UNCHANGED <<pool, job, block>>
  BY DEF Rollback
<1>2. IsHeads(heads')
  <2>1. heads \in Seq([Senders -> Nonces]) /\ height \in Nat /\ height > 0 /\ height <= Len(heads)
    BY <1>1 DEF TxPoolInv, IsHeads
  <2> QED
    BY <1>1, <2>1 DEF IsHeads
<1>3. SnapshotsOK'
  <2>1. /\ Len(snapshots) \in Nat /\ DOMAIN snapshots = 1..Len(snapshots)
        /\ \A i \in DOMAIN snapshots : DOMAIN snapshots[i] = {"pool", "heads", "canonical"}
    BY SnapshotSeq DEF TxPoolInv, SnapshotsOK
  <2>2. \A i \in DOMAIN snapshots : /\ DOMAIN old(i) = {"pool", "heads", "canonical"}
                                    /\ old(i).pool = snapshots[i].pool
                                    /\ old(i).heads = snapshots[i].heads
    BY <2>1
  <2> HIDE DEF old
  <2>3. snapshots' \in [1..Len(snapshots) -> {old(i) : i \in DOMAIN snapshots}]
    BY <1>1, <2>1
  <2>4. snapshots' \in Seq({old(i) : i \in DOMAIN snapshots})
    BY <2>1, <2>3
  <2>5. snapshots' \in Seq({snapshots'[i] : i \in DOMAIN snapshots'})
    BY <2>4, SeqOfItself
  <2>6. /\ DOMAIN snapshots' = DOMAIN snapshots
        /\ \A i \in DOMAIN snapshots : snapshots'[i] = old(i)
    BY <1>1
  <2> QED
    BY <2>2, <2>5, <2>6 DEF TxPoolInv, SnapshotsOK
<1>4. BlockTyped' /\ BlockOK'
  BY <1>1, BlockKept
<1>5. JobOK'
  BY <1>1 DEF TxPoolInv, JobOK
<1> QED
  BY <1>1, <1>2, <1>3, <1>4, <1>5 DEF TxPoolInv

LEMMA TakeSnapshotInv == ASSUME TxPoolInv, TakeSnapshot PROVE TxPoolInv'
<1> DEFINE s == [pool |-> pool, heads |-> heads, canonical |-> TRUE]
<1>1. snapshots' = Append(snapshots, s) /\ UNCHANGED <<pool, job, block, heads>>
  BY DEF TakeSnapshot
<1>2. /\ DOMAIN s = {"pool", "heads", "canonical"} /\ s.pool = pool /\ s.heads = heads
  OBVIOUS
<1> HIDE DEF s
<1>3. PICK S : S = {snapshots[i] : i \in DOMAIN snapshots} \cup {s}
  OBVIOUS
<1>4. snapshots \in Seq(S) /\ s \in S
  <2>1. snapshots \in Seq({snapshots[i] : i \in DOMAIN snapshots})
    BY DEF TxPoolInv, SnapshotsOK
  <2> QED
    BY <1>3, <2>1, SeqMonotonic
<1>5. /\ snapshots' \in Seq(S) /\ Len(snapshots') = Len(snapshots) + 1
      /\ \A i \in 1..Len(snapshots) : snapshots'[i] = snapshots[i]
      /\ snapshots'[Len(snapshots) + 1] = s
      /\ DOMAIN snapshots = 1..Len(snapshots) /\ Len(snapshots) \in Nat
      /\ DOMAIN snapshots' = 1..Len(snapshots')
  BY <1>1, <1>4, AppendProperties
<1>6. SnapshotsOK'
  <2>1. snapshots' \in Seq({snapshots'[i] : i \in DOMAIN snapshots'})
    BY <1>5, SeqOfItself
  <2>2. \A i \in DOMAIN snapshots' : i \in DOMAIN snapshots \/ i = Len(snapshots) + 1
    BY <1>5
  <2>3. PoolInv(pool) /\ IsHeads(heads)
    BY DEF TxPoolInv
  <2> QED
    BY <1>2, <1>5, <2>1, <2>2, <2>3 DEF TxPoolInv, SnapshotsOK
<1>7. BlockTyped' /\ BlockOK'
  BY <1>1, BlockKept
<1>8. JobOK'
  BY <1>1 DEF TxPoolInv, JobOK
<1> QED
  BY <1>1, <1>6, <1>7, <1>8 DEF TxPoolInv

LEMMA RevertFacts ==
    ASSUME TxPoolInv, NEW i, RevertSnapshot(i)
    PROVE  /\ job = NoJob /\ block = NoBlock /\ UNCHANGED <<job, block>>
           /\ i \in DOMAIN snapshots
           /\ pool' = snapshots[i].pool /\ heads' = snapshots[i].heads
           /\ DOMAIN snapshots' \subseteq DOMAIN snapshots
           /\ \A j \in DOMAIN snapshots' : snapshots'[j] = snapshots[j]
           /\ snapshots' \in Seq({snapshots'[j] : j \in DOMAIN snapshots'})
<1>1. /\ job = NoJob /\ block = NoBlock /\ UNCHANGED <<job, block>>
      /\ i \in 1..Len(snapshots)
      /\ pool' = snapshots[i].pool /\ heads' = snapshots[i].heads
      /\ snapshots' = SubSeq(snapshots, 1, i - 1)
  BY DEF RevertSnapshot, MutexFree, Unlocked, TxPoolInv, BlockTyped
<1>2. PICK S : snapshots \in Seq(S)
  BY DEF TxPoolInv, SnapshotsOK
<1>3. /\ Len(snapshots) \in Nat /\ DOMAIN snapshots = 1..Len(snapshots)
      /\ i - 1 \in Int /\ 1 \in Int /\ \A j \in 1..i-1 : snapshots[j] \in S
  BY <1>1, <1>2
<1>4. /\ snapshots' \in Seq(S)
      /\ Len(snapshots') = (IF 1 <= i - 1 THEN i - 1 - 1 + 1 ELSE 0)
      /\ \A j \in 1..i - 1 - 1 + 1 : snapshots'[j] = snapshots[1 + j - 1]
  BY <1>1, <1>3, SubSeqProperties
<1>5. /\ DOMAIN snapshots' = 1..(i - 1) /\ \A j \in 1..(i - 1) : snapshots'[j] = snapshots[j]
  BY <1>1, <1>3, <1>4
<1>6. snapshots' \in Seq({snapshots'[j] : j \in DOMAIN snapshots'})
  BY <1>4, SeqOfItself
<1>7. DOMAIN snapshots' \subseteq DOMAIN snapshots
  BY <1>1, <1>3, <1>5
<1> QED
  BY <1>1, <1>3, <1>5, <1>6, <1>7

LEMMA RevertSnapshotInv ==
    ASSUME TxPoolInv, NEW i, RevertSnapshot(i)
    PROVE  TxPoolInv'
<1>1. /\ job = NoJob /\ block = NoBlock /\ UNCHANGED <<job, block>>
      /\ i \in DOMAIN snapshots
      /\ pool' = snapshots[i].pool /\ heads' = snapshots[i].heads
      /\ DOMAIN snapshots' \subseteq DOMAIN snapshots
      /\ \A j \in DOMAIN snapshots' : snapshots'[j] = snapshots[j]
      /\ snapshots' \in Seq({snapshots'[j] : j \in DOMAIN snapshots'})
  BY RevertFacts
<1>2. PoolInv(pool') /\ IsHeads(heads')
  BY <1>1 DEF TxPoolInv, SnapshotsOK
<1>3. SnapshotsOK'
  BY <1>1 DEF TxPoolInv, SnapshotsOK
<1>4. JobOK' /\ BlockTyped' /\ BlockOK'
  BY <1>1, NoJobOK, NoBlockOK
<1> QED
  BY <1>2, <1>3, <1>4 DEF TxPoolInv

LEMMA FreshChain ==
    /\ IsHeads(<<Genesis>>) /\ <<>> \in Seq({<<>>[i] : i \in DOMAIN <<>>}) /\ DOMAIN <<>> = {}
    /\ <<Genesis>>[Len(<<Genesis>>)] = Genesis /\ Genesis \in [Senders -> Nonces]
    /\ \A s \in Senders : Genesis[s] = 0
<1>1. Genesis \in [Senders -> Nonces] /\ \A s \in Senders : Genesis[s] = 0
  BY PoolAssumption DEF Genesis, Nonces
<1>2. DOMAIN <<>> = {} /\ <<>> \in Seq({<<>>[i] : i \in DOMAIN <<>>})
  OBVIOUS
<1> QED
  BY <1>1, <1>2 DEF IsHeads

LEMMA ResetInv == ASSUME TxPoolInv, Reset PROVE TxPoolInv'
<1>1. /\ job = NoJob /\ block = NoBlock /\ UNCHANGED <<job, block>>
      /\ pool' = EmptyPool /\ heads' = <<Genesis>> /\ snapshots' = <<>>
  BY DEF Reset, MutexFree, Unlocked, TxPoolInv, BlockTyped
<1>2. PoolInv(pool') /\ IsHeads(heads') /\ SnapshotsOK'
  BY <1>1, EmptyPoolInv, FreshChain DEF SnapshotsOK
<1>3. JobOK' /\ BlockTyped' /\ BlockOK'
  BY <1>1, NoJobOK, NoBlockOK
<1> QED
  BY <1>2, <1>3 DEF TxPoolInv

----------------------------------------------------------------------------
(* The invariant holds *)

LEMMA InitInv == ASSUME Init PROVE TxPoolInv
<1>1. /\ pool = EmptyPool /\ job = NoJob /\ block = NoBlock
      /\ heads = <<Genesis>> /\ snapshots = <<>>
  BY DEF Init
<1>2. DOMAIN <<>> = {}
  OBVIOUS
<1>3. JobOK
  BY <1>1, NoJobFacts DEF JobOK, QueueOK
<1>4. BlockTyped
  BY <1>1, <1>2, NoBlockFacts DEF BlockTyped, ReadyTyped
<1>5. BlockOK
  BY <1>1, <1>2, NoBlockFacts DEF BlockOK, ReadyLinked
<1>6. IsHeads(heads) /\ SnapshotsOK
  BY <1>1, FreshChain DEF SnapshotsOK
<1> QED
  BY <1>1, <1>3, <1>4, <1>5, <1>6, EmptyPoolInv DEF TxPoolInv

LEMMA NextInv == ASSUME TxPoolInv, [Next]_vars PROVE TxPoolInv'
<1>1. ASSUME NEW t \in Txs, SubmitTx(t) PROVE TxPoolInv'
  BY <1>1, SubmitTxInv
<1>2. ASSUME NEW t \in Txs, DropTransaction(t) PROVE TxPoolInv'
  BY <1>2, DropTransactionInv
<1>3. ASSUME NEW s \in Senders, RemoveTransactionsByAddress(s) PROVE TxPoolInv'
  BY <1>3, RemoveByAddressInv
<1>4. CASE Clear
  BY <1>4, ClearInv
<1>5. CASE AddStep
  BY <1>5, AddStepInv
<1>6. ASSUME NEW k, StartBlock(k) PROVE TxPoolInv'
  BY <1>6, StartBlockInv
<1>7. CASE ExecuteNext
  BY <1>7, ExecuteNextInv
<1>8. CASE CommitBlock
  BY <1>8, CommitBlockInv
<1>9. CASE FailBlock
  BY <1>9, FailBlockInv
<1>10. CASE OnMinedInvalid
  BY <1>10, OnMinedInvalidInv
<1>11. CASE OnMinedPrune
  BY <1>11, OnMinedPruneInv
<1>12. CASE PruneMarker
  BY <1>12, PruneMarkerInv
<1>13. CASE PruneTag
  BY <1>13, PruneTagInv
<1>14. ASSUME NEW s \in Senders, NEW n \in Nonces, SetNonce(s, n) PROVE TxPoolInv'
  BY <1>14, SetNonceInv
<1>15. ASSUME NEW height, Rollback(height) PROVE TxPoolInv'
  BY <1>15, RollbackInv
<1>16. CASE TakeSnapshot
  BY <1>16, TakeSnapshotInv
<1>17. ASSUME NEW i, RevertSnapshot(i) PROVE TxPoolInv'
  BY <1>17, RevertSnapshotInv
<1>18. CASE Reset
  BY <1>18, ResetInv
<1>19. CASE UNCHANGED vars
  <2>1. UNCHANGED <<pool, job, block, heads, snapshots>>
    BY <1>19 DEF vars
  <2>2. BlockTyped' /\ BlockOK'
    BY <2>1, BlockKept
  <2>3. JobOK'
    BY <2>1 DEF TxPoolInv, JobOK
  <2> QED
    BY <2>1, <2>2, <2>3, ChainKept DEF TxPoolInv
<1>20. PoolStep => TxPoolInv'
  BY <1>1, <1>2, <1>3, <1>4, <1>5 DEF PoolStep
<1>21. BlockStep => TxPoolInv'
  BY <1>6, <1>7, <1>8, <1>9, <1>10, <1>11, <1>12, <1>13 DEF BlockStep
<1>22. ChainStep => TxPoolInv'
  BY <1>14, <1>15, <1>16, <1>17, <1>18 DEF ChainStep
<1> QED
  BY <1>19, <1>20, <1>21, <1>22 DEF Next

LEMMA InvariantHolds == Spec => []TxPoolInv
<1>1. Init => TxPoolInv
  BY InitInv
<1>2. TxPoolInv /\ [Next]_vars => TxPoolInv'
  BY NextInv
<1> QED
  BY <1>1, <1>2, PTL DEF Spec

----------------------------------------------------------------------------
(* What it says *)

LEMMA PoolTyped == ASSUME NEW p, PoolInv(p) PROVE PoolType(p)
<1>1. IsMap(p.ready, Txs, ReadyEntries)
  BY DEF PoolInv, ReadyTyped, IsMap
<1>2. IsMap(p.provided, Markers, Txs)
  BY ReadyFacts, TxFacts DEF PoolInv, ReadyIndexed, ProvidedBy, IsMap
<1>3. p.independent \subseteq Txs /\ p.older \subseteq Txs \X Txs
  BY <1>1 DEF PoolInv, IndependentExact, IsMap
<1>4. DOMAIN p.waiting \subseteq Txs
  BY DEF PoolInv
<1>5. ASSUME NEW t \in DOMAIN p.waiting
      PROVE  /\ p.waiting[t] \in [requires : SUBSET Markers,
                                  missing : (SUBSET Markers) \ {{}}]
             /\ p.waiting[t].missing \subseteq Markers
  BY DEF PoolInv, WaitingNeeds
<1>6. IsMap(p.waiting, Txs, [requires : SUBSET Markers, missing : (SUBSET Markers) \ {{}}])
  BY <1>4, <1>5 DEF IsMap
<1>7. IsMap(p.required, Markers, SUBSET Txs)
  BY <1>4, <1>5 DEF PoolInv, WaitingIndexed, IsMap
<1>8. IsMap(p.waitingMarkers, Markers, Txs)
  BY <1>4, TxFacts DEF PoolInv, WaitingIndexed, ProvidedBy, IsMap
<1>9. DOMAIN p = DOMAIN EmptyPool
  BY DEF PoolInv
<1> QED
  BY <1>1, <1>2, <1>3, <1>6, <1>7, <1>8, <1>9 DEF PoolType

LEMMA InvTyped == TxPoolInv => TypeOK
<1> SUFFICES ASSUME TxPoolInv PROVE TypeOK
  OBVIOUS
<1>1. PoolType(pool)
  BY PoolTyped DEF TxPoolInv
<1>2. \A i \in DOMAIN snapshots : PoolType(snapshots[i].pool)
  BY PoolTyped DEF TxPoolInv, SnapshotsOK
<1>3. /\ job.queue \subseteq [tx : Txs, requires : SUBSET Markers]
      /\ job.new \in BOOLEAN
      /\ job.markers \subseteq Markers /\ job.stack \subseteq Markers
  BY DEF TxPoolInv, JobOK, QueueOK
<1>4. /\ block.state \in {"none", "executing", "mined", "pruning"}
      /\ IsMap(block.all, Txs, ReadyEntries) /\ block.left \in Nat
  BY DEF TxPoolInv, BlockTyped, ReadyTyped, IsMap
<1>5. block.best \subseteq Txs /\ block.yielded \subseteq Txs
  BY DEF TxPoolInv, BlockTyped, ReadyTyped
<1>6. heads \in Seq([Senders -> Nonces]) /\ heads # <<>>
  BY DEF TxPoolInv, IsHeads
<1> QED
  BY <1>1, <1>2, <1>3, <1>4, <1>5, <1>6 DEF TypeOK

LEMMA InvIndexes == TxPoolInv => IndexesAgree /\ NoneWaitsForProvided /\ PruningPromotesNobody
<1> SUFFICES ASSUME TxPoolInv
             PROVE  IndexesAgree /\ NoneWaitsForProvided /\ PruningPromotesNobody
  OBVIOUS
<1>1. NoneWaitsForProvided
  BY DEF TxPoolInv, PoolInv, WaitingNeeds, NoneWaitsForProvided
<1>2. PruningPromotesNobody
  BY DEF TxPoolInv, JobOK, PruningPromotesNobody
<1>3. \A e \in job.queue : ~InPool(e.tx)
  BY DEF TxPoolInv, JobOK, QueueOK, InPool
<1>4. /\ DOMAIN pool.ready \cap DOMAIN pool.waiting = {}
      /\ ReadyIndexed(pool) /\ WaitingIndexed(pool)
  BY DEF TxPoolInv, PoolInv
<1>5. IndexesAgree
  BY <1>3, <1>4 DEF ReadyIndexed, WaitingIndexed, IndexesAgree
<1> QED
  BY <1>1, <1>2, <1>5

LEMMA InvLinks == TxPoolInv => LinksExact
<1> SUFFICES ASSUME TxPoolInv, NEW t \in DOMAIN pool.ready
             PROVE  LET parents == {u \in DOMAIN pool.ready : t \in pool.ready[u].unlocks}
                    IN  /\ pool.ready[t].unlocks \subseteq DOMAIN pool.ready
                        /\ t \in pool.independent <=> parents = {}
                        /\ \A u \in parents : /\ Provides(u) \in pool.ready[t].requires
                                              /\ parents = {u}
                        /\ t \in pool.independent <=>
                              pool.ready[t].offset = Cardinality(pool.ready[t].requires)
  BY DEF LinksExact
<1> DEFINE parents == {u \in DOMAIN pool.ready : t \in pool.ready[u].unlocks}
<1>0. PoolInv(pool)
  BY DEF TxPoolInv
<1>1. pool.ready[t].unlocks \subseteq DOMAIN pool.ready
  BY <1>0, ReadyFacts
<1>2. t \in pool.independent <=> parents = {}
  BY <1>0 DEF PoolInv, IndependentExact, Parentless
<1>3. ASSUME NEW u \in parents
      PROVE  Provides(u) \in pool.ready[t].requires /\ parents = {u}
  BY <1>0, ReadyFacts
<1>4. /\ pool.ready[t].offset =
            IF t \in pool.independent /\ pool.ready[t].requires # {} THEN 1 ELSE 0
  BY <1>0 DEF PoolInv, IndependentExact
<1>5. Cardinality(pool.ready[t].requires) = IF pool.ready[t].requires = {} THEN 0 ELSE 1
  BY <1>0, ReadyFacts, RequirementCardinality
<1>6. t \notin pool.independent => pool.ready[t].requires # {}
  BY <1>2, <1>3
<1> QED
  BY <1>1, <1>2, <1>3, <1>4, <1>5, <1>6

LEMMA LeastIn ==
    ASSUME NEW S, S \subseteq Nat, S # {}
    PROVE  \E x \in S : \A y \in S : x <= y
<1> DEFINE R == {ss \in Nat \X Nat : ss[1] < ss[2]}
<1>1. IsWellFoundedOn(R, Nat)
  BY NatLessThanWellFounded DEF OpToRel
<1>2. \E x \in S : \A y \in S : <<y, x>> \notin R
  <2> HIDE DEF R
  <2> QED
    BY <1>1, WFMin
<1>3. PICK x \in S : \A y \in S : <<y, x>> \notin R
  BY <1>2
<1>4. ASSUME NEW y \in S PROVE x <= y
  <2>1. x \in Nat /\ y \in Nat /\ <<y, x>> \notin R
    BY <1>3
  <2>2. ~(y < x)
    BY <2>1
  <2> QED
    BY <2>1, <2>2
<1> QED
  BY <1>4

\* A transaction of the lowest nonce among those not yielded is available:
\* whatever unlocks it has a lower nonce.
LEMMA InvYields == TxPoolInv => YieldsEachOnce
<1> SUFFICES ASSUME TxPoolInv PROVE YieldsEachOnce
  OBVIOUS
<1>1. block.best \cap block.yielded = {} /\ block.yielded \subseteq DOMAIN block.all
  BY DEF TxPoolInv, BlockOK, BlockTyped
<1>2. ASSUME block.best = {}, block.yielded # DOMAIN block.all PROVE FALSE
  <2> DEFINE L == DOMAIN block.all \ block.yielded
  <2> DEFINE N == {t.nonce : t \in L}
  <2>1. N # {} /\ N \subseteq Nat
    <3>1. L # {}
      BY <1>1, <1>2
    <3>2. \A t \in L : t \in Txs
      BY BlockFacts
    <3> QED
      BY <3>1, <3>2, TxFacts
  <2>2. \E n \in N : \A m \in N : n <= m
    <3> HIDE DEF N
    <3> QED
      BY <2>1, LeastIn
  <2>3. PICK u \in L : \A t \in L : u.nonce <= t.nonce
    BY <2>2
  <2>4. u \notin block.best \cup block.yielded /\ u \in DOMAIN block.all
    BY <1>2
  <2>5. PICK t \in DOMAIN block.all : u \in block.all[t].unlocks /\ t \notin block.yielded
    BY <2>4 DEF TxPoolInv, BlockOK
  <2>6. t \in L /\ t \in Txs /\ u \in Txs /\ t.nonce = u.nonce - 1
    BY <2>4, <2>5, BlockFacts
  <2>7. u.nonce <= t.nonce /\ u.nonce \in Nat /\ t.nonce \in Nat
    BY <2>3, <2>6, TxFacts
  <2> QED
    BY <2>6, <2>7
<1> QED
  BY <1>1, <1>2 DEF YieldsEachOnce

LEMMA NewAdded ==
    ASSUME TxPoolInv, AddStep
    PROVE  job.new => UNCHANGED pool \/ \E e \in job.queue : job.queue = {e} /\ e.tx \in DOMAIN pool'.ready
<1>1. PICK e \in job.queue :
        \/ /\ Underpriced(pool, e.tx) /\ UNCHANGED pool
           /\ job' = [job EXCEPT !.queue = IF job.new THEN {} ELSE job.queue \ {e},
                                 !.new = FALSE]
        \/ /\ pool' = AddReady(MarkAndUnlock(pool, Provides(e.tx)), e)
           /\ job' = [job EXCEPT !.queue = (job.queue \ {e})
                                     \cup Entries(pool, Provides(e.tx)),
                                 !.new = FALSE]
  BY AddStepFacts
<1>2. CASE pool' = AddReady(MarkAndUnlock(pool, Provides(e.tx)), e)
  <2> DEFINE p == MarkAndUnlock(pool, Provides(e.tx))
  <2>1. PoolInv(pool)
    BY DEF TxPoolInv
  <2>2. /\ PoolInv(p) /\ SameReady(pool, p)
        /\ DOMAIN p.waiting = DOMAIN pool.waiting \ UnlockedBy(pool, Provides(e.tx))
        /\ DOMAIN p.required \subseteq DOMAIN pool.required \ {Provides(e.tx)}
    BY <2>1, MarkAndUnlockInv
  <2> HIDE DEF p
  <2>3. /\ e \in [tx : Txs, requires : SUBSET Markers]
        /\ e.tx \notin DOMAIN pool.ready /\ e.tx \notin DOMAIN pool.waiting
        /\ e.requires \subseteq Requirement(e.tx)
    BY DEF TxPoolInv, JobOK, QueueOK
  <2>4. /\ e.tx \notin DOMAIN p.ready /\ e.tx \notin DOMAIN p.waiting
        /\ Provides(e.tx) \notin DOMAIN p.required
    BY <2>2, <2>3 DEF SameReady
  <2>5. e.tx \in DOMAIN AddReady(p, e).ready
    BY <2>2, <2>3, <2>4, AddReadyInv
  <2>6. job.new => job.queue = {e}
    BY DEF TxPoolInv, JobOK
  <2> QED
    BY <1>2, <2>5, <2>6 DEF p
<1> QED
  BY <1>1, <1>2

\* What a step may do while a new transaction is being added.
LEMMA NewStep ==
    ASSUME TxPoolInv, [Next]_vars, job.new
    PROVE  UNCHANGED pool \/ \E e \in job.queue : job.queue = {e} /\ e.tx \in DOMAIN pool'.ready
<1>1. /\ job.markers = {} /\ job.stack = {} /\ job # NoJob
  BY NoJobFacts DEF TxPoolInv, JobOK
<1>2. block.state = "none"
  BY <1>1, BusyPool
<1>3. CASE AddStep
  BY <1>3, NewAdded
<1>4. ~PruneMarker /\ ~PruneTag
  BY <1>1 DEF PruneMarker, PruneTag
<1>5. PoolStep => AddStep
  <2>1. \A t : ~SubmitTx(t) /\ ~DropTransaction(t)
    BY <1>1 DEF SubmitTx, DropTransaction, MutexFree, Unlocked
  <2>2. ~Clear /\ \A s : ~RemoveTransactionsByAddress(s)
    BY <1>1 DEF RemoveTransactionsByAddress, Clear, Unlocked
  <2> QED
    BY <2>1, <2>2 DEF PoolStep
<1>6. BlockStep => UNCHANGED pool
  <2>1. \A k : StartBlock(k) => UNCHANGED pool
    BY DEF StartBlock
  <2>2. ExecuteNext => UNCHANGED pool
    BY ExecuteFacts
  <2>4. CommitBlock \/ FailBlock => UNCHANGED pool
    BY DEF CommitBlock, FailBlock
  <2>3. ~OnMinedInvalid /\ ~OnMinedPrune
    BY <1>2 DEF OnMinedInvalid, OnMinedPrune
  <2> QED
    BY <1>4, <2>1, <2>2, <2>3, <2>4 DEF BlockStep
<1>7. ChainStep => UNCHANGED pool
  BY <1>1 DEF ChainStep, SetNonce, Rollback, TakeSnapshot, RevertSnapshot, Reset, MutexFree,
     Unlocked
<1>8. UNCHANGED vars => UNCHANGED pool
  BY DEF vars
<1> QED
  BY <1>3, <1>5, <1>6, <1>7, <1>8 DEF Next

----------------------------------------------------------------------------
(* The theorems *)

(* Every variable of the pool, its jobs, its blocks and its chain keeps    *)
(* its type (PoolInner in pool/mod.rs, ReadyTransactions and               *)
(* PendingTransactions in pool/transactions.rs).                           *)
THEOREM PoolIsTyped == Spec => []TypeOK
BY InvariantHolds, InvTyped, PTL

(* The hash and marker indexes of the two queues describe exactly what the *)
(* queues hold, through add_transaction, replacements, removals, prunes    *)
(* and snapshot restores: the lookups the code unwraps always succeed.     *)
THEOREM IndexesDescribeQueues == Spec => []IndexesAgree
BY InvariantHolds, InvIndexes, PTL

(* The `unlocks` links, the independent set and `requires_offset` of the   *)
(* ready queue agree: a block's iterator reaches every ready transaction   *)
(* along exactly one way.                                                  *)
THEOREM LinksAreExact == Spec => []LinksExact
BY InvariantHolds, InvLinks, PTL

(* mark_and_unlock never misses a waiting transaction: nobody waits for a  *)
(* marker that the ready queue provides.                                   *)
THEOREM NobodyWaitsForProvided == Spec => []NoneWaitsForProvided
BY InvariantHolds, InvIndexes, PTL

(* prune_markers promotes nobody: the mutex between submissions and blocks *)
(* keeps everyone from waiting for a marker of the block being mined.      *)
THEOREM PruningAddsNobody == Spec => []PruningPromotesNobody
BY InvariantHolds, InvIndexes, PTL

(* TransactionsIterator, run to its end, yields each transaction of the    *)
(* ready queue it copied exactly once.                                     *)
THEOREM IteratorIsExact == Spec => []YieldsEachOnce
BY InvariantHolds, InvYields, PTL

(* add_transaction of an underpriced replacement returns with the pool as  *)
(* it was, although what waits for its marker is taken out of the waiting  *)
(* queue before the ready queue refuses it.                                *)
THEOREM RefusalIsHarmless == Spec => RefusalHarmless
<1>1. TxPoolInv /\ [Next]_vars =>
        [(job.new /\ \E e \in job.queue : e.tx \notin DOMAIN pool'.ready) => pool' = pool]_vars
  BY NewStep
<1> QED
  BY <1>1, InvariantHolds, PTL DEF Spec, RefusalHarmless

----------------------------------------------------------------------------
(* The nonces of the accounts, where only blocks change them *)

NonceInv == NoncesOK /\ BlockNoncesOK

LEMMA BlockNonceFacts ==
    ASSUME TxPoolInv, block.state # "none"
    PROVE  /\ job = NoJob /\ block.nonces \in [Senders -> Nonces]
           /\ \A s \in Senders : block.nonces[s] \in Nat
BY PoolAssumption DEF TxPoolInv, BlockTyped, Nonces

LEMMA WaitingTxs ==
    ASSUME TxPoolInv
    PROVE  /\ \A t \in DOMAIN pool.waiting : t \in Txs /\ t.sender \in Senders /\ t.nonce \in Nat
           /\ \A t \in DOMAIN pool.ready : t \in Txs /\ t.sender \in Senders /\ t.nonce \in Nat
           /\ pool.independent \subseteq DOMAIN pool.ready
<1>1. DOMAIN pool.waiting \subseteq Txs /\ DOMAIN pool.ready \subseteq Txs
  BY DEF TxPoolInv, PoolInv, ReadyTyped
<1>2. pool.independent \subseteq DOMAIN pool.ready
  BY DEF TxPoolInv, PoolInv, IndependentExact
<1> QED
  BY <1>1, <1>2, TxFacts

\* The pool loses transactions, and nothing else happens.
LEMMA NoncesShrink ==
    ASSUME TxPoolInv, NonceInv, UNCHANGED <<job, block, heads, snapshots>>,
           DOMAIN pool'.waiting \subseteq DOMAIN pool.waiting,
           pool'.independent \subseteq pool.independent
    PROVE  NonceInv'
<1>1. NoncesOK'
  BY DEF NonceInv, NoncesOK, Fits, Head_
<1>2. BlockNoncesOK'
  BY DEF NonceInv, BlockNoncesOK, NextIsExecutable, DependencyUnavailable, Head_
<1> QED
  BY <1>1, <1>2 DEF NonceInv

\* The pool changes between two blocks.
LEMMA NoncesBetween ==
    ASSUME TxPoolInv, NonceInv, block'.state = "none", UNCHANGED <<heads, snapshots>>,
           Fits(pool', Head_),
           \A e \in job'.queue : e.requires = {} => e.tx.nonce <= Head_[e.tx.sender],
           \A m \in job'.markers \cup job'.stack : m[2] < Head_[m[1]]
    PROVE  NonceInv'
<1>1. NoncesOK'
  BY DEF NonceInv, NoncesOK, Head_
<1>2. BlockNoncesOK'
  BY DEF BlockNoncesOK
<1> QED
  BY <1>1, <1>2 DEF NonceInv

LEMMA SubmitTxNonces ==
    ASSUME TxPoolInv, NonceInv, NEW t \in Txs, SubmitTx(t)
    PROVE  NonceInv'
<1>1. /\ job = NoJob /\ block = NoBlock /\ UNCHANGED <<block, heads, snapshots>>
      /\ t \notin DOMAIN pool.ready /\ t \notin DOMAIN pool.waiting
      /\ \/ /\ pool' = AddWaiting(pool, t, Requirement(t), Requirement(t))
            /\ Requirement(t) # {} /\ Requirement(t) \cap DOMAIN pool.provided = {}
            /\ t.nonce > Head_[t.sender]
            /\ UNCHANGED job
         \/ \E R \in SUBSET Markers :
               /\ job' = [NoJob EXCEPT !.queue = {[tx |-> t, requires |-> R]},
                                       !.new = TRUE]
               /\ R \subseteq Requirement(t) /\ R \subseteq DOMAIN pool.provided
               /\ R = {} => t.nonce <= Head_[t.sender]
               /\ UNCHANGED pool
  BY SubmitFacts
<1>2. block'.state = "none" /\ Fits(pool, Head_) /\ PoolInv(pool)
  BY <1>1, NoBlockFacts DEF NonceInv, NoncesOK, TxPoolInv
<1>3. ASSUME /\ pool' = AddWaiting(pool, t, Requirement(t), Requirement(t))
             /\ Requirement(t) # {} /\ Requirement(t) \cap DOMAIN pool.provided = {}
             /\ t.nonce > Head_[t.sender]
             /\ UNCHANGED job
      PROVE  NonceInv'
  <2>1. /\ SameReady(pool, pool') /\ DOMAIN pool'.waiting \subseteq DOMAIN pool.waiting \cup {t}
    BY <1>1, <1>2, <1>3, AddWaitingInv
  <2>2. Fits(pool', Head_)
    BY <1>2, <1>3, <2>1 DEF Fits, SameReady
  <2>3. job'.queue = {} /\ job'.markers \cup job'.stack = {}
    BY <1>1, <1>3, NoJobFacts
  <2> QED
    BY <1>1, <1>2, <2>2, <2>3, NoncesBetween
<1>4. ASSUME NEW R,
             /\ job' = [NoJob EXCEPT !.queue = {[tx |-> t, requires |-> R]}, !.new = TRUE]
             /\ R = {} => t.nonce <= Head_[t.sender]
             /\ UNCHANGED pool
      PROVE  NonceInv'
  <2>1. job'.queue = {[tx |-> t, requires |-> R]} /\ job'.markers = {} /\ job'.stack = {}
    BY <1>4 DEF NoJob
  <2>2. \A e \in job'.queue : e.requires = {} => e.tx.nonce <= Head_[e.tx.sender]
    BY <1>4, <2>1
  <2>3. Fits(pool', Head_) /\ job'.markers \cup job'.stack = {}
    BY <1>2, <1>4, <2>1
  <2> QED
    BY <1>1, <1>2, <2>2, <2>3, NoncesBetween
<1> QED
  BY <1>1, <1>3, <1>4

LEMMA AddStepNonces == ASSUME TxPoolInv, NonceInv, AddStep PROVE NonceInv'
<1>1. /\ job.markers = {} /\ job.stack = {} /\ job # NoJob
      /\ UNCHANGED <<block, heads, snapshots>>
  BY AddStepFacts
<1>2. PICK e \in job.queue :
         \/ /\ Underpriced(pool, e.tx) /\ UNCHANGED pool
            /\ job' = [job EXCEPT !.queue = IF job.new THEN {} ELSE job.queue \ {e},
                                  !.new = FALSE]
         \/ /\ pool' = AddReady(MarkAndUnlock(pool, Provides(e.tx)), e)
            /\ job' = [job EXCEPT !.queue = (job.queue \ {e})
                                      \cup Entries(pool, Provides(e.tx)),
                                  !.new = FALSE]
  BY AddStepFacts
<1>3. /\ block.state = "none" /\ block'.state = "none"
      /\ PoolInv(pool) /\ Fits(pool, Head_) /\ DOMAIN job = JobFields
      /\ \A f \in job.queue : f.requires = {} => f.tx.nonce <= Head_[f.tx.sender]
  BY <1>1, BusyPool, FieldsOfJobs DEF TxPoolInv, JobOK, NonceInv, NoncesOK
<1>4. CASE /\ UNCHANGED pool
           /\ job' = [job EXCEPT !.queue = IF job.new THEN {} ELSE job.queue \ {e},
                                 !.new = FALSE]
  <2>1. PICK Q \in SUBSET job.queue : job' = [job EXCEPT !.queue = Q, !.new = FALSE]
    BY <1>4
  <2>2. job'.queue = Q /\ job'.markers = {} /\ job'.stack = {}
    BY <1>1, <1>3, <2>1 DEF JobFields
  <2>3. /\ Fits(pool', Head_) /\ job'.markers \cup job'.stack = {}
        /\ \A f \in job'.queue : f.requires = {} => f.tx.nonce <= Head_[f.tx.sender]
    BY <1>3, <1>4, <2>2
  <2> QED
    BY <1>1, <1>3, <2>3, NoncesBetween
<1>5. CASE /\ pool' = AddReady(MarkAndUnlock(pool, Provides(e.tx)), e)
           /\ job' = [job EXCEPT !.queue = (job.queue \ {e}) \cup Entries(pool, Provides(e.tx)),
                                 !.new = FALSE]
  <2>1. PICK Q : /\ Q = (job.queue \ {e}) \cup Entries(pool, Provides(e.tx))
                 /\ job' = [job EXCEPT !.queue = Q, !.new = FALSE]
    BY <1>5
  <2>2. job'.queue = Q /\ job'.markers = {} /\ job'.stack = {}
    BY <1>1, <1>3, <2>1 DEF JobFields
  <2>3. ASSUME NEW f \in job'.queue, f.requires = {} PROVE f.tx.nonce <= Head_[f.tx.sender]
    <3>1. CASE f \in Entries(pool, Provides(e.tx))
      BY <1>3, <2>3, <3>1, EntriesFacts
    <3>2. CASE f \in job.queue
      BY <1>3, <2>3, <3>2
    <3> QED
      BY <2>1, <2>2, <3>1, <3>2
  <2> DEFINE p == MarkAndUnlock(pool, Provides(e.tx))
  <2>4. /\ PoolInv(p) /\ SameReady(pool, p)
        /\ DOMAIN p.waiting = DOMAIN pool.waiting \ UnlockedBy(pool, Provides(e.tx))
        /\ DOMAIN p.required \subseteq DOMAIN pool.required \ {Provides(e.tx)}
    BY <1>3, MarkAndUnlockInv
  <2>5. pool' = AddReady(p, e)
    BY <1>5
  <2> HIDE DEF p
  <2>6. /\ e \in [tx : Txs, requires : SUBSET Markers]
        /\ e.tx \notin DOMAIN pool.ready /\ e.tx \notin DOMAIN pool.waiting
        /\ e.requires \subseteq Requirement(e.tx) /\ e.requires \subseteq DOMAIN pool.provided
    BY DEF TxPoolInv, JobOK, QueueOK
  <2>7. /\ e.tx \notin DOMAIN p.ready /\ e.tx \notin DOMAIN p.waiting
        /\ Provides(e.tx) \notin DOMAIN p.required
    BY <2>4, <2>6 DEF SameReady
  <2>8. LET q == AddReady(p, e)
        IN  /\ SameWaiting(p, q) /\ q.independent \subseteq p.independent \cup {e.tx}
            /\ e.tx \in q.independent => e.requires \cap DOMAIN p.provided = {}
    BY <2>4, <2>6, <2>7, AddReadyInv
  <2>9. /\ DOMAIN pool'.waiting \subseteq DOMAIN pool.waiting
        /\ pool'.independent \subseteq pool.independent \cup {e.tx}
        /\ e.tx \in pool'.independent => e.requires = {}
    BY <2>4, <2>5, <2>6, <2>8 DEF SameWaiting, SameReady
  <2>10. Fits(pool', Head_)
    BY <1>3, <2>9 DEF Fits
  <2>11. /\ job'.markers \cup job'.stack = {}
         /\ \A f \in job'.queue : f.requires = {} => f.tx.nonce <= Head_[f.tx.sender]
    BY <2>2, <2>3
  <2> QED
    BY <1>1, <1>3, <2>10, <2>11, NoncesBetween
<1> QED
  BY <1>2, <1>4, <1>5

LEMMA RemovalNonces ==
    ASSUME TxPoolInv, NonceInv,
           \/ \E t \in Txs : DropTransaction(t)
           \/ \E s : RemoveTransactionsByAddress(s)
           \/ Clear
    PROVE  NonceInv'
<1>1. ASSUME NEW t \in Txs, DropTransaction(t) PROVE NonceInv'
  <2> DEFINE p == RemoveReady(pool, {t})
             S == WaitingDependents(p, {t}, ProvidedBy(ReadyDependents(pool, {t})))
  <2>1. pool' = RemoveWaiting(p, S) /\ UNCHANGED <<job, block, heads, snapshots>>
    BY <1>1 DEF DropTransaction
  <2>2. PoolInv(p) /\ SameWaiting(pool, p) /\ p.independent \subseteq pool.independent
    BY RemoveReadyInv DEF TxPoolInv
  <2> HIDE DEF p, S
  <2>3. SameReady(p, pool') /\ DOMAIN pool'.waiting = DOMAIN p.waiting \ S
    BY <2>1, <2>2, RemoveWaitingInv
  <2> QED
    BY <2>1, <2>2, <2>3, NoncesShrink DEF SameWaiting, SameReady
<1>2. ASSUME NEW s, RemoveTransactionsByAddress(s) PROVE NonceInv'
  <2>1. PICK S : pool' = RemoveInvalid(pool, S)
    BY <1>2 DEF RemoveTransactionsByAddress
  <2>2. UNCHANGED <<job, block, heads, snapshots>>
    BY <1>2 DEF RemoveTransactionsByAddress
  <2>3. /\ DOMAIN pool'.waiting \subseteq DOMAIN pool.waiting
        /\ pool'.independent \subseteq pool.independent
    BY <2>1, RemoveInvalidInv DEF TxPoolInv
  <2> QED
    BY <2>2, <2>3, NoncesShrink
<1>3. CASE Clear
  <2>1. pool' = EmptyPool /\ UNCHANGED <<job, block, heads, snapshots>>
    BY <1>3 DEF Clear
  <2> QED
    BY <2>1, EmptyPoolInv, NoncesShrink
<1> QED
  BY <1>1, <1>2, <1>3

LEMMA StartBlockNonces ==
    ASSUME TxPoolInv, NonceInv, NEW k, StartBlock(k)
    PROVE  NonceInv'
<1>1. /\ UNCHANGED <<pool, job, heads, snapshots>>
      /\ block'.state = "executing" /\ block'.best = pool.independent /\ block'.nonces = Head_
      /\ block'.included = {} /\ block'.stale = {} /\ block'.invalid = {}
  BY StartBlockFacts
<1>2. NoncesOK'
  BY <1>1 DEF NonceInv, NoncesOK, Head_
<1>3. Fits(pool, Head_) /\ \A s \in Senders : Head_[s] \in Nat
  BY HeadFacts DEF NonceInv, NoncesOK, TxPoolInv
<1>4. NextIsExecutable'
  BY <1>1, <1>3 DEF NextIsExecutable, Fits
<1>5. Head_' = Head_
  BY <1>1 DEF Head_
<1>6. BlockNoncesOK'
  BY <1>1, <1>3, <1>4, <1>5 DEF BlockNoncesOK, Fits
<1> QED
  BY <1>2, <1>6 DEF NonceInv

\* Nobody waits for what a transaction of the block provides.
LEMMA NoneWaitsForBlock ==
    ASSUME TxPoolInv, NEW t \in DOMAIN block.all, NEW w \in DOMAIN pool.waiting,
           w.sender = t.sender
    PROVE  w.nonce # t.nonce + 1
<1>1. t \in Txs /\ w \in Txs /\ t.nonce \in Nat /\ w.nonce \in Nat
  BY BlockFacts, WaitingTxs, TxFacts
<1>2. Provides(t) \notin DOMAIN pool.required /\ PoolInv(pool)
  BY DEF TxPoolInv, BlockOK
<1>3. Provides(t) \notin Requirement(w)
  BY <1>2, MissingFacts
<1>4. ASSUME w.nonce = t.nonce + 1 PROVE FALSE
  <2>1. w.nonce # 0 /\ w.nonce - 1 = t.nonce
    BY <1>1, <1>4
  <2>2. Provides(t) = <<w.sender, w.nonce - 1>>
    BY <2>1 DEF Provides
  <2> QED
    BY <1>3, <2>1, <2>2 DEF Requirement
<1> QED
  BY <1>4

\* Executing t uses up its nonce, and touches no other account's but those
\* that sign authorizations.
LEMMA NoncesAfterFacts ==
    ASSUME NEW t \in Txs, NEW n \in NoncesAfter(t), block.nonces \in [Senders -> Nonces]
    PROVE  /\ n \in [Senders -> Nonces]
           /\ \A s \in Senders : n[s] \in Nat /\ block.nonces[s] <= n[s]
           /\ n[t.sender] >= block.nonces[t.sender] + 1
           /\ \A s \in Senders \ Authorities :
                 n[s] = block.nonces[s] \/ (s = t.sender /\ n[s] = block.nonces[s] + 1)
<1>1. t.sender \in Senders /\ MaxNonce \in Nat
  BY TxFacts, PoolAssumption
<1>2. n \in [Senders -> Nonces] /\ \A s \in Senders : n[s] \in Nat /\ block.nonces[s] \in Nat
  BY <1>1 DEF NoncesAfter, Nonces
<1>3. /\ \A s \in Senders \ Authorities :
            n[s] = block.nonces[s] + (IF s = t.sender THEN 1 ELSE 0)
      /\ \A s \in Authorities : n[s] >= block.nonces[s] + (IF s = t.sender THEN 1 ELSE 0)
  BY DEF NoncesAfter
<1> QED
  BY <1>1, <1>2, <1>3

LEMMA ExecuteNextNonces == ASSUME TxPoolInv, NonceInv, ExecuteNext PROVE NonceInv'
<1>1. /\ block.state = "executing" /\ UNCHANGED <<pool, job, heads, snapshots>>
      /\ block'.state = block.state /\ block'.all = block.all
  BY ExecuteFacts
<1>2. PICK t \in block.best :
        /\ block'.best = (block.best \ {t}) \cup block.all[t].unlocks
        /\ block'.yielded = block.yielded \cup {t}
        /\ \/ /\ block'.unavailable = block.unavailable \cup {Provides(t)}
              /\ block'.included = block.included /\ block'.stale = block.stale
              /\ block'.invalid = block.invalid /\ block'.nonces = block.nonces
           \/ /\ t.nonce < block.nonces[t.sender]
              /\ block'.stale = block.stale \cup {t}
              /\ block'.included = block.included
              /\ block'.unavailable = block.unavailable
              /\ block'.invalid = block.invalid /\ block'.nonces = block.nonces
           \/ /\ ~DependencyUnavailable(t)
              /\ block'.invalid = block.invalid \cup {t}
              /\ block'.included = block.included /\ block'.stale = block.stale
              /\ block'.unavailable = block.unavailable
              /\ block'.nonces = block.nonces
           \/ /\ t.nonce = block.nonces[t.sender] /\ t.nonce < MaxNonce
              /\ ~DependencyUnavailable(t)
              /\ block'.included = block.included \cup {t}
              /\ block'.nonces \in NoncesAfter(t)
              /\ block'.stale = block.stale /\ block'.invalid = block.invalid
              /\ block'.unavailable = block.unavailable
  BY ExecuteFacts
<1>3. /\ block.nonces \in [Senders -> Nonces] /\ \A s \in Senders : block.nonces[s] \in Nat
      /\ t \in DOMAIN block.all /\ t \in Txs /\ t.sender \in Senders /\ t.nonce \in Nat
      /\ \A s \in Senders : Head_[s] \in Nat
  <2>1. t \in DOMAIN block.all
    BY DEF TxPoolInv, BlockTyped
  <2> QED
    BY <1>1, <2>1, BlockNonceFacts, BlockFacts, TxFacts, HeadFacts DEF TxPoolInv
<1>4. /\ \A s \in Senders : Head_[s] <= block.nonces[s]
      /\ \A w \in DOMAIN pool.waiting :
            w.sender \notin Authorities => w.nonce > block.nonces[w.sender]
      /\ \A u \in block.included \cup block.stale : u.nonce < block.nonces[u.sender]
      /\ NextIsExecutable
  BY <1>1 DEF NonceInv, BlockNoncesOK
\* The nonces of a block only grow, by what it includes and carries.
<1>5. /\ \A s \in Senders : block'.nonces[s] \in Nat /\ block.nonces[s] <= block'.nonces[s]
      /\ \A s \in Senders \ Authorities : block'.nonces[s] # block.nonces[s] =>
            s = t.sender /\ t.nonce = block.nonces[s] /\ block'.nonces[s] = t.nonce + 1
  BY <1>2, <1>3, NoncesAfterFacts
<1>6. NoncesOK'
  BY <1>1 DEF NonceInv, NoncesOK, Head_
<1>7. ASSUME NEW w \in DOMAIN pool.waiting, w.sender \notin Authorities
      PROVE  w.nonce > block'.nonces[w.sender]
  <2>1. w.sender \in Senders /\ w.nonce \in Nat /\ w.nonce > block.nonces[w.sender]
    BY <1>4, <1>7, WaitingTxs
  <2>2. CASE block'.nonces[w.sender] = block.nonces[w.sender]
    BY <2>1, <2>2
  <2>3. CASE block'.nonces[w.sender] # block.nonces[w.sender]
    <3>1. /\ w.sender = t.sender /\ t.nonce = block.nonces[w.sender]
          /\ block'.nonces[w.sender] = t.nonce + 1
      BY <1>5, <1>7, <2>1, <2>3
    <3>2. w.nonce # t.nonce + 1
      BY <1>3, <3>1, NoneWaitsForBlock
    <3> QED
      BY <1>3, <2>1, <3>1, <3>2
  <2> QED
    BY <2>2, <2>3
<1>8. \A u \in DOMAIN block.all : u \in Txs /\ u.sender \in Senders /\ u.nonce \in Nat
  BY BlockFacts, TxFacts
<1>9. ASSUME NEW u \in block'.included \cup block'.stale
      PROVE  u.nonce < block'.nonces[u.sender]
  <2>1. u = t \/ u \in block.included \cup block.stale
    BY <1>2
  <2>2. CASE u \in block.included \cup block.stale
    <3>1. u \in DOMAIN block.all
      BY <2>2 DEF TxPoolInv, BlockTyped
    <3> QED
      BY <1>3, <1>4, <1>5, <1>8, <2>2, <3>1
  <2>3. CASE u = t /\ u \notin block.included \cup block.stale
    BY <1>2, <1>3, <1>5, <2>3, NoncesAfterFacts
  <2> QED
    BY <2>1, <2>2, <2>3
<1>10. ASSUME NEW u \in block'.best
       PROVE  \/ u.nonce <= block'.nonces[u.sender]
              \/ block.all[u].requires \cap block'.unavailable # {}
              \/ \E x \in block'.invalid : Provides(x) \in block.all[u].requires
  <2>1. CASE u \in block.best
    <3>1. \/ u.nonce <= block.nonces[u.sender]
          \/ block.all[u].requires \cap block.unavailable # {}
          \/ \E x \in block.invalid : Provides(x) \in block.all[u].requires
      BY <1>1, <1>4, <2>1 DEF NextIsExecutable, DependencyUnavailable
    <3>2. block.unavailable \subseteq block'.unavailable /\ block.invalid \subseteq block'.invalid
      BY <1>2
    <3>3. u \in DOMAIN block.all
      BY <2>1 DEF TxPoolInv, BlockTyped
    <3>4. u.sender \in Senders /\ u.nonce \in Nat
      BY <1>8, <3>3
    <3>5. CASE u.nonce <= block.nonces[u.sender]
      BY <1>3, <1>5, <3>4, <3>5
    <3>6. CASE block.all[u].requires \cap block.unavailable # {}
      BY <3>2, <3>6
    <3>7. CASE \E x \in block.invalid : Provides(x) \in block.all[u].requires
      BY <3>2, <3>7
    <3> QED
      BY <3>1, <3>5, <3>6, <3>7
  <2>2. CASE u \in block.all[t].unlocks
    <3>1. /\ u \in DOMAIN block.all /\ Provides(t) \in block.all[u].requires
          /\ u.sender = t.sender /\ t.nonce = u.nonce - 1
      BY <1>3, <2>2, BlockFacts
    <3>2. CASE block'.unavailable = block.unavailable \cup {Provides(t)}
      BY <3>1, <3>2
    <3>3. CASE block'.invalid = block.invalid \cup {t}
      BY <3>1, <3>3
    <3>4. CASE t.nonce < block'.nonces[t.sender]
      BY <1>3, <1>5, <1>8, <3>1, <3>4
    <3>5. CASE t.nonce = block.nonces[t.sender] /\ block'.nonces \in NoncesAfter(t)
      <4>1. t.nonce < block'.nonces[t.sender]
        BY <1>3, <3>5, NoncesAfterFacts
      <4> QED
        BY <3>4, <4>1
    <3> QED
      BY <1>2, <3>2, <3>3, <3>4, <3>5
  <2> QED
    BY <1>2, <2>1, <2>2
\* Who depends on what is left out now has not been judged; who is judged now
\* depends on nothing that was left out.
<1>14. ASSUME NEW u \in DOMAIN block.all, Provides(u) \in block'.unavailable,
              NEW x \in block.all[u].unlocks, x \in block'.invalid \cup block'.included
       PROVE  FALSE
  <2>1. x \in DOMAIN block.all /\ Provides(u) \in block.all[x].requires
    BY BlockFacts
  <2>2. Provides(u) \in block.unavailable => x \notin block.invalid \cup block.included
    BY <1>1, <1>4, <1>14 DEF NextIsExecutable
  <2>3. CASE x = t /\ x \notin block.invalid \cup block.included
    <3>1. ~DependencyUnavailable(t) /\ block'.unavailable = block.unavailable
      BY <1>2, <1>14, <2>3
    <3> QED
      BY <1>14, <2>1, <2>3, <3>1 DEF DependencyUnavailable
  <2>4. CASE x \in block.invalid \cup block.included
    <3>1. Provides(u) = Provides(t)
      BY <1>2, <1>14, <2>2, <2>4
    <3>2. u = t
      BY <1>3, <3>1 DEF TxPoolInv, BlockOK
    <3>3. x \in block.yielded
      BY <1>1, <2>4 DEF NonceInv, BlockNoncesOK
    <3>4. t \in block.yielded
      BY <1>3, <2>1, <3>2, <3>3 DEF TxPoolInv, BlockOK
    <3> QED
      BY <3>4 DEF TxPoolInv, BlockOK
  <2> QED
    BY <1>2, <1>14, <2>3, <2>4
<1>15. block'.invalid \cup block'.included \subseteq block'.yielded
  BY <1>1, <1>2 DEF NonceInv, BlockNoncesOK
<1>11. NextIsExecutable'
  <2>1. \A u \in DOMAIN block.all : Provides(u) \in block'.unavailable =>
           block.all[u].unlocks \cap (block'.invalid \cup block'.included) = {}
    BY <1>14
  <2> QED
    BY <1>1, <1>10, <2>1 DEF NextIsExecutable, DependencyUnavailable
<1>12. Head_' = Head_ /\ \A s \in Senders : Head_[s] <= block'.nonces[s]
  BY <1>1, <1>3, <1>4, <1>5 DEF Head_
<1>13. BlockNoncesOK'
  BY <1>1, <1>7, <1>9, <1>11, <1>12, <1>15 DEF BlockNoncesOK
<1> QED
  BY <1>6, <1>13 DEF NonceInv

LEMMA CommitBlockNonces == ASSUME TxPoolInv, NonceInv, CommitBlock PROVE NonceInv'
<1>1. /\ block.state = "executing" /\ UNCHANGED <<pool, job, snapshots>>
      /\ heads' = Append(heads, block.nonces)
      /\ block'.state = "mined"
      /\ \A x \in BlockFields \ {"state"} : block'[x] = block[x]
  BY CommitFacts
<1>2. /\ block'.nonces = block.nonces /\ block'.included = block.included
      /\ block'.stale = block.stale /\ block'.invalid = block.invalid
      /\ block'.yielded = block.yielded
  BY <1>1 DEF BlockFields
<1>3. /\ job = NoJob /\ block.nonces \in [Senders -> Nonces]
      /\ \A s \in Senders : block.nonces[s] \in Nat /\ Head_[s] \in Nat
  BY <1>1, BlockNonceFacts, HeadFacts DEF TxPoolInv
<1>4. Head_' = block.nonces
  BY <1>1, <1>3, AppendProperties DEF TxPoolInv, IsHeads, Head_
<1>5. /\ \A s \in Senders : Head_[s] <= block.nonces[s]
      /\ \A t \in DOMAIN pool.waiting :
            t.sender \notin Authorities => t.nonce > block.nonces[t.sender]
      /\ \A t \in block.included \cup block.stale : t.nonce < block.nonces[t.sender]
      /\ block.invalid \cup block.included \subseteq block.yielded
  BY <1>1 DEF NonceInv, BlockNoncesOK
<1>6. \A t \in pool.independent : t.nonce <= Head_[t.sender] /\ t.sender \in Senders /\ t.nonce \in Nat
  BY WaitingTxs DEF NonceInv, NoncesOK, Fits
<1>7. Fits(pool, block.nonces)
  BY <1>3, <1>5, <1>6 DEF Fits
<1>8. NoncesOK'
  BY <1>1, <1>3, <1>4, <1>7, NoJobFacts DEF NonceInv, NoncesOK
<1>9. BlockNoncesOK'
  BY <1>1, <1>2, <1>3, <1>4, <1>5 DEF BlockNoncesOK, NextIsExecutable
<1> QED
  BY <1>8, <1>9 DEF NonceInv

LEMMA FailBlockNonces == ASSUME TxPoolInv, NonceInv, FailBlock PROVE NonceInv'
<1>1. block' = NoBlock /\ UNCHANGED <<pool, job, heads, snapshots>>
  BY DEF FailBlock
<1> QED
  BY <1>1, NoBlockFacts DEF NonceInv, NoncesOK, BlockNoncesOK, Head_

LEMMA OnMinedInvalidNonces == ASSUME TxPoolInv, NonceInv, OnMinedInvalid PROVE NonceInv'
<1>1. /\ block.state = "mined" /\ pool' = RemoveInvalid(pool, block.invalid)
      /\ block' = [block EXCEPT !.state = "pruning"]
      /\ UNCHANGED <<job, heads, snapshots>>
  BY DEF OnMinedInvalid
<1>2. /\ block'.state = "pruning" /\ block'.nonces = block.nonces
      /\ block'.included = block.included /\ block'.stale = block.stale
  <2>1. DOMAIN block = BlockFields
    BY FieldsOfJobs DEF TxPoolInv, BlockTyped
  <2> QED
    BY <1>1, <2>1 DEF BlockFields
<1>3. /\ DOMAIN pool'.waiting \subseteq DOMAIN pool.waiting
      /\ pool'.independent \subseteq pool.independent
  BY <1>1, RemoveInvalidInv DEF TxPoolInv
<1>4. NoncesOK'
  BY <1>1, <1>3 DEF NonceInv, NoncesOK, Fits, Head_
<1>5. BlockNoncesOK'
  <2>1. Head_' = Head_
    BY <1>1 DEF Head_
  <2> QED
    BY <1>1, <1>2, <1>3, <2>1 DEF NonceInv, BlockNoncesOK, NextIsExecutable
<1> QED
  BY <1>4, <1>5 DEF NonceInv

LEMMA OnMinedPruneNonces == ASSUME TxPoolInv, NonceInv, OnMinedPrune PROVE NonceInv'
<1>1. /\ block.state = "pruning" /\ block' = NoBlock
      /\ UNCHANGED <<pool, heads, snapshots>>
      /\ job'.queue = {} /\ job'.stack = {}
      /\ job'.markers = ProvidedBy(block.included \cup block.stale)
  BY OnMinedPruneFacts
<1>2. \A t \in block.included \cup block.stale : t.nonce < Head_[t.sender]
  BY <1>1 DEF NonceInv, BlockNoncesOK
<1>3. \A m \in job'.markers \cup job'.stack : m[2] < Head_[m[1]]
  BY <1>1, <1>2 DEF ProvidedBy, Provides
<1>4. Fits(pool', Head_)
  BY <1>1 DEF NonceInv, NoncesOK
<1> QED
  BY <1>1, <1>3, <1>4, NoBlockFacts, NoncesBetween

LEMMA PruneMarkerNonces == ASSUME TxPoolInv, NonceInv, PruneMarker PROVE NonceInv'
<1>1. job # NoJob /\ UNCHANGED <<pool, block, heads, snapshots>>
  BY PruneMarkerFacts
<1>2. PICK m \in job.markers :
        /\ IsFcn(job') /\ DOMAIN job' = JobFields
        /\ job'.queue = {} /\ job'.new = job.new /\ job'.stack = {m}
        /\ job'.markers = job.markers \ {m}
  BY PruneMarkerFacts
<1>3. \A n \in job'.markers \cup job'.stack : n[2] < Head_[n[1]]
  BY <1>2 DEF NonceInv, NoncesOK
<1>4. Fits(pool', Head_) /\ block'.state = "none"
  BY <1>1, BusyPool DEF NonceInv, NoncesOK
<1> QED
  BY <1>1, <1>2, <1>3, <1>4, NoncesBetween

LEMMA PruneTagNonces == ASSUME TxPoolInv, NonceInv, PruneTag PROVE NonceInv'
<1>1. /\ job # NoJob /\ UNCHANGED <<block, heads, snapshots>>
      /\ job'.queue = {} /\ job'.markers = job.markers
  BY PruneTagFacts
<1>2. PICK m \in job.stack :
        \/ /\ UNCHANGED pool /\ job'.stack = job.stack \ {m}
        \/ \E t \in DOMAIN pool.ready :
              /\ m = Provides(t) /\ pool' = PruneReady(pool, t)
              /\ job'.stack = (job.stack \ {m}) \cup ProvidedBy(Previous(pool, t))
  BY PruneTagFacts
<1>3. /\ Fits(pool, Head_) /\ block'.state = "none" /\ PoolInv(pool)
      /\ \A n \in job.markers \cup job.stack : n[2] < Head_[n[1]]
      /\ \A s \in Senders : Head_[s] \in Nat
  BY <1>1, BusyPool, HeadFacts DEF NonceInv, NoncesOK, TxPoolInv
<1>4. CASE UNCHANGED pool /\ job'.stack = job.stack \ {m}
  <2>1. /\ Fits(pool', Head_)
        /\ \A n \in job'.markers \cup job'.stack : n[2] < Head_[n[1]]
    BY <1>1, <1>3, <1>4
  <2> QED
    BY <1>1, <1>3, <2>1, NoncesBetween
<1>5. ASSUME NEW t \in DOMAIN pool.ready,
             /\ m = Provides(t) /\ pool' = PruneReady(pool, t)
             /\ job'.stack = (job.stack \ {m}) \cup ProvidedBy(Previous(pool, t))
      PROVE  NonceInv'
  <2>1. t \in Txs /\ t.sender \in Senders /\ t.nonce \in Nat /\ t.nonce < Head_[t.sender]
    BY <1>3, <1>5, WaitingTxs DEF Provides
  <2>2. SameWaiting(pool, pool') /\ pool'.independent \subseteq pool.independent \cup pool.ready[t].unlocks
    BY <1>3, <1>5, PruneReadyInv
  \* What t unlocks has the next nonce.
  <2>3. ASSUME NEW u \in pool.ready[t].unlocks PROVE u.nonce <= Head_[u.sender]
    <3>1. u \in DOMAIN pool.ready /\ Provides(t) \in pool.ready[u].requires
      BY <1>3, ReadyFacts
    <3>2. pool.ready[u].requires \subseteq Requirement(u) /\ u \in Txs
      BY <1>3, <3>1, ReadyFacts
    <3>3. t.sender = u.sender /\ t.nonce = u.nonce - 1 /\ u.nonce \in Nat
      BY <2>1, <3>1, <3>2, RequirementFacts, TxFacts
    <3> QED
      BY <1>3, <2>1, <3>3
  <2>4. Fits(pool', Head_)
    BY <1>3, <2>2, <2>3 DEF Fits, SameWaiting
  \* What t requires has the nonce before.
  <2>5. ASSUME NEW u \in Previous(pool, t) PROVE u.nonce < Head_[u.sender]
    <3>1. PICK n \in pool.ready[t].requires \cap DOMAIN pool.provided :
             u = pool.provided[n] /\ u \in DOMAIN pool.ready
      BY DEF Previous
    <3>2. PICK x \in DOMAIN pool.ready : n = Provides(x)
      BY <1>3, <3>1 DEF PoolInv, ReadyIndexed, ProvidedBy
    <3>3. u = x
      BY <1>3, <3>1, <3>2 DEF PoolInv, ReadyIndexed
    <3>4. Provides(u) \in Requirement(t) /\ u \in Txs
      BY <1>3, <3>1, <3>2, <3>3, ReadyFacts
    <3>5. u.sender = t.sender /\ u.nonce = t.nonce - 1
      BY <2>1, <3>4, RequirementFacts
    <3> QED
      BY <1>3, <2>1, <3>5
  <2>6. \A n \in job'.markers \cup job'.stack : n[2] < Head_[n[1]]
    BY <1>1, <1>3, <1>5, <2>5 DEF ProvidedBy, Provides
  <2> QED
    BY <1>1, <1>3, <2>4, <2>6, NoncesBetween
<1> QED
  BY <1>2, <1>4, <1>5

LEMMA TakeSnapshotNonces == ASSUME TxPoolInv, NonceInv, TakeSnapshot PROVE NonceInv'
<1> DEFINE s == [pool |-> pool, heads |-> heads, canonical |-> TRUE]
<1>1. /\ snapshots' = Append(snapshots, s) /\ UNCHANGED <<pool, job, block, heads>>
      /\ block.state = "none"
  BY DEF TakeSnapshot, MutexFree
<1>2. s.pool = pool /\ s.heads = heads
  OBVIOUS
<1> HIDE DEF s
<1>3. PICK S : S = {snapshots[i] : i \in DOMAIN snapshots} \cup {s}
  OBVIOUS
<1>4. snapshots \in Seq(S) /\ s \in S
  <2>1. snapshots \in Seq({snapshots[i] : i \in DOMAIN snapshots})
    BY DEF TxPoolInv, SnapshotsOK
  <2> QED
    BY <1>3, <2>1, SeqMonotonic
<1>5. /\ Len(snapshots') = Len(snapshots) + 1
      /\ \A i \in 1..Len(snapshots) : snapshots'[i] = snapshots[i]
      /\ snapshots'[Len(snapshots) + 1] = s
      /\ DOMAIN snapshots = 1..Len(snapshots) /\ Len(snapshots) \in Nat
      /\ DOMAIN snapshots' = 1..Len(snapshots')
  BY <1>1, <1>4, AppendProperties
<1>6. \A i \in DOMAIN snapshots' : i \in DOMAIN snapshots \/ i = Len(snapshots) + 1
  BY <1>5
<1>7. Fits(pool, LastOf(heads)) /\ \A i \in DOMAIN snapshots :
                                      Fits(snapshots[i].pool, LastOf(snapshots[i].heads))
  BY DEF NonceInv, NoncesOK, LastOf, Head_
<1>8. \A i \in DOMAIN snapshots' : Fits(snapshots'[i].pool, LastOf(snapshots'[i].heads))
  BY <1>2, <1>5, <1>6, <1>7
<1>9. NoncesOK'
  BY <1>1, <1>8 DEF NonceInv, NoncesOK, Head_
<1> QED
  BY <1>1, <1>9 DEF NonceInv, BlockNoncesOK

LEMMA RevertSnapshotNonces ==
    ASSUME TxPoolInv, NonceInv, NEW i, RevertSnapshot(i)
    PROVE  NonceInv'
<1>1. /\ job = NoJob /\ block = NoBlock /\ UNCHANGED <<job, block>>
      /\ i \in DOMAIN snapshots
      /\ pool' = snapshots[i].pool /\ heads' = snapshots[i].heads
      /\ DOMAIN snapshots' \subseteq DOMAIN snapshots
      /\ \A j \in DOMAIN snapshots' : snapshots'[j] = snapshots[j]
  BY RevertFacts
<1>2. \A j \in DOMAIN snapshots : Fits(snapshots[j].pool, LastOf(snapshots[j].heads))
  BY DEF NonceInv, NoncesOK
<1>3. Head_' = LastOf(snapshots[i].heads)
  BY <1>1 DEF Head_, LastOf
<1>4. Fits(pool', Head_')
  BY <1>1, <1>2, <1>3
<1>5. \A j \in DOMAIN snapshots' : Fits(snapshots'[j].pool, LastOf(snapshots'[j].heads))
  BY <1>1, <1>2
<1>6. job'.queue = {} /\ job'.markers \cup job'.stack = {} /\ block'.state = "none"
  BY <1>1, NoJobFacts, NoBlockFacts
<1> QED
  BY <1>4, <1>5, <1>6 DEF NonceInv, NoncesOK, BlockNoncesOK

LEMMA FreshNonces ==
    ASSUME pool = EmptyPool, job = NoJob, block = NoBlock, snapshots = <<>>
    PROVE  NonceInv
<1>1. DOMAIN snapshots = {}
  BY FreshChain
<1>2. job.queue = {} /\ job.markers \cup job.stack = {} /\ block.state = "none"
  BY NoJobFacts, NoBlockFacts
<1>3. Fits(pool, Head_)
  BY EmptyPoolInv DEF Fits
<1> QED
  BY <1>1, <1>2, <1>3 DEF NonceInv, NoncesOK, BlockNoncesOK

LEMMA ResetNonces == ASSUME TxPoolInv, Reset PROVE NonceInv'
<1>1. pool' = EmptyPool /\ job' = NoJob /\ block' = NoBlock /\ snapshots' = <<>>
  BY DEF Reset, MutexFree, Unlocked, TxPoolInv, BlockTyped
<1>2. DOMAIN snapshots' = {}
  BY <1>1, FreshChain
<1>3. job'.queue = {} /\ job'.markers \cup job'.stack = {} /\ block'.state = "none"
  BY <1>1, NoJobFacts, NoBlockFacts
<1>4. Fits(pool', Head_')
  BY <1>1, EmptyPoolInv DEF Fits
<1> QED
  BY <1>2, <1>3, <1>4 DEF NonceInv, NoncesOK, BlockNoncesOK

LEMMA NextNonces ==
    ASSUME ~AllowSetNonce, ~AllowRollback, TxPoolInv, NonceInv, [Next]_vars
    PROVE  NonceInv'
<1>1. PoolStep => NonceInv'
  BY SubmitTxNonces, RemovalNonces, AddStepNonces DEF PoolStep
<1>2. BlockStep => NonceInv'
  BY StartBlockNonces, ExecuteNextNonces, CommitBlockNonces, FailBlockNonces,
     OnMinedInvalidNonces, OnMinedPruneNonces, PruneMarkerNonces, PruneTagNonces DEF BlockStep
<1>3. ChainStep => NonceInv'
  <2>1. \A s, n : ~SetNonce(s, n)
    BY DEF SetNonce
  <2>2. \A height : ~Rollback(height)
    BY DEF Rollback
  <2> QED
    BY <2>1, <2>2, TakeSnapshotNonces, RevertSnapshotNonces, ResetNonces DEF ChainStep
<1>4. UNCHANGED vars => NonceInv'
  BY NoncesShrink DEF vars
<1> QED
  BY <1>1, <1>2, <1>3, <1>4 DEF Next

LEMMA NoncesHold ==
    ASSUME ~AllowSetNonce, ~AllowRollback
    PROVE  Spec => []NonceInv
<1>1. Init => NonceInv
  BY FreshNonces DEF Init
<1>2. TxPoolInv /\ NonceInv /\ [Next]_vars => NonceInv'
  BY NextNonces
<1> QED
  BY <1>1, <1>2, InvariantHolds, PTL DEF Spec

(* Where only blocks change nonces, no waiting transaction of an account   *)
(* that signs no authorization has a nonce that its account is at or       *)
(* beyond, in any history of submissions, replacements, drops, blocks      *)
(* (whatever other accounts' nonces they raise), failed blocks, snapshots, *)
(* reverts and resets: the waiting queue of PendingTransactions holds      *)
(* nothing of such an account that could be mined.                         *)
THEOREM WaitingNeedsOthers ==
    ASSUME ~AllowSetNonce, ~AllowRollback
    PROVE  Spec => []PendingNeedsOthers
<1>1. NonceInv => PendingNeedsOthers
  BY DEF NonceInv, NoncesOK, Fits, PendingNeedsOthers
<1> QED
  BY <1>1, NoncesHold, PTL

(* Under the same hypothesis, TransactionsIterator offers a block only     *)
(* transactions whose nonce the account has reached, unless what they      *)
(* depend on was left out or rejected by this very block; and what depends *)
(* on one that was left out is left out as well.                           *)
(* execute_pool_transactions throws none out of the pool for a gap that    *)
(* the pool, or the block itself, made.                                    *)
THEOREM BlockOffersExecutable ==
    ASSUME ~AllowSetNonce, ~AllowRollback
    PROVE  Spec => []NextIsExecutable
<1>1. NonceInv => NextIsExecutable
  BY DEF NonceInv, BlockNoncesOK, NextIsExecutable
<1> QED
  BY <1>1, NoncesHold, PTL

----------------------------------------------------------------------------
(* Why transactions leave the pool *)

\* The markers being pruned are of nonces that the chain has used.
SpentInv ==
    /\ \A m \in job.markers \cup job.stack : m[2] < Head_[m[1]]
    /\ block.state # "none" =>
          \A t \in block.included \cup block.stale : t.nonce < block.nonces[t.sender]
    /\ block.state \in {"mined", "pruning"} => block.nonces = Head_

\* Between blocks, with nothing to prune.
LEMMA NothingSpent ==
    ASSUME job'.markers = {}, job'.stack = {}, block'.state = "none"
    PROVE  SpentInv'
BY DEF SpentInv

LEMMA SpentKept ==
    ASSUME SpentInv, UNCHANGED <<job, block, heads>>
    PROVE  SpentInv'
BY DEF SpentInv, Head_

LEMMA ExecuteSpent == ASSUME TxPoolInv, SpentInv, ExecuteNext PROVE SpentInv'
<1>1. /\ block.state = "executing" /\ UNCHANGED <<pool, job, heads, snapshots>>
      /\ block'.state = block.state
  BY ExecuteFacts
<1>2. job = NoJob /\ \A s \in Senders : block.nonces[s] \in Nat
  BY <1>1, BlockNonceFacts
<1>3. \A t \in block.included \cup block.stale :
         t.nonce < block.nonces[t.sender] /\ t.nonce \in Nat /\ t.sender \in Senders
  BY <1>1, BlockFacts, TxFacts DEF SpentInv, TxPoolInv, BlockTyped
<1>4. PICK t \in block.best :
         \/ /\ block'.included = block.included /\ block'.stale = block.stale
            /\ block'.nonces = block.nonces
         \/ /\ t.nonce < block.nonces[t.sender]
            /\ block'.stale = block.stale \cup {t}
            /\ block'.included = block.included /\ block'.nonces = block.nonces
         \/ /\ t.nonce = block.nonces[t.sender]
            /\ block'.stale = block.stale /\ block'.included = block.included \cup {t}
            /\ block'.nonces \in NoncesAfter(t)
  BY ExecuteFacts
<1>5. t.sender \in Senders /\ t.nonce \in Nat /\ block.nonces \in [Senders -> Nonces]
  BY <1>1, BlockFacts, BlockNonceFacts, TxFacts DEF TxPoolInv, BlockTyped
<1>6. \A u \in block'.included \cup block'.stale : u.nonce < block'.nonces[u.sender]
  <2>1. t \in Txs
    BY BlockFacts DEF TxPoolInv, BlockTyped
  <2>2. /\ \A s \in Senders : block'.nonces[s] \in Nat /\ block.nonces[s] <= block'.nonces[s]
        /\ t \in block'.included \ block.included => t.nonce < block'.nonces[t.sender]
    BY <1>2, <1>4, <1>5, <2>1, NoncesAfterFacts
  <2> QED
    BY <1>2, <1>3, <1>4, <1>5, <2>2
<1> QED
  BY <1>1, <1>2, <1>6, NoJobFacts DEF SpentInv

LEMMA CommitSpent == ASSUME TxPoolInv, SpentInv, CommitBlock PROVE SpentInv'
<1>1. /\ block.state = "executing" /\ UNCHANGED <<pool, job, snapshots>>
      /\ heads' = Append(heads, block.nonces) /\ block'.state = "mined"
      /\ \A x \in BlockFields \ {"state"} : block'[x] = block[x]
  BY CommitFacts
<1>2. /\ block'.nonces = block.nonces /\ block'.included = block.included
      /\ block'.stale = block.stale
  BY <1>1 DEF BlockFields
<1>3. job = NoJob /\ block.nonces \in [Senders -> Nonces]
  BY <1>1, BlockNonceFacts
<1>4. Head_' = block.nonces
  BY <1>1, <1>3, AppendProperties DEF TxPoolInv, IsHeads, Head_
<1> QED
  BY <1>1, <1>2, <1>3, <1>4, NoJobFacts DEF SpentInv

LEMMA InvalidSpent == ASSUME TxPoolInv, SpentInv, OnMinedInvalid PROVE SpentInv'
<1>1. /\ block.state = "mined" /\ UNCHANGED <<job, heads>>
      /\ block' = [block EXCEPT !.state = "pruning"]
  BY DEF OnMinedInvalid
<1>2. DOMAIN block = BlockFields
  BY FieldsOfJobs DEF TxPoolInv, BlockTyped
<1>3. /\ block'.nonces = block.nonces /\ block'.included = block.included
      /\ block'.stale = block.stale
  BY <1>1, <1>2 DEF BlockFields
<1> QED
  BY <1>1, <1>3 DEF SpentInv, Head_

LEMMA PruneSpent ==
    ASSUME TxPoolInv, SpentInv, OnMinedPrune \/ PruneMarker \/ PruneTag
    PROVE  SpentInv'
<1>1. CASE OnMinedPrune
  <2>1. /\ block.state = "pruning" /\ block' = NoBlock /\ UNCHANGED heads
        /\ job'.stack = {} /\ job'.markers = ProvidedBy(block.included \cup block.stale)
    BY <1>1, OnMinedPruneFacts
  <2>2. \A t \in block.included \cup block.stale : t.nonce < Head_[t.sender]
    BY <2>1 DEF SpentInv
  <2>3. \A m \in job'.markers \cup job'.stack : m[2] < Head_[m[1]]
    BY <2>1, <2>2 DEF ProvidedBy, Provides
  <2> QED
    BY <2>1, <2>3, NoBlockFacts DEF SpentInv, Head_
<1>2. CASE PruneMarker
  <2>1. job # NoJob /\ UNCHANGED <<pool, block, heads, snapshots>>
    BY <1>2, PruneMarkerFacts
  <2>2. job'.markers \cup job'.stack \subseteq job.markers \cup job.stack
    BY <1>2, PruneMarkerFacts
  <2> QED
    BY <2>1, <2>2 DEF SpentInv, Head_
<1>3. CASE PruneTag
  <2>1. /\ job # NoJob /\ UNCHANGED <<block, heads, snapshots>>
        /\ job'.markers = job.markers
    BY <1>3, PruneTagFacts
  <2>2. PICK m \in job.stack :
          \/ job'.stack = job.stack \ {m}
          \/ \E t \in DOMAIN pool.ready :
                /\ m = Provides(t)
                /\ job'.stack = (job.stack \ {m}) \cup ProvidedBy(Previous(pool, t))
    BY <1>3, PruneTagFacts
  <2>3. \A n \in job.markers \cup job.stack : n[2] < Head_[n[1]]
    BY DEF SpentInv
  <2>4. ASSUME NEW t \in DOMAIN pool.ready, m = Provides(t), NEW u \in Previous(pool, t)
        PROVE  u.nonce < Head_[u.sender]
    <3>1. PoolInv(pool) /\ \A s \in Senders : Head_[s] \in Nat
      BY HeadFacts DEF TxPoolInv
    <3>2. PICK n \in pool.ready[t].requires \cap DOMAIN pool.provided :
             u = pool.provided[n] /\ u \in DOMAIN pool.ready
      BY DEF Previous
    <3>3. PICK x \in DOMAIN pool.ready : n = Provides(x)
      BY <3>1, <3>2 DEF PoolInv, ReadyIndexed, ProvidedBy
    <3>4. u = x
      BY <3>1, <3>2, <3>3 DEF PoolInv, ReadyIndexed
    <3>5. Provides(u) \in Requirement(t) /\ u \in Txs /\ t \in Txs
      BY <3>1, <3>2, <3>3, <3>4, ReadyFacts
    <3>6. u.sender = t.sender /\ u.nonce = t.nonce - 1
      BY <3>5, RequirementFacts
    <3>7. t.nonce < Head_[t.sender] /\ t.sender \in Senders /\ t.nonce \in Nat
      BY <2>3, <2>4, <3>5, TxFacts DEF Provides
    <3> QED
      BY <3>1, <3>6, <3>7
  <2>5. \A n \in job'.markers \cup job'.stack : n[2] < Head_[n[1]]
    BY <2>1, <2>2, <2>3, <2>4 DEF ProvidedBy, Provides
  <2> QED
    BY <2>1, <2>5 DEF SpentInv, Head_
<1> QED
  BY <1>1, <1>2, <1>3

LEMMA NextSpent ==
    ASSUME ~AllowSetNonce, TxPoolInv, SpentInv, [Next]_vars
    PROVE  SpentInv'
<1>1. PoolStep => SpentInv'
  <2>1. ASSUME NEW t \in Txs, SubmitTx(t) PROVE SpentInv'
    <3>1. block' = NoBlock /\ job = NoJob
      BY <2>1, SubmitFacts
    <3>2. job'.markers = {} /\ job'.stack = {}
      BY <2>1, <3>1, NoJobFacts DEF SubmitTx, NoJob
    <3> QED
      BY <3>1, <3>2, NothingSpent, NoBlockFacts
  <2>2. ASSUME NEW t \in Txs, DropTransaction(t) PROVE SpentInv'
    BY <2>2, SpentKept DEF DropTransaction
  <2>3. ASSUME NEW s \in Senders, RemoveTransactionsByAddress(s) PROVE SpentInv'
    BY <2>3, SpentKept DEF RemoveTransactionsByAddress
  <2>4. CASE Clear
    BY <2>4, SpentKept DEF Clear
  <2>5. CASE AddStep
    <3>1. job.markers = {} /\ job.stack = {} /\ job # NoJob /\ UNCHANGED block
      BY <2>5, AddStepFacts
    <3>2. DOMAIN job = JobFields
      BY FieldsOfJobs DEF TxPoolInv, JobOK
    <3>3. job'.markers = {} /\ job'.stack = {}
      BY <2>5, <3>1, <3>2 DEF AddStep, JobFields
    <3> QED
      BY <3>1, <3>3, BusyPool, NothingSpent
  <2> QED
    BY <2>1, <2>2, <2>3, <2>4, <2>5 DEF PoolStep
<1>2. BlockStep => SpentInv'
  <2>1. ASSUME NEW k, StartBlock(k) PROVE SpentInv'
    BY <2>1, StartBlockFacts, NoJobFacts DEF SpentInv
  <2>2. CASE FailBlock
    BY <2>2, NoBlockFacts DEF FailBlock, SpentInv, Head_
  <2> QED
    BY <2>1, <2>2, ExecuteSpent, CommitSpent, InvalidSpent, PruneSpent DEF BlockStep
<1>3. ChainStep => SpentInv'
  <2>1. \A s, n : ~SetNonce(s, n)
    BY DEF SetNonce
  <2>2. ASSUME NEW i, Rollback(i) \/ RevertSnapshot(i) PROVE SpentInv'
    BY <2>2, NothingSpent, NoJobFacts DEF Rollback, RevertSnapshot, MutexFree, Unlocked
  <2>3. CASE TakeSnapshot
    BY <2>3, SpentKept DEF TakeSnapshot
  <2>4. CASE Reset
    BY <2>4, NothingSpent, NoJobFacts DEF Reset, MutexFree, Unlocked
  <2> QED
    BY <2>1, <2>2, <2>3, <2>4 DEF ChainStep
<1>4. UNCHANGED vars => SpentInv'
  BY SpentKept DEF vars
<1> QED
  BY <1>1, <1>2, <1>3, <1>4 DEF Next

LEMMA SpentHolds ==
    ASSUME ~AllowSetNonce
    PROVE  Spec => []SpentInv
<1>1. Init => SpentInv
  BY NoJobFacts, NoBlockFacts DEF Init, SpentInv
<1>2. TxPoolInv /\ SpentInv /\ [Next]_vars => SpentInv'
  BY NextSpent
<1> QED
  BY <1>1, <1>2, InvariantHolds, PTL DEF Spec

\* What goes with a transaction is of its account and comes after it.
LEMMA NotAfterFacts ==
    ASSUME NEW u \in Txs, NEW t \in Txs, NEW x \in Txs
    PROVE  /\ NotAfter(u, u)
           /\ NotAfter(u, t) /\ Provides(t) \in Requirement(x) => NotAfter(u, x)
<1>1. u.nonce \in Nat /\ t.nonce \in Nat /\ x.nonce \in Nat
  BY TxFacts
<1>2. Provides(t) \in Requirement(x) => t.sender = x.sender /\ t.nonce = x.nonce - 1
  BY RequirementFacts
<1> QED
  BY <1>1, <1>2 DEF NotAfter

LEMMA ReadyDependentsAfter ==
    ASSUME NEW p, PoolInv(p), NEW S \in SUBSET Txs, NEW t \in ReadyDependents(p, S)
    PROVE  \E u \in S : NotAfter(u, t)
<1> DEFINE X == {x \in DOMAIN p.ready : \E u \in S : NotAfter(u, x)}
<1>1. ASSUME NEW x \in DOMAIN p.ready,
             x \in S \/ \E y \in X : x \in p.ready[y].unlocks
      PROVE  x \in X
  <2>1. x \in Txs
    BY ReadyFacts
  <2>2. CASE x \in S
    BY <2>1, <2>2, NotAfterFacts
  <2>3. CASE \E y \in X : x \in p.ready[y].unlocks
    <3>1. PICK y \in X : x \in p.ready[y].unlocks
      BY <2>3
    <3>2. PICK u \in S : NotAfter(u, y)
      BY <3>1
    <3>3. y \in Txs /\ Provides(y) \in Requirement(x)
      BY <3>1, ReadyFacts
    <3> QED
      BY <2>1, <3>2, <3>3, NotAfterFacts
  <2> QED
    BY <1>1, <2>2, <2>3
<1>2. X \in SUBSET DOMAIN p.ready
  OBVIOUS
<1>3. t \in X
  <2> HIDE DEF X
  <2> QED
    BY <1>1, <1>2 DEF ReadyDependents
<1> QED
  BY <1>3

LEMMA WaitingDependentsAfter ==
    ASSUME NEW p, PoolInv(p), NEW t \in Txs, NEW S,
           \A s \in S : s \in Txs /\ NotAfter(t, s),
           NEW w \in WaitingDependents(p, {t}, ProvidedBy(S))
    PROVE  NotAfter(t, w)
<1> DEFINE X == {x \in DOMAIN p.waiting : NotAfter(t, x)}
           M(Y) == ProvidedBy(S) \cup ProvidedBy(Y)
<1>1. ASSUME NEW x \in DOMAIN p.waiting,
             x \in {t} \/ p.waiting[x].requires \cap M(X) # {}
      PROVE  x \in X
  <2>1. x \in Txs /\ p.waiting[x].requires = Requirement(x)
    BY DEF PoolInv, WaitingNeeds
  <2>2. CASE x \in {t}
    BY <2>1, <2>2, NotAfterFacts
  <2>3. CASE p.waiting[x].requires \cap M(X) # {}
    <3>1. PICK m \in Requirement(x) : m \in M(X)
      BY <2>1, <2>3
    <3>2. PICK y \in S \cup X : m = Provides(y)
      BY <3>1 DEF ProvidedBy
    <3>3. y \in Txs /\ NotAfter(t, y)
      BY <3>2 DEF PoolInv
    <3> QED
      BY <2>1, <3>1, <3>2, <3>3, NotAfterFacts
  <2> QED
    BY <1>1, <2>2, <2>3
<1>2. X \in SUBSET DOMAIN p.waiting
  OBVIOUS
<1>3. w \in X
  <2> HIDE DEF X
  <2> QED
    BY <1>1, <1>2 DEF WaitingDependents
<1> QED
  BY <1>3

\* Who is left in the ready queue.
LEMMA RemoveReadyDomain ==
    ASSUME NEW p, PoolInv(p), NEW S
    PROVE  DOMAIN RemoveReady(p, S).ready = DOMAIN p.ready \ ReadyDependents(p, S)
<1> DEFINE gone == ReadyDependents(p, S)
           r == Unlink(p, gone)
<1>1. DOMAIN r = Fields /\ DOMAIN r.ready = DOMAIN p.ready \ gone
  BY DependentsClosed, UnlinkFacts
<1>2. RemoveReady(p, S) = [r EXCEPT !.provided = Without(@, ProvidedBy(gone))]
  BY DEF RemoveReady
<1> HIDE DEF gone, r
<1> QED
  BY <1>1, <1>2, ProvidedField DEF gone

LEMMA RemoveInvalidDomains ==
    ASSUME NEW p, PoolInv(p), NEW S \in SUBSET Txs,
           NEW t \in DOMAIN p.ready \cup DOMAIN p.waiting,
           t \notin DOMAIN RemoveInvalid(p, S).ready,
           t \notin DOMAIN RemoveInvalid(p, S).waiting
    PROVE  \E u \in S : NotAfter(u, t)
<1> DEFINE r == RemoveReady(p, S)
           q == RemoveWaiting(r, S)
<1>1. PoolInv(r) /\ SameWaiting(p, r) /\ DOMAIN r.ready = DOMAIN p.ready \ ReadyDependents(p, S)
  BY RemoveReadyInv, RemoveReadyDomain
<1> HIDE DEF r
<1>2. SameReady(r, q) /\ DOMAIN q.waiting = DOMAIN r.waiting \ S
  BY <1>1, RemoveWaitingInv
<1>3. RemoveInvalid(p, S) = q
  BY DEF RemoveInvalid, r
<1> HIDE DEF q
<1>4. t \in ReadyDependents(p, S) \/ t \in S
  BY <1>1, <1>2, <1>3 DEF SameWaiting, SameReady
<1> QED
  BY <1>4, ReadyDependentsAfter, NotAfterFacts

LEMMA AddReadyDomain ==
    ASSUME NEW p, PoolInv(p), NEW e
    PROVE  DOMAIN p.ready \ ReadyReplaced(p, e.tx) \subseteq DOMAIN AddReady(p, e).ready
<1> DEFINE old == ReadyReplaced(p, e.tx)
           u == Unlink(p, old)
           linked == {m \in e.requires : m \in DOMAIN u.provided}
           providers == {u.provided[m] : m \in linked}
           rest == [x \in DOMAIN u.ready |->
                      IF x \in providers THEN Unlocking(u.ready[x], {e.tx}) ELSE u.ready[x]]
           entry == [requires |-> e.requires,
                     unlocks |-> UNION {p.ready[x].unlocks : x \in old},
                     offset |-> Cardinality(e.requires \ linked)]
<1>1. old \subseteq DOMAIN p.ready
  BY DEF ReadyReplaced
<1>2. DOMAIN u = Fields /\ DOMAIN u.ready = DOMAIN p.ready \ old
  BY <1>1, UnlinkFacts
<1>3. AddReady(p, e).ready = Put(rest, e.tx, entry)
  BY <1>2 DEF AddReady, Fields
<1>4. DOMAIN rest = DOMAIN u.ready
  OBVIOUS
<1> HIDE DEF rest, entry
<1>5. DOMAIN Put(rest, e.tx, entry) = DOMAIN rest \cup {e.tx}
  BY DEF Put
<1> QED
  BY <1>2, <1>3, <1>4, <1>5

LEMMA PruneReadyDomain ==
    ASSUME NEW p, PoolInv(p), NEW t \in DOMAIN p.ready
    PROVE  DOMAIN PruneReady(p, t).ready = DOMAIN p.ready \ {t}
<1> DEFINE u == Unlink(p, {t})
<1>1. DOMAIN u = Fields /\ DOMAIN u.ready = DOMAIN p.ready \ {t}
  BY UnlinkFacts
<1> QED
  BY <1>1 DEF PruneReady, Fields

LEMMA AddWaitingDomain ==
    ASSUME NEW p, PoolInv(p), NEW t \in Txs, NEW R, NEW M
    PROVE  \/ AddWaiting(p, t, R, M) = p
           \/ /\ \A u \in WaitingReplaced(p, t) : ~(t.fee <= u.fee)
              /\ DOMAIN AddWaiting(p, t, R, M).waiting =
                    (DOMAIN p.waiting \ WaitingReplaced(p, t)) \cup {t}
<1>1. CASE \E u \in WaitingReplaced(p, t) : t.fee <= u.fee
  BY <1>1 DEF AddWaiting
<1>2. CASE ~\E u \in WaitingReplaced(p, t) : t.fee <= u.fee
  <2> DEFINE q == RemoveWaiting(p, WaitingReplaced(p, t))
  <2>1. DOMAIN q = Fields /\ DOMAIN q.waiting = DOMAIN p.waiting \ WaitingReplaced(p, t)
    BY RemoveWaitingInv, FieldsOfPool DEF PoolInv
  <2>2. AddWaiting(p, t, R, M).waiting = Put(q.waiting, t, [requires |-> R, missing |-> M])
    BY <1>2, <2>1 DEF AddWaiting, Fields
  <2> HIDE DEF q
  <2>3. PICK v : v = [requires |-> R, missing |-> M]
    OBVIOUS
  <2>4. DOMAIN Put(q.waiting, t, v) = DOMAIN q.waiting \cup {t}
    BY DEF Put
  <2> QED
    BY <1>2, <2>1, <2>2, <2>3, <2>4
<1> QED
  BY <1>1, <1>2

\* Steps that lose nobody.
LEMMA NobodyLeaves ==
    ASSUME UNCHANGED pool, \A e \in job.queue : e \in job'.queue
    PROVE  Held \ Held' = {}
BY DEF Held

LEMMA SubmitLeaves ==
    ASSUME TxPoolInv, NEW x \in Txs, SubmitTx(x), NEW t \in Held \ Held'
    PROVE  Reason(t)
<1>1. job.queue = {} /\ PoolInv(pool)
  BY SubmitFacts, NoJobFacts DEF TxPoolInv
<1>2. CASE UNCHANGED pool
  BY <1>1, <1>2, NobodyLeaves
<1>3. CASE pool' = AddWaiting(pool, x, Requirement(x), Requirement(x)) /\ pool' # pool
  <2>1. /\ Requirement(x) # {} /\ Requirement(x) \cap DOMAIN pool.provided = {}
        /\ x \notin DOMAIN pool.ready /\ x \notin DOMAIN pool.waiting
    BY <1>3, SubmitFacts
  <2>2. SameReady(pool, pool')
    BY <1>1, <1>3, <2>1, AddWaitingInv
  <2>3. /\ \A u \in WaitingReplaced(pool, x) : ~(x.fee <= u.fee)
        /\ DOMAIN pool'.waiting = (DOMAIN pool.waiting \ WaitingReplaced(pool, x)) \cup {x}
    BY <1>1, <1>3, AddWaitingDomain
  <2>4. t \in WaitingReplaced(pool, x) /\ x \in Held'
    BY <1>1, <2>2, <2>3 DEF Held, SameReady
  <2>5. Provides(t) = Provides(x) /\ t \in Txs
    BY <1>1, <2>4 DEF WaitingReplaced, PoolInv, WaitingIndexed, ProvidedBy
  <2>6. x.fee >= t.fee
    BY <2>3, <2>4, <2>5, TxFacts
  <2> QED
    BY <2>4, <2>5, <2>6 DEF Reason
<1> QED
  BY <1>2, <1>3, SubmitFacts

LEMMA AddLeaves ==
    ASSUME TxPoolInv, AddStep, NEW t \in Held \ Held'
    PROVE  Reason(t)
<1>1. PICK e \in job.queue :
         \/ /\ Underpriced(pool, e.tx) /\ UNCHANGED pool
            /\ job' = [job EXCEPT !.queue = IF job.new THEN {} ELSE job.queue \ {e},
                                  !.new = FALSE]
         \/ /\ ~Underpriced(pool, e.tx)
            /\ pool' = AddReady(MarkAndUnlock(pool, Provides(e.tx)), e)
            /\ job' = [job EXCEPT !.queue = (job.queue \ {e})
                                      \cup Entries(pool, Provides(e.tx)),
                                  !.new = FALSE]
  BY AddStepFacts
<1>2. /\ PoolInv(pool) /\ DOMAIN job = JobFields
      /\ job.new => job.queue = {e}
      /\ e \in [tx : Txs, requires : SUBSET Markers]
      /\ e.tx \notin DOMAIN pool.ready /\ e.tx \notin DOMAIN pool.waiting
      /\ e.requires \subseteq Requirement(e.tx)
  BY FieldsOfJobs DEF TxPoolInv, JobOK, QueueOK
<1>3. \A u \in ReadyReplaced(pool, e.tx) :
         u \in DOMAIN pool.ready /\ Provides(u) = Provides(e.tx) /\ u \in Txs
  BY <1>2, ReadyFacts DEF ReadyReplaced, PoolInv, ReadyIndexed, ProvidedBy
<1>4. CASE /\ Underpriced(pool, e.tx) /\ UNCHANGED pool
           /\ job' = [job EXCEPT !.queue = IF job.new THEN {} ELSE job.queue \ {e},
                                 !.new = FALSE]
  <2>1. job.queue \ {e} \subseteq job'.queue
    BY <1>2, <1>4 DEF JobFields
  <2>2. t = e.tx
    BY <1>4, <2>1 DEF Held
  <2>3. PICK u \in ReadyReplaced(pool, e.tx) : e.tx.fee <= u.fee
    BY <1>4 DEF Underpriced
  <2>4. u \in Held' /\ Provides(u) = Provides(t) /\ u.fee >= t.fee
    BY <1>2, <1>3, <1>4, <2>2, <2>3, TxFacts DEF Held
  <2> QED
    BY <2>4 DEF Reason
<1>5. CASE /\ ~Underpriced(pool, e.tx)
           /\ pool' = AddReady(MarkAndUnlock(pool, Provides(e.tx)), e)
           /\ job' = [job EXCEPT !.queue = (job.queue \ {e})
                                     \cup Entries(pool, Provides(e.tx)),
                                 !.new = FALSE]
  <2> DEFINE p == MarkAndUnlock(pool, Provides(e.tx))
  <2>1. /\ PoolInv(p) /\ SameReady(pool, p)
        /\ DOMAIN p.waiting = DOMAIN pool.waiting \ UnlockedBy(pool, Provides(e.tx))
        /\ DOMAIN p.required \subseteq DOMAIN pool.required \ {Provides(e.tx)}
    BY <1>2, MarkAndUnlockInv
  <2>2. pool' = AddReady(p, e)
    BY <1>5
  <2> HIDE DEF p
  <2>3. /\ e.tx \notin DOMAIN p.ready /\ e.tx \notin DOMAIN p.waiting
        /\ Provides(e.tx) \notin DOMAIN p.required
    BY <1>2, <2>1 DEF SameReady
  <2>4. SameWaiting(p, pool') /\ e.tx \in DOMAIN pool'.ready
    BY <1>2, <2>1, <2>2, <2>3, AddReadyInv
  <2>5. DOMAIN pool.ready \ ReadyReplaced(pool, e.tx) \subseteq DOMAIN pool'.ready
    BY <2>1, <2>2, AddReadyDomain DEF SameReady, ReadyReplaced
  <2>6. job'.queue = (job.queue \ {e}) \cup Entries(pool, Provides(e.tx))
    BY <1>2, <1>5 DEF JobFields
  <2>7. ASSUME NEW u \in UnlockedBy(pool, Provides(e.tx)) PROVE u \in Held'
    <3>1. Entry(pool, u) \in job'.queue
      BY <2>6 DEF Entries
    <3>2. Entry(pool, u).tx = u
      BY DEF Entry
    <3> QED
      BY <3>1, <3>2 DEF Held
  <2>8. e.tx \in Held' /\ \A f \in job.queue : f.tx \in Held'
    BY <2>4, <2>6 DEF Held
  <2>9. \A u \in DOMAIN pool.waiting : u \in Held'
    BY <2>1, <2>4, <2>7 DEF Held, SameWaiting
  <2>10. t \in ReadyReplaced(pool, e.tx)
    BY <2>5, <2>8, <2>9 DEF Held
  <2>11. ~(e.tx.fee <= t.fee)
    BY <1>5, <2>10 DEF Underpriced
  <2>12. Provides(e.tx) = Provides(t) /\ e.tx.fee >= t.fee
    BY <1>2, <1>3, <2>10, <2>11, TxFacts
  <2> QED
    BY <2>8, <2>12 DEF Reason
<1> QED
  BY <1>1, <1>4, <1>5

LEMMA DropLeaves ==
    ASSUME TxPoolInv, NEW x \in Txs, DropTransaction(x), NEW t \in Held \ Held'
    PROVE  Reason(t)
<1> DEFINE D == ReadyDependents(pool, {x})
           p == RemoveReady(pool, {x})
           S == WaitingDependents(p, {x}, ProvidedBy(D))
<1>1. pool' = RemoveWaiting(p, S) /\ job = NoJob
  BY DEF DropTransaction, Unlocked
<1>2. PoolInv(pool) /\ PoolInv(p) /\ SameWaiting(pool, p) /\ DOMAIN p.ready = DOMAIN pool.ready \ D
  BY RemoveReadyInv, RemoveReadyDomain DEF TxPoolInv
<1>3. \A s \in D : s \in Txs /\ NotAfter(x, s)
  BY <1>2, ReadyDependentsAfter, DependentsClosed, ReadyFacts
<1> HIDE DEF D, p
<1>4. \A s \in S : NotAfter(x, s)
  BY <1>2, <1>3, WaitingDependentsAfter
<1> HIDE DEF S
<1>5. SameReady(p, pool') /\ DOMAIN pool'.waiting = DOMAIN p.waiting \ S
  BY <1>1, <1>2, RemoveWaitingInv
<1>6. t \in D \cup S
  BY <1>1, <1>2, <1>5, NoJobFacts DEF Held, SameReady, SameWaiting
<1>7. NotAfter(x, t)
  BY <1>3, <1>4, <1>6
<1> QED
  BY <1>7 DEF Reason

LEMMA AddressLeaves ==
    ASSUME TxPoolInv, NEW s \in Senders, RemoveTransactionsByAddress(s),
           NEW t \in Held \ Held'
    PROVE  Reason(t)
<1> DEFINE S == {x \in Txs : InPool(x) /\ x.sender = s}
<1>1. pool' = RemoveInvalid(pool, S) /\ job = NoJob
  BY DEF RemoveTransactionsByAddress, Unlocked
<1>2. \A u \in S : u.sender = s
  OBVIOUS
<1>3. S \in SUBSET Txs
  OBVIOUS
<1> HIDE DEF S
<1>4. t \in DOMAIN pool.ready \cup DOMAIN pool.waiting
  BY <1>1, NoJobFacts DEF Held
<1>5. t \notin DOMAIN pool'.ready /\ t \notin DOMAIN pool'.waiting
  BY DEF Held
<1>6. PICK u \in S : NotAfter(u, t)
  BY <1>1, <1>3, <1>4, <1>5, RemoveInvalidDomains DEF TxPoolInv
<1>7. t.sender = s
  BY <1>2, <1>6 DEF NotAfter
<1> QED
  BY <1>7 DEF Reason

LEMMA InvalidLeaves ==
    ASSUME TxPoolInv, OnMinedInvalid, NEW t \in Held \ Held'
    PROVE  Reason(t)
<1>1. pool' = RemoveInvalid(pool, block.invalid) /\ job = NoJob
  BY DEF OnMinedInvalid, Unlocked
<1>2. block.invalid \in SUBSET Txs
  BY BlockFacts DEF TxPoolInv, BlockTyped
<1>3. t \in DOMAIN pool.ready \cup DOMAIN pool.waiting
  BY <1>1, NoJobFacts DEF Held
<1>4. t \notin DOMAIN pool'.ready /\ t \notin DOMAIN pool'.waiting
  BY DEF Held
<1>5. \E u \in block.invalid : NotAfter(u, t)
  BY <1>1, <1>2, <1>3, <1>4, RemoveInvalidDomains DEF TxPoolInv
<1> QED
  BY <1>5 DEF Reason

LEMMA PruneLeaves ==
    ASSUME TxPoolInv, SpentInv, PruneTag, NEW t \in Held \ Held'
    PROVE  Reason(t)
<1>1. job.queue = {} /\ PoolInv(pool)
  BY PruneTagFacts DEF TxPoolInv
<1>2. PICK m \in job.stack :
        \/ UNCHANGED pool
        \/ \E x \in DOMAIN pool.ready : m = Provides(x) /\ pool' = PruneReady(pool, x)
  BY PruneTagFacts
<1>3. ~UNCHANGED pool
  BY <1>1, NobodyLeaves
<1>4. PICK x \in DOMAIN pool.ready : m = Provides(x) /\ pool' = PruneReady(pool, x)
  BY <1>2, <1>3
<1>5. DOMAIN pool'.ready = DOMAIN pool.ready \ {x} /\ SameWaiting(pool, pool')
  BY <1>1, <1>4, PruneReadyDomain, PruneReadyInv
<1>6. t = x
  BY <1>1, <1>5 DEF Held, SameWaiting
<1>7. m[2] < Head_[m[1]]
  BY DEF SpentInv
<1>8. t.nonce < Head_[t.sender]
  BY <1>4, <1>6, <1>7 DEF Provides
<1> QED
  BY <1>8 DEF Reason

LEMMA StepLeaves ==
    ASSUME TxPoolInv, SpentInv, [Next]_vars, NEW t \in Held \ Held'
    PROVE  Reason(t)
<1>1. ~(UNCHANGED <<pool, job>>)
  BY NobodyLeaves
<1>2. ~PruneMarker
  <2> SUFFICES ASSUME PruneMarker PROVE FALSE
    OBVIOUS
  <2>1. UNCHANGED pool
    BY PruneMarkerFacts
  <2>2. job.queue = {}
    BY PruneMarkerFacts DEF TxPoolInv, JobOK
  <2> QED
    BY <2>1, <2>2, NobodyLeaves
<1>3. ~OnMinedPrune
  <2> SUFFICES ASSUME OnMinedPrune PROVE FALSE
    OBVIOUS
  <2>1. UNCHANGED pool /\ job = NoJob
    BY DEF OnMinedPrune, Unlocked
  <2> QED
    BY <2>1, NobodyLeaves, NoJobFacts
<1>4. PoolStep => Reason(t)
  <2>1. Clear => Reason(t)
    BY DEF Reason
  <2> QED
    BY <2>1, SubmitLeaves, DropLeaves, AddressLeaves, AddLeaves DEF PoolStep
<1>5. BlockStep => Reason(t)
  <2>1. \A k : ~StartBlock(k)
    BY <1>1 DEF StartBlock
  <2>2. ~ExecuteNext /\ ~CommitBlock /\ ~FailBlock
    BY <1>1 DEF ExecuteNext, CommitBlock, FailBlock
  <2> QED
    BY <1>2, <1>3, <2>1, <2>2, InvalidLeaves, PruneLeaves DEF BlockStep
<1>6. ChainStep => Reason(t)
  <2>1. ~TakeSnapshot /\ (\A s, n : ~SetNonce(s, n)) /\ \A height : ~Rollback(height)
    BY <1>1 DEF TakeSnapshot, SetNonce, Rollback
  <2>2. Reset \/ (\E i \in 1..MaxSnapshots : RevertSnapshot(i)) => Reason(t)
    BY DEF Reason
  <2> QED
    BY <2>1, <2>2 DEF ChainStep
<1>7. ~UNCHANGED vars
  BY <1>1 DEF vars
<1> QED
  BY <1>4, <1>5, <1>6, <1>7 DEF Next

(* With accounts whose nonces nobody sets, a transaction leaves the pool   *)
(* only for one that pays as much for the same nonce, because the chain    *)
(* has used its nonce, with an invalid or dropped one of its account that  *)
(* comes no later, or when the account or the whole pool is emptied or     *)
(* restored: add_ready_transaction, which takes the waiting transactions   *)
(* out before it knows whether it will keep what unlocks them,             *)
(* on_mined_block and the removals lose nobody else.                       *)
THEOREM NobodyIsLost ==
    ASSUME ~AllowSetNonce
    PROVE  Spec => LeavesForAReason
<1>1. TxPoolInv /\ SpentInv /\ [Next]_vars => [\A t \in Held \ Held' : Reason(t)]_vars
  BY StepLeaves
<1> QED
  BY <1>1, InvariantHolds, SpentHolds, PTL DEF Spec, LeavesForAReason

=============================================================================
