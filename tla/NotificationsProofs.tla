------------------------- MODULE NotificationsProofs -------------------------
(***************************************************************************)
(* Proofs about Notifications: however far a listener lags behind a chain  *)
(* that is extended, rewound and extended again with the same blocks, what *)
(* it has read and has yet to read add up to the logs of the chain; the    *)
(* entries of a fee history are of blocks the request could see, and of    *)
(* one chain; and a filter in use outlives the eviction.                   *)
(***************************************************************************)
EXTENDS Notifications, FiniteSetTheorems, SequenceTheorems, WellFoundedInduction, TLAPS

USE DEF storage

----------------------------------------------------------------------------
(* The inductive invariant: what a listener has been and will be told *)

Hashes == Seq({"log", "none"})

Notes == {n \in [kind : {"block", "removed"}, hash : Hashes, logs : SUBSET Hashes] :
            n.kind = "block" => n.hash # <<>>}

\* The logs of the chain c.
Logs(c) == {h \in {SubSeq(c, 1, i) : i \in 1..Len(c)} : HasLog(h)}

Removes(n, h) == n.kind = "removed" /\ h \in n.logs
Brings(n, h) == n.kind = "block" /\ n.hash = h

\* A listener's queue q and, behind it, what the miner m has yet to announce.
Pending(q, m) == IF m.kind \in {"block", "removed"} THEN Append(q, m) ELSE q

\* Of the notes in q, a later one than the i-th removes h.
RemovedAfter(q, i, h) == \E j \in i + 1..Len(q) : Removes(q[j], h)

(* A client has the logs v, was told of the blocks a and will read the notes *)
(* q, on the chain c with the transactions of the blocks s: each log of s    *)
(* that it was or will be told of it either has, and will not lose, or will  *)
(* be given, and will not lose; a log it has is of c, or is one of those g   *)
(* that went unannounced, or will be removed.                                *)
Tracks(q, v, a, c, s, g) ==
    /\ \A h \in Logs(c) :
          Len(h) \in s /\ (h \in a \/ (\E i \in 1..Len(q) : Brings(q[i], h)))
          => \/ h \in v /\ ~RemovedAfter(q, 0, h)
             \/ \E i \in 1..Len(q) : Brings(q[i], h) /\ ~RemovedAfter(q, i, h)
    /\ \A h \in v : h \in a /\ (h \in Logs(c) \/ h \in g \/ RemovedAfter(q, 0, h))

\* The blocks of the queue were announced.
QueueTold(q, a) == \A i \in 1..Len(q) : q[i].kind = "block" => q[i].hash \in a

ListenerFields == {"phase", "open", "queue", "announced", "fresh", "view"}
FilterFields == ListenerFields \cup {"historic", "answer", "deadline", "polled", "complete"}

Silent(l) == ~l.open /\ l.queue = <<>> /\ l.announced = {} /\ l.view = {}

ListenerOK(l) ==
    /\ l.open \in BOOLEAN /\ l.fresh \in BOOLEAN
    /\ l.queue \in Seq(Notes) /\ QueueTold(l.queue, l.announced)

SubOK ==
    /\ DOMAIN sub = ListenerFields /\ ListenerOK(sub)
    /\ sub.phase \in {"none", "active", "absent"}
    /\ sub.phase # "active" => Silent(sub)
    /\ sub.open /\ sub.fresh => Tracks(Pending(sub.queue, miner), sub.view, sub.announced, chain, stored, lost)

\* What the client of the filter has, or will have when its poll returns.
FilterView == IF filter.phase = "polling" THEN filter.answer ELSE filter.view

FilterOK ==
    /\ DOMAIN filter = FilterFields /\ ListenerOK(filter)
    /\ filter.complete \in BOOLEAN
    /\ filter.phase \in {"none", "reading", "active", "polling", "evicted", "uninstalled",
                         "absent"}
    /\ filter.phase \in {"none", "reading", "absent"} => Silent(filter)
    /\ filter.open <=> filter.phase \in {"active", "polling"}
    /\ filter.open => filter.polled \in Nat /\ filter.deadline = filter.polled + Keepalive
    /\ ~filter.complete => Once(filter.historic) = {}
    /\ filter.open /\ filter.fresh /\ ~filter.complete =>
          Tracks(Pending(filter.queue, miner), FilterView, filter.announced, chain, stored, lost)

----------------------------------------------------------------------------
(* The inductive invariant: the chain and the fee history *)

FeesOK ==
    /\ DOMAIN fees = {"open", "queue", "announced", "item"}
    /\ fees.open \in BOOLEAN /\ fees.queue \in Seq(Notes) /\ fees.item \in Hashes

\* A cache of the fee history is indexed by the numbers of its blocks.
CacheOK(c) ==
    /\ DOMAIN c \subseteq Nat /\ IsFiniteSet(DOMAIN c)
    /\ \A n \in DOMAIN c : c[n] \in Hashes /\ Len(c[n]) = n

QueryFields == {"phase", "low", "high", "cached", "items", "warmed", "hash", "during",
                "reverted"}

\* The entries of a request q are of blocks it could see, and lie on the
\* chain c it is at as long as nothing was reverted.
QueryFits(q, c) ==
    /\ DOMAIN q = QueryFields
    /\ q.phase \in {"idle", "resolving", "resolved", "answered"}
    /\ q.reverted \in BOOLEAN
    /\ q.phase = "idle" => q = NoQuery
    /\ q.phase # "idle" =>
          /\ q.high \in Nat /\ q.low \in 1..q.high
          /\ q.items \in Seq(Hashes) /\ q.hash \in Hashes
          /\ q.warmed \subseteq Hashes /\ IsFiniteSet(q.warmed)
          /\ \A n \in 1..Len(c) : SubSeq(c, 1, n) \in q.during
          /\ \A i \in 1..Len(q.items) : q.items[i] \in q.during
          /\ q.low + Len(q.items) <= q.high + 1
    /\ q.phase \in {"resolving", "resolved"} /\ q.hash # <<>> => q.low + Len(q.items) <= q.high
    /\ q.phase \in {"resolving", "resolved"} /\ ~q.reverted =>
          /\ q.high <= Len(c)
          /\ \A i \in 1..Len(q.items) : q.items[i] = SubSeq(c, 1, q.low + i - 1)
          /\ q.hash # <<>> => q.hash = SubSeq(c, 1, q.low + Len(q.items))
    /\ q.phase = "answered" /\ ~q.reverted =>
          \A i \in 1..Len(q.items) : q.items[i] = SubSeq(q.hash, 1, q.low + i - 1)

QueryOK == QueryFits(query, chain)

ChainOK ==
    /\ chain \in Hashes /\ Len(chain) <= MaxChain
    /\ stored \subseteq 1..Len(chain)
    /\ Keeper >= MaxChain => stored = 1..Len(chain) /\ lost = {}
    /\ miner \in Notes \cup {Nothing, Clearing}
    /\ now \in Nat /\ evictor \in -1..now

NotificationsInv == ChainOK /\ SubOK /\ FilterOK /\ FeesOK /\ CacheOK(cache)
                      /\ Cardinality(DOMAIN cache) <= FeeLimit /\ QueryOK

----------------------------------------------------------------------------
(* Prefixes of chains *)

LEMMA PrefixFacts ==
    ASSUME NEW c \in Hashes, NEW n \in 0..Len(c)
    PROVE  /\ SubSeq(c, 1, n) \in Hashes /\ Len(SubSeq(c, 1, n)) = n
           /\ \A i \in 1..n : SubSeq(c, 1, n)[i] = c[i]
<1>1. \A i \in 1..n : c[i] \in {"log", "none"}
  BY DEF Hashes
<1>2. n \in Nat /\ 1 \in Int /\ n \in Int
  BY DEF Hashes
<1>3. /\ SubSeq(c, 1, n) \in Seq({"log", "none"})
      /\ Len(SubSeq(c, 1, n)) = (IF 1 <= n THEN n - 1 + 1 ELSE 0)
      /\ \A i \in 1..(n - 1 + 1) : SubSeq(c, 1, n)[i] = c[1 + i - 1]
  BY <1>1, <1>2, SubSeqProperties
<1> QED
  BY <1>2, <1>3 DEF Hashes

\* Chains that agree up to a height have the same block there.
LEMMA SamePrefix ==
    ASSUME NEW c \in Hashes, NEW d \in Hashes, NEW k \in Nat, k <= Len(c), k <= Len(d),
           \A i \in 1..k : c[i] = d[i]
    PROVE  SubSeq(c, 1, k) = SubSeq(d, 1, k)
<1>1. k \in 0..Len(c) /\ k \in 0..Len(d)
  BY DEF Hashes
<1>2. /\ SubSeq(c, 1, k) \in Hashes /\ Len(SubSeq(c, 1, k)) = k
      /\ SubSeq(d, 1, k) \in Hashes /\ Len(SubSeq(d, 1, k)) = k
      /\ \A i \in 1..k : SubSeq(c, 1, k)[i] = SubSeq(d, 1, k)[i]
  BY <1>1, PrefixFacts
<1> QED
  BY <1>2, SeqEqual DEF Hashes

LEMMA PrefixOfPrefix ==
    ASSUME NEW c \in Hashes, NEW n \in 0..Len(c), NEW k \in 0..n
    PROVE  SubSeq(SubSeq(c, 1, n), 1, k) = SubSeq(c, 1, k)
<1>1. /\ SubSeq(c, 1, n) \in Hashes /\ Len(SubSeq(c, 1, n)) = n
      /\ \A i \in 1..n : SubSeq(c, 1, n)[i] = c[i]
  BY PrefixFacts
<1>2. k \in Nat /\ k <= Len(c) /\ k <= Len(SubSeq(c, 1, n)) /\ n \in Nat
  BY <1>1 DEF Hashes
<1>3. \A i \in 1..k : SubSeq(c, 1, n)[i] = c[i]
  BY <1>1, <1>2
<1> HIDE DEF Hashes
<1>4. PICK d \in Hashes : d = SubSeq(c, 1, n)
  BY <1>1
<1> QED
  BY <1>2, <1>3, <1>4, SamePrefix

LEMMA WholePrefix ==
    ASSUME NEW c \in Hashes
    PROVE  SubSeq(c, 1, Len(c)) = c
<1>1. Len(c) \in 0..Len(c)
  BY DEF Hashes
<1> QED
  BY <1>1, PrefixFacts, SeqEqual DEF Hashes

LEMMA PrefixOfLonger ==
    ASSUME NEW c \in Hashes, NEW x \in {"log", "none"}
    PROVE  /\ Append(c, x) \in Hashes /\ Len(Append(c, x)) = Len(c) + 1
           /\ \A k \in 0..Len(c) : SubSeq(Append(c, x), 1, k) = SubSeq(c, 1, k)
           /\ SubSeq(Append(c, x), 1, Len(c) + 1) = Append(c, x)
<1>1. /\ Append(c, x) \in Hashes /\ Len(Append(c, x)) = Len(c) + 1
      /\ \A i \in 1..Len(c) : Append(c, x)[i] = c[i]
      /\ Len(c) \in Nat
  BY AppendProperties DEF Hashes
<1>2. PICK d \in Hashes : d = Append(c, x)
  BY <1>1
<1>3. ASSUME NEW k \in 0..Len(c) PROVE SubSeq(d, 1, k) = SubSeq(c, 1, k)
  <2>1. k \in Nat /\ k <= Len(c) /\ k <= Len(d) /\ \A i \in 1..k : d[i] = c[i]
    BY <1>1, <1>2
  <2> QED
    BY <2>1, SamePrefix
<1>4. SubSeq(d, 1, Len(d)) = d
  BY WholePrefix
<1> QED
  BY <1>1, <1>2, <1>3, <1>4

LEMMA LogFacts ==
    ASSUME NEW c \in Hashes
    PROVE  /\ \A h : h \in Logs(c) <=>
                \E i \in 1..Len(c) : h = SubSeq(c, 1, i) /\ HasLog(h)
           /\ \A h \in Logs(c) : h \in Hashes /\ Len(h) \in 1..Len(c) /\ h = SubSeq(c, 1, Len(h))
<1>1. \A h : h \in Logs(c) <=> \E i \in 1..Len(c) : h = SubSeq(c, 1, i) /\ HasLog(h)
  BY DEF Logs
<1>2. ASSUME NEW h \in Logs(c)
      PROVE  h \in Hashes /\ Len(h) \in 1..Len(c) /\ h = SubSeq(c, 1, Len(h))
  <2>1. PICK i \in 1..Len(c) : h = SubSeq(c, 1, i)
    BY <1>1
  <2>2. i \in 0..Len(c)
    BY DEF Hashes
  <2> QED
    BY <2>1, <2>2, PrefixFacts
<1> QED
  BY <1>1, <1>2

\* The logs of a longer chain and of a shorter one.
LEMMA LogsOfLonger ==
    ASSUME NEW c \in Hashes, NEW x \in {"log", "none"}
    PROVE  \A h : h \in Logs(Append(c, x)) <=>
              h \in Logs(c) \/ (h = Append(c, x) /\ HasLog(h))
<1>1. PICK d \in Hashes : d = Append(c, x) /\ Len(d) = Len(c) + 1
  BY PrefixOfLonger
<1>2. /\ \A k \in 0..Len(c) : SubSeq(d, 1, k) = SubSeq(c, 1, k)
      /\ SubSeq(d, 1, Len(c) + 1) = d /\ Len(c) \in Nat
  BY <1>1, PrefixOfLonger DEF Hashes
<1>3. ASSUME NEW h PROVE h \in Logs(d) <=> h \in Logs(c) \/ (h = d /\ HasLog(h))
  <2>1. \A i \in 1..Len(d) : i \in 1..Len(c) \/ i = Len(c) + 1
    BY <1>1, <1>2
  <2>2. \A i \in 1..Len(c) : i \in 0..Len(c) /\ i \in 1..Len(d)
    BY <1>1, <1>2
  <2>3. Len(c) + 1 \in 1..Len(d)
    BY <1>1, <1>2
  <2> QED
    BY <1>2, <2>1, <2>2, <2>3, LogFacts
<1> QED
  BY <1>1, <1>3

LEMMA LogsOfShorter ==
    ASSUME NEW c \in Hashes, NEW n \in 0..Len(c)
    PROVE  /\ \A h \in Logs(SubSeq(c, 1, n)) : h \in Logs(c) /\ Len(h) <= n
           /\ \A h \in Logs(c) : Len(h) <= n => h \in Logs(SubSeq(c, 1, n))
<1>1. PICK d \in Hashes : d = SubSeq(c, 1, n) /\ Len(d) = n
  BY PrefixFacts
<1>2. /\ \A k \in 0..n : SubSeq(d, 1, k) = SubSeq(c, 1, k)
      /\ Len(c) \in Nat /\ n \in Nat
  BY <1>1, PrefixOfPrefix DEF Hashes
<1>3. ASSUME NEW h \in Logs(d) PROVE h \in Logs(c) /\ Len(h) <= n
  <2>1. h = SubSeq(d, 1, Len(h)) /\ Len(h) \in 1..n /\ HasLog(h)
    BY <1>1, LogFacts
  <2>2. h = SubSeq(c, 1, Len(h)) /\ Len(h) \in 1..Len(c)
    BY <1>2, <2>1
  <2> QED
    BY <2>1, <2>2, LogFacts
<1>4. ASSUME NEW h \in Logs(c), Len(h) <= n PROVE h \in Logs(d)
  <2>1. h = SubSeq(c, 1, Len(h)) /\ Len(h) \in 1..Len(c) /\ HasLog(h)
    BY LogFacts
  <2>2. Len(h) \in 1..n
    BY <1>2, <1>4, <2>1
  <2>3. h = SubSeq(d, 1, Len(h)) /\ Len(h) \in 1..Len(d)
    BY <1>1, <1>2, <2>1, <2>2
  <2> QED
    BY <2>1, <2>3, LogFacts
<1> QED
  BY <1>1, <1>3, <1>4

----------------------------------------------------------------------------
(* How Tracks is kept *)

LEMMA NoteFacts ==
    ASSUME NEW n \in Notes
    PROVE  /\ n.kind \in {"block", "removed"} /\ n.hash \in Hashes /\ n.logs \subseteq Hashes
           /\ n.kind = "block" => n.hash # <<>>
BY DEF Notes

LEMMA LongerQueue ==
    ASSUME NEW q \in Seq(Notes), NEW n \in Notes
    PROVE  /\ Append(q, n) \in Seq(Notes) /\ Len(Append(q, n)) = Len(q) + 1 /\ Len(q) \in Nat
           /\ \A i \in 1..Len(q) : Append(q, n)[i] = q[i]
           /\ Append(q, n)[Len(q) + 1] = n
           /\ \A i \in 1..Len(q) + 1 : i \in 1..Len(q) \/ i = Len(q) + 1
           /\ \A i \in Nat : \A h :
                 i <= Len(q) => (RemovedAfter(Append(q, n), i, h) <=>
                                    RemovedAfter(q, i, h) \/ Removes(n, h))
           /\ \A h : ~RemovedAfter(Append(q, n), Len(q) + 1, h)
<1>1. /\ Append(q, n) \in Seq(Notes) /\ Len(Append(q, n)) = Len(q) + 1 /\ Len(q) \in Nat
      /\ \A i \in 1..Len(q) : Append(q, n)[i] = q[i]
      /\ Append(q, n)[Len(q) + 1] = n
  BY AppendProperties
<1>2. PICK r : r = Append(q, n)
  OBVIOUS
<1>3. ASSUME NEW i \in Nat, NEW h, i <= Len(q)
      PROVE  RemovedAfter(r, i, h) <=> RemovedAfter(q, i, h) \/ Removes(n, h)
  <2>1. \A j \in i + 1..Len(r) : j \in i + 1..Len(q) \/ j = Len(q) + 1
    BY <1>1, <1>2
  <2>2. \A j \in i + 1..Len(q) : j \in i + 1..Len(r) /\ j \in 1..Len(q)
    BY <1>1, <1>2
  <2>3. Len(q) + 1 \in i + 1..Len(r)
    BY <1>1, <1>2, <1>3
  <2> QED
    BY <1>1, <1>2, <2>1, <2>2, <2>3 DEF RemovedAfter
<1>4. ASSUME NEW h PROVE ~RemovedAfter(r, Len(q) + 1, h)
  BY <1>1, <1>2 DEF RemovedAfter
<1>5. \A i \in 1..Len(q) + 1 : i \in 1..Len(q) \/ i = Len(q) + 1
  BY <1>1
<1> QED
  BY <1>1, <1>2, <1>3, <1>4, <1>5

\* A block is mined: it is announced last.
LEMMA TracksMine ==
    ASSUME NEW q \in Seq(Notes), NEW v, NEW a, NEW c \in Hashes, NEW x \in {"log", "none"},
           NEW s, NEW g, NEW t, t \subseteq s \cup {Len(c) + 1},
           Tracks(q, v, a, c, s, g), NEW n \in Notes, n.kind = "block", n.hash = Append(c, x)
    PROVE  Tracks(Append(q, n), v, a, Append(c, x), t, g)
<1>1. PICK d \in Hashes : d = Append(c, x)
  BY PrefixOfLonger
<1>2. \A h : h \in Logs(d) <=> h \in Logs(c) \/ (h = d /\ HasLog(h))
  BY <1>1, LogsOfLonger
<1>3. PICK r \in Seq(Notes) : r = Append(q, n)
  BY LongerQueue
<1>4. /\ Len(r) = Len(q) + 1 /\ Len(q) \in Nat
      /\ \A i \in 1..Len(q) : r[i] = q[i] /\ i \in 1..Len(r)
      /\ r[Len(q) + 1] = n /\ Len(q) + 1 \in 1..Len(r)
      /\ \A i \in 1..Len(r) : i \in 1..Len(q) \/ i = Len(q) + 1
      /\ \A h : ~Removes(n, h)
      /\ \A i \in Nat : \A h : i <= Len(q) => (RemovedAfter(r, i, h) <=> RemovedAfter(q, i, h))
      /\ \A h : ~RemovedAfter(r, Len(q) + 1, h)
  BY <1>3, LongerQueue DEF Removes
<1>5. ASSUME NEW h \in Logs(d), Len(h) \in t, h \in a \/ \E i \in 1..Len(r) : Brings(r[i], h)
      PROVE  \/ h \in v /\ ~RemovedAfter(r, 0, h)
             \/ \E i \in 1..Len(r) : Brings(r[i], h) /\ ~RemovedAfter(r, i, h)
  <2>1. CASE h = d
    <3>1. Brings(r[Len(q) + 1], h)
      BY <1>1, <1>4, <2>1 DEF Brings
    <3> QED
      BY <1>4, <3>1
  <2>2. CASE h # d
    <3>1. h \in Logs(c) /\ Len(h) \in s
      <4>1. h \in Logs(c)
        BY <1>2, <2>2
      <4>2. Len(h) # Len(c) + 1
        BY <4>1, LogFacts DEF Hashes
      <4> QED
        BY <1>5, <4>1, <4>2
    <3>2. h \in a \/ \E i \in 1..Len(q) : Brings(q[i], h)
      BY <1>1, <1>4, <1>5, <2>2 DEF Brings
    <3>3. \/ h \in v /\ ~RemovedAfter(q, 0, h)
          \/ \E i \in 1..Len(q) : Brings(q[i], h) /\ ~RemovedAfter(q, i, h)
      BY <3>1, <3>2 DEF Tracks
    <3>4. CASE h \in v /\ ~RemovedAfter(q, 0, h)
      BY <1>4, <3>4
    <3>5. ASSUME NEW i \in 1..Len(q), Brings(q[i], h) /\ ~RemovedAfter(q, i, h)
          PROVE  i \in 1..Len(r) /\ Brings(r[i], h) /\ ~RemovedAfter(r, i, h)
      BY <1>4, <3>5
    <3> QED
      BY <3>3, <3>4, <3>5
  <2> QED
    BY <2>1, <2>2
<1>6. ASSUME NEW h \in v PROVE h \in a /\ (h \in Logs(d) \/ h \in g \/ RemovedAfter(r, 0, h))
  BY <1>2, <1>4 DEF Tracks
<1>7. Tracks(r, v, a, d, t, g)
  BY <1>5, <1>6 DEF Tracks
<1> QED
  BY <1>1, <1>3, <1>7

\* Blocks go and their logs are removed.
LEMMA TracksRewind ==
    ASSUME NEW q \in Seq(Notes), NEW v, NEW a, NEW c \in Hashes, NEW k \in 0..Len(c),
           NEW s, NEW g, Tracks(q, v, a, c, s, g), NEW n \in Notes, n.kind = "removed",
           n.logs = {h \in Logs(c) : Len(h) > k /\ Len(h) \in s},
           NEW t, t \subseteq s, NEW f, g \subseteq f,
           {h \in Logs(c) : Len(h) > k /\ Len(h) \notin s} \subseteq f
    PROVE  Tracks(Append(q, n), v, a, SubSeq(c, 1, k), t, f)
<1>1. PICK d \in Hashes : d = SubSeq(c, 1, k)
  BY PrefixFacts
<1>2. /\ \A h \in Logs(d) : h \in Logs(c) /\ ~Removes(n, h)
      /\ \A h \in Logs(c) : h \in Logs(d) \/ h \in f \/ Removes(n, h)
  <2>1. /\ \A h \in Logs(d) : h \in Logs(c) /\ Len(h) <= k
        /\ \A h \in Logs(c) : Len(h) <= k => h \in Logs(d)
    BY <1>1, LogsOfShorter
  <2>2. \A h \in Logs(c) : Len(h) \in Nat
    BY LogFacts
  <2>3. k \in Nat
    BY DEF Hashes
  <2> QED
    BY <2>1, <2>2, <2>3 DEF Removes
<1>3. PICK r \in Seq(Notes) : r = Append(q, n)
  BY LongerQueue
<1>4. /\ Len(r) = Len(q) + 1 /\ Len(q) \in Nat
      /\ \A i \in 1..Len(q) : r[i] = q[i] /\ i \in 1..Len(r)
      /\ r[Len(q) + 1] = n
      /\ \A i \in 1..Len(r) : i \in 1..Len(q) \/ i = Len(q) + 1
      /\ \A h : ~Brings(n, h)
      /\ \A i \in Nat : \A h : i <= Len(q) =>
            (RemovedAfter(r, i, h) <=> RemovedAfter(q, i, h) \/ Removes(n, h))
  BY <1>3, LongerQueue DEF Brings
<1>5. ASSUME NEW h \in Logs(d), Len(h) \in t, h \in a \/ \E i \in 1..Len(r) : Brings(r[i], h)
      PROVE  \/ h \in v /\ ~RemovedAfter(r, 0, h)
             \/ \E i \in 1..Len(r) : Brings(r[i], h) /\ ~RemovedAfter(r, i, h)
  <2>1. h \in Logs(c) /\ ~Removes(n, h)
    BY <1>2
  <2>2. h \in a \/ \E i \in 1..Len(q) : Brings(q[i], h)
    BY <1>4, <1>5
  <2>3. \/ h \in v /\ ~RemovedAfter(q, 0, h)
        \/ \E i \in 1..Len(q) : Brings(q[i], h) /\ ~RemovedAfter(q, i, h)
    BY <1>5, <2>1, <2>2 DEF Tracks
  <2>4. CASE h \in v /\ ~RemovedAfter(q, 0, h)
    BY <1>4, <2>1, <2>4
  <2>5. ASSUME NEW i \in 1..Len(q), Brings(q[i], h) /\ ~RemovedAfter(q, i, h)
        PROVE  i \in 1..Len(r) /\ Brings(r[i], h) /\ ~RemovedAfter(r, i, h)
    BY <1>4, <2>1, <2>5
  <2> QED
    BY <2>3, <2>4, <2>5
<1>6. ASSUME NEW h \in v PROVE h \in a /\ (h \in Logs(d) \/ h \in f \/ RemovedAfter(r, 0, h))
  BY <1>2, <1>4 DEF Tracks
<1>7. Tracks(r, v, a, d, t, f)
  BY <1>5, <1>6 DEF Tracks
<1> QED
  BY <1>1, <1>3, <1>7

\* Blocks whose logs, if any, cannot be found go and nobody is told.
LEMMA TracksSilentRewind ==
    ASSUME NEW q, NEW v, NEW a, NEW c \in Hashes, NEW k \in 0..Len(c),
           NEW s, NEW g, Tracks(q, v, a, c, s, g),
           {h \in Logs(c) : Len(h) > k /\ Len(h) \in s} = {},
           NEW t, t \subseteq s, NEW f, g \subseteq f,
           {h \in Logs(c) : Len(h) > k /\ Len(h) \notin s} \subseteq f
    PROVE  Tracks(q, v, a, SubSeq(c, 1, k), t, f)
<1>1. PICK d \in Hashes : d = SubSeq(c, 1, k)
  BY PrefixFacts
<1>2. /\ \A h \in Logs(d) : h \in Logs(c)
      /\ \A h \in Logs(c) : Len(h) <= k => h \in Logs(d)
  BY <1>1, LogsOfShorter
<1>3. \A h \in Logs(c) : h \in Logs(d) \/ h \in f
  <2>1. k \in Nat /\ \A h \in Logs(c) : Len(h) \in Nat
    BY LogFacts DEF Hashes
  <2> QED
    BY <1>2, <2>1
<1>4. Tracks(q, v, a, d, t, f)
  BY <1>2, <1>3 DEF Tracks
<1> QED
  BY <1>1, <1>4

\* A note enters the queue.
LEMMA TracksTold ==
    ASSUME NEW q \in Seq(Notes), NEW v, NEW a, NEW c, NEW s, NEW g, NEW n \in Notes,
           Tracks(Append(q, n), v, a, c, s, g), NEW b,
           b = IF n.kind = "block" THEN a \cup {n.hash} ELSE a
    PROVE  Tracks(Append(q, n), v, b, c, s, g)
<1>1. PICK r \in Seq(Notes) : r = Append(q, n)
  BY LongerQueue
<1>2. Len(q) + 1 \in 1..Len(r) /\ r[Len(q) + 1] = n
  BY <1>1, LongerQueue
<1>3. \A h \in b : h \in a \/ \E i \in 1..Len(r) : Brings(r[i], h)
  BY <1>2 DEF Brings
<1>4. a \subseteq b /\ Tracks(r, v, a, c, s, g)
  BY <1>1
<1>5. Tracks(r, v, b, c, s, g)
  BY <1>3, <1>4 DEF Tracks
<1> QED
  BY <1>1, <1>5

\* A client that has just begun to listen.
LEMMA TracksOpen ==
    ASSUME NEW m, m.kind \in {"block", "removed"} => m \in Notes, NEW c, NEW s, NEW g
    PROVE  Tracks(Pending(<<>>, m), {}, {}, c, s, g)
<1>1. CASE m.kind \notin {"block", "removed"}
  <2>1. Pending(<<>>, m) = <<>> /\ Len(<<>>) = 0
    BY <1>1 DEF Pending
  <2> QED
    BY <2>1 DEF Tracks
<1>2. CASE m.kind \in {"block", "removed"}
  <2>1. m \in Notes
    BY <1>2
  <2>2. PICK q \in Seq(Notes) : q = <<>> /\ Len(q) = 0
    BY EmptySeq
  <2>3. PICK r \in Seq(Notes) : r = Append(q, m)
    BY <2>1, LongerQueue
  <2>4. Len(r) = 1 /\ \A h : ~RemovedAfter(r, 1, h)
    <3>1. Len(r) = Len(q) + 1 /\ \A h : ~RemovedAfter(r, Len(q) + 1, h)
      BY <2>1, <2>3, LongerQueue
    <3> QED
      BY <2>2, <3>1
  <2>5. Tracks(r, {}, {}, c, s, g)
    BY <2>4 DEF Tracks
  <2> QED
    BY <1>2, <2>2, <2>3, <2>5 DEF Pending
<1> QED
  BY <1>1, <1>2

\* Nothing is left to read.
LEMMA TracksEnd ==
    ASSUME NEW v, NEW a, NEW c, NEW s, NEW g, Tracks(<<>>, v, a, c, s, g)
    PROVE  /\ {h \in Logs(c) : Len(h) \in s} \cap a \subseteq v
           /\ v \subseteq (Logs(c) \cup g) \cap a
<1>1. Len(<<>>) = 0 /\ \A h : ~RemovedAfter(<<>>, 0, h)
  BY DEF RemovedAfter
<1> QED
  BY <1>1 DEF Tracks

LEMMA AppliedFacts ==
    ASSUME chain \in Hashes, NEW v, NEW n \in Notes
    PROVE  \A h : h \in Applied(v, n) <=>
              IF n.kind = "removed" THEN h \in v /\ h \notin n.logs
              ELSE h \in v \/ (h = n.hash /\ h \in Logs(chain) /\ Len(h) \in stored)
<1>1. n.hash \in Hashes /\ n.kind \in {"block", "removed"} /\ (n.kind = "block" => n.hash # <<>>)
  BY NoteFacts
<1>2. ASSUME n.kind = "block"
      PROVE  Canonical(n.hash) /\ HasLog(n.hash) <=> n.hash \in Logs(chain)
  <2>1. Len(n.hash) \in Nat /\ Len(n.hash) >= 1 /\ Len(chain) \in Nat
    BY <1>1, <1>2, EmptySeq DEF Hashes
  <2>2. ASSUME Canonical(n.hash), HasLog(n.hash) PROVE n.hash \in Logs(chain)
    <3>1. Len(n.hash) \in 1..Len(chain) /\ n.hash = SubSeq(chain, 1, Len(n.hash))
      BY <2>1, <2>2 DEF Canonical, Prefix
    <3> QED
      BY <2>2, <3>1, LogFacts
  <2>3. ASSUME n.hash \in Logs(chain) PROVE Canonical(n.hash) /\ HasLog(n.hash)
    <3>1. Len(n.hash) \in 1..Len(chain) /\ n.hash = SubSeq(chain, 1, Len(n.hash)) /\ HasLog(n.hash)
      BY <2>3, LogFacts
    <3> QED
      BY <2>1, <3>1 DEF Canonical, Prefix
  <2> QED
    BY <2>2, <2>3
<1>3. CASE n.kind = "removed"
  BY <1>3 DEF Applied
<1>4. CASE n.kind = "block"
  <2>1. Applied(v, n) = IF Canonical(n.hash) /\ HasLog(n.hash) /\ Len(n.hash) \in stored
                        THEN v \cup {n.hash} ELSE v
    BY <1>4 DEF Applied
  <2> QED
    BY <1>2, <1>4, <2>1
<1> QED
  BY <1>1, <1>3, <1>4

LEMMA ShorterQueue ==
    ASSUME NEW q \in Seq(Notes), q # <<>>
    PROVE  /\ Tail(q) \in Seq(Notes) /\ Len(Tail(q)) = Len(q) - 1 /\ Len(q) \in Nat /\ Len(q) >= 1
           /\ Head(q) = q[1] /\ q[1] \in Notes
           /\ \A i \in 1..Len(Tail(q)) : Tail(q)[i] = q[i + 1]
           /\ \A i \in Nat : \A h : RemovedAfter(Tail(q), i, h) <=> RemovedAfter(q, i + 1, h)
           /\ \A h : RemovedAfter(q, 0, h) <=> Removes(q[1], h) \/ RemovedAfter(q, 1, h)
<1>1. /\ Tail(q) \in Seq(Notes) /\ Len(Tail(q)) = Len(q) - 1 /\ Len(q) \in Nat /\ Len(q) >= 1
      /\ \A i \in 1..Len(Tail(q)) : Tail(q)[i] = q[i + 1]
      /\ Head(q) = q[1] /\ q[1] \in Notes
  BY HeadTailProperties, EmptySeq
<1>2. PICK r : r = Tail(q)
  OBVIOUS
<1>3. ASSUME NEW i \in Nat, NEW h PROVE RemovedAfter(r, i, h) <=> RemovedAfter(q, i + 1, h)
  <2>1. \A j \in i + 1..Len(r) : j + 1 \in (i + 1) + 1..Len(q) /\ r[j] = q[j + 1]
    BY <1>1, <1>2
  <2>2. \A j \in (i + 1) + 1..Len(q) : j - 1 \in i + 1..Len(r) /\ r[j - 1] = q[j]
    BY <1>1, <1>2
  <2> QED
    BY <2>1, <2>2 DEF RemovedAfter
<1>4. ASSUME NEW h PROVE RemovedAfter(q, 0, h) <=> Removes(q[1], h) \/ RemovedAfter(q, 1, h)
  <2>1. \A j \in 0 + 1..Len(q) : j = 1 \/ j \in 1 + 1..Len(q)
    BY <1>1
  <2>2. 1 \in 0 + 1..Len(q) /\ \A j \in 1 + 1..Len(q) : j \in 0 + 1..Len(q)
    BY <1>1
  <2> QED
    BY <2>1, <2>2 DEF RemovedAfter
<1> QED
  BY <1>1, <1>2, <1>3, <1>4

\* A client reads the next note.
LEMMA TracksPoll ==
    ASSUME chain \in Hashes, NEW q \in Seq(Notes), q # <<>>, NEW v, NEW a,
           Tracks(q, v, a, chain, stored, lost), q[1].kind = "block" => q[1].hash \in a
    PROVE  Tracks(Tail(q), Applied(v, q[1]), a, chain, stored, lost)
<1>1. PICK r \in Seq(Notes) : r = Tail(q)
  BY ShorterQueue
<1>2. /\ Len(r) = Len(q) - 1 /\ Len(q) \in Nat /\ Len(q) >= 1 /\ q[1] \in Notes
      /\ \A i \in 1..Len(r) : r[i] = q[i + 1]
      /\ \A i \in Nat : \A h : RemovedAfter(r, i, h) <=> RemovedAfter(q, i + 1, h)
      /\ \A h : RemovedAfter(q, 0, h) <=> Removes(q[1], h) \/ RemovedAfter(q, 1, h)
  BY <1>1, ShorterQueue
<1>3. PICK w : /\ w = Applied(v, q[1])
               /\ \A h : h \in w <=> IF q[1].kind = "removed" THEN h \in v /\ h \notin q[1].logs
                                     ELSE h \in v \/ (h = q[1].hash /\ h \in Logs(chain)
                                                  /\ Len(h) \in stored)
  BY <1>2, AppliedFacts
<1>4. \A h : RemovedAfter(r, 0, h) <=> RemovedAfter(q, 1, h)
  BY <1>2
<1>5. ASSUME NEW h \in Logs(chain), Len(h) \in stored, h \in a \/ \E i \in 1..Len(r) : Brings(r[i], h)
      PROVE  \/ h \in w /\ ~RemovedAfter(r, 0, h)
             \/ \E i \in 1..Len(r) : Brings(r[i], h) /\ ~RemovedAfter(r, i, h)
  <2>1. \A i \in 1..Len(r) : i + 1 \in 1..Len(q)
    BY <1>2
  <2>2. h \in a \/ \E i \in 1..Len(q) : Brings(q[i], h)
    BY <1>2, <1>5, <2>1
  <2>3. \/ h \in v /\ ~RemovedAfter(q, 0, h)
        \/ \E i \in 1..Len(q) : Brings(q[i], h) /\ ~RemovedAfter(q, i, h)
    BY <1>5, <2>2 DEF Tracks
  <2>4. CASE h \in v /\ ~RemovedAfter(q, 0, h)
    BY <1>2, <1>3, <1>4, <2>4 DEF Removes
  <2>5. CASE Brings(q[1], h) /\ ~RemovedAfter(q, 1, h)
    BY <1>3, <1>4, <1>5, <2>5 DEF Brings
  <2>6. ASSUME NEW i \in 1..Len(q), i # 1, Brings(q[i], h) /\ ~RemovedAfter(q, i, h)
        PROVE  i - 1 \in 1..Len(r) /\ Brings(r[i - 1], h) /\ ~RemovedAfter(r, i - 1, h)
    <3>1. i - 1 \in 1..Len(r) /\ i - 1 \in Nat /\ (i - 1) + 1 = i
      BY <1>2, <2>6
    <3> QED
      BY <1>2, <2>6, <3>1
  <2> QED
    BY <2>3, <2>4, <2>5, <2>6
<1>6. ASSUME NEW h \in w PROVE h \in a /\ (h \in Logs(chain) \/ h \in lost \/ RemovedAfter(r, 0, h))
  <2>1. CASE h \in v
    <3>1. h \in a /\ (h \in Logs(chain) \/ h \in lost \/ RemovedAfter(q, 0, h))
      BY <2>1 DEF Tracks
    <3>2. ~Removes(q[1], h)
      BY <1>3 DEF Removes
    <3> QED
      BY <1>2, <1>4, <3>1, <3>2
  <2>2. CASE h \notin v
    BY <1>2, <1>3, <2>2, NoteFacts
  <2> QED
    BY <2>1, <2>2
<1>7. Tracks(r, w, a, chain, stored, lost)
  BY <1>5, <1>6 DEF Tracks
<1> QED
  BY <1>1, <1>3, <1>7

----------------------------------------------------------------------------
(* The chain and the miner *)

LEMMA NoteKinds ==
    /\ Nothing.kind = "nothing" /\ Clearing.kind = "clearing"
    /\ \A q : Pending(q, Nothing) = q /\ Pending(q, Clearing) = q
    /\ \A h \in Hashes : h # <<>> => Block(h) \in Notes /\ Block(h).kind = "block" /\ Block(h).hash = h
    /\ \A S \in SUBSET Hashes : /\ RemovedLogs(S) \in Notes
                                /\ RemovedLogs(S).kind = "removed" /\ RemovedLogs(S).logs = S
<1>1. Nothing.kind = "nothing" /\ Clearing.kind = "clearing"
  BY DEF Nothing, Clearing
<1>2. \A q : Pending(q, Nothing) = q /\ Pending(q, Clearing) = q
  BY <1>1 DEF Pending
<1>3. <<>> \in Hashes
  BY DEF Hashes
<1>4. ASSUME NEW h \in Hashes, h # <<>>
      PROVE  Block(h) \in Notes /\ Block(h).kind = "block" /\ Block(h).hash = h
  BY <1>4 DEF Block, Notes
<1>5. ASSUME NEW S \in SUBSET Hashes
      PROVE  RemovedLogs(S) \in Notes /\ RemovedLogs(S).kind = "removed" /\ RemovedLogs(S).logs = S
  BY <1>3 DEF RemovedLogs, Notes
<1> QED
  BY <1>1, <1>2, <1>4, <1>5

LEMMA MinerFacts ==
    ASSUME ChainOK
    PROVE  /\ miner.kind \in {"block", "removed"} <=> miner \in Notes
           /\ miner.kind \in {"block", "removed"} => miner # Nothing /\ miner # Clearing
BY NoteKinds, NoteFacts DEF ChainOK

LEMMA LogsAboveFacts ==
    ASSUME chain \in Hashes, NEW n \in 0..Len(chain)
    PROVE  /\ LogsAbove(n) = {h \in Logs(chain) : Len(h) > n}
           /\ LogsSince(n) = {h \in Logs(chain) : Len(h) > n /\ Len(h) \in stored}
<1>1. Len(chain) \in Nat /\ n \in Nat
  BY DEF Hashes
<1>2. ASSUME NEW h \in LogsAbove(n) PROVE h \in Logs(chain) /\ Len(h) > n
  <2>1. PICK i \in n + 1..Len(chain) : h = SubSeq(chain, 1, i) /\ HasLog(h)
    BY DEF LogsAbove, Prefix
  <2>2. i \in 0..Len(chain) /\ i \in 1..Len(chain) /\ i > n
    BY <1>1
  <2> QED
    BY <2>1, <2>2, PrefixFacts, LogFacts
<1>3. ASSUME NEW h \in Logs(chain), Len(h) > n PROVE h \in LogsAbove(n)
  <2>1. h = SubSeq(chain, 1, Len(h)) /\ Len(h) \in 1..Len(chain) /\ HasLog(h)
    BY LogFacts
  <2>2. Len(h) \in n + 1..Len(chain)
    BY <1>1, <1>3, <2>1
  <2> QED
    BY <2>1, <2>2 DEF LogsAbove, Prefix
<1>4. LogsAbove(n) = {h \in Logs(chain) : Len(h) > n}
  BY <1>2, <1>3
<1> QED
  BY <1>4 DEF LogsSince

LEMMA AllLogs ==
    ASSUME chain \in Hashes
    PROVE  /\ LogsAbove(0) = Logs(chain)
           /\ LogsSince(0) = {h \in Logs(chain) : Len(h) \in stored}
<1>1. 0 \in 0..Len(chain) /\ \A h \in Logs(chain) : Len(h) > 0
  BY LogFacts DEF Hashes
<1> QED
  BY <1>1, LogsAboveFacts

LEMMA MineFacts ==
    ASSUME ChainOK, NEW x \in {"log", "none"}, Mine(x)
    PROVE  /\ miner = Nothing /\ chain' = Append(chain, x) /\ miner' = Block(Append(chain, x))
           /\ miner' \in Notes /\ miner'.kind = "block" /\ miner'.hash = Append(chain, x)
           /\ chain' \in Hashes /\ Len(chain') = Len(chain) + 1 /\ Len(chain') <= MaxChain
           /\ stored' = (stored \cup {Len(chain) + 1}) \ {(Len(chain) + 1) - Keeper}
           /\ UNCHANGED <<lost, filter, sub, fees, cache, now, evictor>>
           /\ query' = Witnessed(chain')
<1>1. /\ miner = Nothing /\ chain' = Append(chain, x) /\ miner' = Block(Append(chain, x))
      /\ Len(chain) < MaxChain /\ query' = Witnessed(chain')
      /\ stored' = (stored \cup {Len(chain')}) \ {Len(chain') - Keeper}
      /\ UNCHANGED <<lost, filter, sub, fees, cache, now, evictor>>
  BY DEF Mine
<1>2. PICK d \in Hashes : d = Append(chain, x) /\ Len(d) = Len(chain) + 1 /\ d # <<>>
  <2>1. Append(chain, x) # <<>>
    BY AppendProperties DEF ChainOK, Hashes
  <2> QED
    BY <2>1, PrefixOfLonger DEF ChainOK
<1>3. Len(chain) \in Nat /\ MaxChain \in Nat
  BY NotificationsAssumption DEF ChainOK, Hashes
<1>4. Block(d) \in Notes /\ Block(d).kind = "block" /\ Block(d).hash = d
  BY <1>2, NoteKinds
<1>5. /\ miner = Nothing /\ chain' = d /\ miner' = Block(d) /\ query' = Witnessed(chain')
      /\ Len(chain') = Len(chain) + 1
  BY <1>1, <1>2
<1>6. Len(chain') <= MaxChain
  BY <1>1, <1>3, <1>5
<1>7. stored' = (stored \cup {Len(chain) + 1}) \ {(Len(chain) + 1) - Keeper}
  BY <1>1, <1>5
<1>8. UNCHANGED <<lost, filter, sub, fees, cache, now, evictor>>
  BY <1>1
<1>9. /\ miner' \in Notes /\ miner'.kind = "block" /\ miner'.hash = Append(chain, x)
      /\ chain' = Append(chain, x) /\ miner' = Block(Append(chain, x)) /\ chain' \in Hashes
  BY <1>2, <1>4, <1>5
<1> QED
  BY <1>5, <1>6, <1>7, <1>8, <1>9

LEMMA RewindFacts ==
    ASSUME ChainOK, NEW n \in 0..Len(chain) - 1, Rewind(n)
    PROVE  /\ miner = Nothing /\ n \in 0..Len(chain) /\ n < Len(chain)
           /\ chain' = SubSeq(chain, 1, n)
           /\ chain' \in Hashes /\ Len(chain') = n
           /\ stored' = stored \cap 1..n
           /\ lost' = lost \cup {h \in Logs(chain) : Len(h) > n /\ Len(h) \notin stored}
           /\ \/ /\ {h \in Logs(chain) : Len(h) > n /\ Len(h) \in stored} = {}
                 /\ miner' = Nothing
              \/ /\ miner' \in Notes /\ miner'.kind = "removed"
                 /\ miner'.logs = {h \in Logs(chain) : Len(h) > n /\ Len(h) \in stored}
           /\ UNCHANGED <<filter, sub, fees, cache, now, evictor>>
<1>1. n \in 0..Len(chain) /\ n < Len(chain)
  BY DEF ChainOK, Hashes
<1>2. PICK R : R = {h \in Logs(chain) : Len(h) > n /\ Len(h) \in stored} /\ R \in SUBSET Hashes
  BY LogFacts DEF ChainOK
<1>3. Removed(n) = R
  BY <1>1, <1>2, LogsAboveFacts DEF ChainOK, Removed
<1>4. /\ miner = Nothing /\ chain' = SubSeq(chain, 1, n)
      /\ miner' = IF R = {} THEN Nothing ELSE RemovedLogs(R)
      /\ UNCHANGED <<filter, sub, fees, cache, now, evictor>>
  BY <1>3 DEF Rewind, Prefix
<1>7. /\ stored' = stored \cap 1..n
      /\ lost' = lost \cup {h \in Logs(chain) : Len(h) > n /\ Len(h) \notin stored}
  <2>1. LogsAbove(n) = {h \in Logs(chain) : Len(h) > n}
    BY <1>1, LogsAboveFacts DEF ChainOK
  <2>2. /\ stored' = stored \cap 1..n
        /\ lost' = lost \cup {h \in LogsAbove(n) : Len(h) \notin stored}
    BY DEF Rewind
  <2> QED
    BY <2>1, <2>2
<1>5. chain' \in Hashes /\ Len(chain') = n
  BY <1>1, <1>4, PrefixFacts DEF ChainOK
<1>6. RemovedLogs(R) \in Notes /\ RemovedLogs(R).kind = "removed" /\ RemovedLogs(R).logs = R
  BY <1>2, NoteKinds
<1> QED
  BY <1>1, <1>2, <1>4, <1>5, <1>6, <1>7

\* Whatever the holder of the mining mutex does to the chain, a listener
\* that is told of it in the end keeps track.
LEMMA TracksChain ==
    ASSUME ChainOK, NEW q \in Seq(Notes), NEW v, NEW a, Tracks(Pending(q, miner), v, a, chain, stored, lost),
           \/ \E x \in {"log", "none"} : Mine(x)
           \/ \E n \in 0..Len(chain) - 1 : Rewind(n)
           \/ ClearCache
    PROVE  Tracks(Pending(q, miner'), v, a, chain', stored', lost')
<1>0. chain \in Hashes
  BY DEF ChainOK
<1>1. ASSUME NEW x \in {"log", "none"}, Mine(x) PROVE Tracks(Pending(q, miner'), v, a, chain', stored', lost')
  <2>1. /\ miner = Nothing /\ chain' = Append(chain, x)
        /\ miner' \in Notes /\ miner'.kind = "block" /\ miner'.hash = Append(chain, x)
        /\ stored' \subseteq stored \cup {Len(chain) + 1} /\ lost' = lost
    BY <1>1, MineFacts
  <2>2. Tracks(q, v, a, chain, stored, lost)
    BY <2>1, NoteKinds
  <2>3. Tracks(Append(q, miner'), v, a, Append(chain, x), stored', lost)
    BY <1>0, <2>1, <2>2, TracksMine
  <2> QED
    BY <2>1, <2>3 DEF Pending
<1>2. ASSUME NEW n \in 0..Len(chain) - 1, Rewind(n)
      PROVE  Tracks(Pending(q, miner'), v, a, chain', stored', lost')
  <2>1. /\ miner = Nothing /\ n \in 0..Len(chain) /\ chain' = SubSeq(chain, 1, n)
        /\ stored' \subseteq stored /\ lost \subseteq lost'
        /\ {h \in Logs(chain) : Len(h) > n /\ Len(h) \notin stored} \subseteq lost'
        /\ \/ /\ {h \in Logs(chain) : Len(h) > n /\ Len(h) \in stored} = {}
              /\ miner' = Nothing
           \/ /\ miner' \in Notes /\ miner'.kind = "removed"
              /\ miner'.logs = {h \in Logs(chain) : Len(h) > n /\ Len(h) \in stored}
    BY <1>2, RewindFacts
  <2>2. Tracks(q, v, a, chain, stored, lost)
    BY <2>1, NoteKinds
  <2>3. CASE /\ {h \in Logs(chain) : Len(h) > n /\ Len(h) \in stored} = {}
             /\ miner' = Nothing
    <3>1. Tracks(q, v, a, SubSeq(chain, 1, n), stored', lost')
      BY <1>0, <2>1, <2>2, <2>3, TracksSilentRewind
    <3> QED
      BY <2>1, <2>3, <3>1, NoteKinds
  <2>4. CASE /\ miner' \in Notes /\ miner'.kind = "removed"
             /\ miner'.logs = {h \in Logs(chain) : Len(h) > n /\ Len(h) \in stored}
    <3>1. Tracks(Append(q, miner'), v, a, SubSeq(chain, 1, n), stored', lost')
      BY <1>0, <2>1, <2>2, <2>4, TracksRewind
    <3> QED
      BY <2>1, <2>4, <3>1 DEF Pending
  <2> QED
    BY <2>1, <2>3, <2>4
<1>3. CASE ClearCache
  <2>1. miner = Clearing /\ miner' = Nothing /\ storage' = storage
    BY <1>3 DEF ClearCache
  <2> QED
    BY <2>1, NoteKinds
<1> QED
  BY <1>1, <1>2, <1>3

----------------------------------------------------------------------------
(* The listeners *)

LEMMA ToldFacts ==
    ASSUME miner \in Notes, NEW l, {"open", "queue", "announced"} \subseteq DOMAIN l,
           l.queue \in Seq(Notes), l.open \in BOOLEAN
    PROVE  LET k == Told(l)
           IN  /\ DOMAIN k = DOMAIN l
               /\ \A f \in DOMAIN l \ {"queue", "announced"} : k[f] = l[f]
               /\ k.queue \in Seq(Notes)
               /\ QueueTold(l.queue, l.announced) => QueueTold(k.queue, k.announced)
               /\ ~l.open => k = l
               /\ \A v, c, s, g : l.open /\ Tracks(Pending(l.queue, miner), v, l.announced, c, s, g)
                              => Tracks(Pending(k.queue, Nothing), v, k.announced, c, s, g)
<1> DEFINE k == Told(l)
<1>1. CASE ~l.open
  BY <1>1 DEF Told
<1>2. CASE l.open
  <2>1. PICK b : b = IF miner.kind = "block" THEN l.announced \cup {miner.hash} ELSE l.announced
    OBVIOUS
  <2>2. k = [l EXCEPT !.queue = Append(l.queue, miner), !.announced = b]
    BY <1>2, <2>1 DEF Told
  <2>3. /\ DOMAIN k = DOMAIN l /\ k.queue = Append(l.queue, miner) /\ k.announced = b
        /\ \A f \in DOMAIN l \ {"queue", "announced"} : k[f] = l[f]
    BY <2>2
  <2> HIDE DEF k
  <2>4. PICK q \in Seq(Notes) : q = l.queue
    OBVIOUS
  <2>5. /\ Append(q, miner) \in Seq(Notes) /\ Len(Append(q, miner)) = Len(q) + 1
        /\ \A i \in 1..Len(q) : Append(q, miner)[i] = q[i]
        /\ Append(q, miner)[Len(q) + 1] = miner
        /\ \A i \in 1..Len(q) + 1 : i \in 1..Len(q) \/ i = Len(q) + 1
    BY LongerQueue
  <2>6. QueueTold(q, l.announced) => QueueTold(Append(q, miner), b)
    <3>1. PICK r : r = Append(q, miner)
      OBVIOUS
    <3> QED
      BY <2>1, <2>5, <3>1 DEF QueueTold
  <2>7. miner.kind \in {"block", "removed"}
    BY NoteFacts
  <2>8. ASSUME NEW v, NEW c, NEW s, NEW g,
               Tracks(Pending(q, miner), v, l.announced, c, s, g)
        PROVE  Tracks(Pending(k.queue, Nothing), v, b, c, s, g)
    <3>1. Tracks(Append(q, miner), v, l.announced, c, s, g)
      BY <2>7, <2>8 DEF Pending
    <3>2. Tracks(Append(q, miner), v, b, c, s, g)
      BY <2>1, <3>1, TracksTold
    <3> QED
      BY <2>3, <2>4, <3>2, NoteKinds
  <2> QED
    BY <1>2, <2>3, <2>4, <2>5, <2>6, <2>8 DEF k
<1> QED
  BY <1>1, <1>2

\* A listener with something in its queue reads the first note.
LEMMA QueueRead ==
    ASSUME NEW q \in Seq(Notes), q # <<>>, NEW a, QueueTold(q, a)
    PROVE  Tail(q) \in Seq(Notes) /\ QueueTold(Tail(q), a)
<1>1. /\ Tail(q) \in Seq(Notes) /\ Len(Tail(q)) = Len(q) - 1 /\ Len(q) \in Nat
      /\ \A i \in 1..Len(Tail(q)) : Tail(q)[i] = q[i + 1]
  BY ShorterQueue
<1>2. PICK r : r = Tail(q)
  OBVIOUS
<1>3. \A i \in 1..Len(r) : i + 1 \in 1..Len(q) /\ r[i] = q[i + 1]
  BY <1>1, <1>2
<1> QED
  BY <1>1, <1>2, <1>3 DEF QueueTold

LEMMA PendingRead ==
    ASSUME ChainOK, NEW q \in Seq(Notes), q # <<>>, NEW v, NEW a, QueueTold(q, a),
           Tracks(Pending(q, miner), v, a, chain, stored, lost)
    PROVE  Tracks(Pending(Tail(q), miner), Applied(v, Head(q)), a, chain, stored, lost)
<1>1. /\ Tail(q) \in Seq(Notes) /\ Len(Tail(q)) = Len(q) - 1 /\ Len(q) \in Nat /\ Len(q) >= 1
      /\ Head(q) = q[1] /\ \A i \in 1..Len(Tail(q)) : Tail(q)[i] = q[i + 1]
  BY ShorterQueue
<1>2. q[1].kind = "block" => q[1].hash \in a
  BY <1>1 DEF QueueTold
<1>3. CASE miner.kind \notin {"block", "removed"}
  <2>1. Pending(q, miner) = q /\ Pending(Tail(q), miner) = Tail(q) /\ chain \in Hashes
    BY <1>3 DEF Pending, ChainOK
  <2> QED
    BY <1>1, <1>2, <2>1, TracksPoll
<1>4. CASE miner.kind \in {"block", "removed"}
  <2>1. miner \in Notes /\ chain \in Hashes
    BY <1>4, MinerFacts DEF ChainOK
  <2>2. PICK r \in Seq(Notes) : r = Append(q, miner)
    BY <2>1, LongerQueue
  <2>3. Len(r) = Len(q) + 1 /\ (\A i \in 1..Len(q) : r[i] = q[i]) /\ r[Len(q) + 1] = miner /\ r # <<>>
    BY <2>1, <2>2, AppendProperties
  <2>4. r[1] = q[1]
    BY <1>1, <2>3
  <2>5. Tracks(Tail(r), Applied(v, q[1]), a, chain, stored, lost)
    <3>1. Tracks(r, v, a, chain, stored, lost)
      BY <1>4, <2>2 DEF Pending
    <3> QED
      BY <1>2, <2>1, <2>3, <2>4, <3>1, TracksPoll
  <2>6. Tail(r) = Append(Tail(q), miner)
    <3>1. /\ Tail(r) \in Seq(Notes) /\ Len(Tail(r)) = Len(r) - 1
          /\ \A i \in 1..Len(Tail(r)) : Tail(r)[i] = r[i + 1]
      BY <2>3, ShorterQueue
    <3>2. PICK t \in Seq(Notes) : t = Tail(q)
      BY <1>1
    <3>3. /\ Append(t, miner) \in Seq(Notes) /\ Len(Append(t, miner)) = Len(t) + 1
          /\ \A i \in 1..Len(t) : Append(t, miner)[i] = t[i]
          /\ Append(t, miner)[Len(t) + 1] = miner
      BY <2>1, LongerQueue
    <3>4. PICK x \in Seq(Notes), y \in Seq(Notes) : x = Tail(r) /\ y = Append(t, miner)
      BY <3>1, <3>3
    <3>5. Len(x) = Len(y)
      BY <1>1, <2>3, <3>1, <3>2, <3>3, <3>4
    <3>6. ASSUME NEW i \in 1..Len(x) PROVE x[i] = y[i]
      <4>1. CASE i \in 1..Len(t)
        BY <1>1, <2>3, <3>1, <3>2, <3>3, <3>4, <4>1
      <4>2. CASE i = Len(t) + 1
        BY <1>1, <2>3, <3>1, <3>2, <3>3, <3>4, <4>2
      <4>3. Len(x) = Len(t) + 1 /\ Len(t) \in Nat
        BY <3>3, <3>4, <3>5
      <4> QED
        BY <4>1, <4>2, <4>3
    <3>7. x = y
      BY <3>5, <3>6, SeqEqual
    <3> QED
      BY <3>2, <3>4, <3>7
  <2> QED
    BY <1>1, <1>4, <2>5, <2>6 DEF Pending
<1> QED
  BY <1>3, <1>4

LEMMA SubKept == ASSUME SubOK, UNCHANGED <<sub, miner, storage>> PROVE SubOK'
BY DEF SubOK, ListenerOK, Silent

LEMMA SubNext == ASSUME NotificationsInv, [Next]_vars PROVE SubOK'
<1>0. /\ SubOK /\ ChainOK /\ chain \in Hashes /\ sub.queue \in Seq(Notes)
      /\ DOMAIN sub = ListenerFields
  BY DEF NotificationsInv, ChainOK, SubOK, ListenerOK
<1>1. ASSUME UNCHANGED sub,
             \/ \E x \in {"log", "none"} : Mine(x)
             \/ \E n \in 0..Len(chain) - 1 : Rewind(n)
             \/ ClearCache
      PROVE  SubOK'
  <2>1. sub.open /\ sub.fresh => Tracks(Pending(sub.queue, miner'), sub.view, sub.announced, chain', stored', lost')
    <3>1. sub.open /\ sub.fresh => Tracks(Pending(sub.queue, miner), sub.view, sub.announced, chain, stored, lost)
      BY <1>0 DEF SubOK
    <3> QED
      BY <1>0, <1>1, <3>1, TracksChain
  <2> QED
    BY <1>0, <1>1, <2>1 DEF SubOK, ListenerOK, Silent
<1>2. ASSUME NEW x \in {"log", "none"}, Mine(x) PROVE SubOK'
  BY <1>1, <1>2 DEF Mine
<1>3. Rollback \/ Revert => SubOK'
  BY <1>1 DEF Rollback, Revert, Rewind
<1>4. CASE ResetChain
  <2>1. sub' = [sub EXCEPT !.fresh = FALSE]
    BY <1>4 DEF ResetChain
  <2>2. /\ DOMAIN sub' = ListenerFields /\ sub'.fresh = FALSE
        /\ \A f \in ListenerFields \ {"fresh"} : sub'[f] = sub[f]
    BY <1>0, <2>1 DEF ListenerFields
  <2>3. /\ sub'.phase = sub.phase /\ sub'.open = sub.open /\ sub'.queue = sub.queue
        /\ sub'.announced = sub.announced /\ sub'.view = sub.view
    BY <2>2 DEF ListenerFields
  <2> QED
    BY <1>0, <2>2, <2>3 DEF SubOK, ListenerOK, Silent
<1>5. CASE ClearCache
  BY <1>1, <1>5 DEF ClearCache
<1>6. CASE Notify
  <2>1. miner.kind \in {"block", "removed"} /\ sub' = Told(sub) /\ miner' = Nothing /\ storage' = storage
    BY <1>6 DEF Notify
  <2>2. miner \in Notes
    BY <1>0, <2>1, MinerFacts
  <2>3. PICK k : k = Told(sub)
    OBVIOUS
  <2>4. /\ DOMAIN k = DOMAIN sub
        /\ \A f \in DOMAIN sub \ {"queue", "announced"} : k[f] = sub[f]
        /\ k.queue \in Seq(Notes)
        /\ QueueTold(sub.queue, sub.announced) => QueueTold(k.queue, k.announced)
        /\ ~sub.open => k = sub
        /\ \A v, c, s, g : sub.open /\ Tracks(Pending(sub.queue, miner), v, sub.announced, c, s, g)
                       => Tracks(Pending(k.queue, Nothing), v, k.announced, c, s, g)
    <3>1. {"open", "queue", "announced"} \subseteq DOMAIN sub /\ sub.open \in BOOLEAN
      BY <1>0 DEF ListenerFields, SubOK, ListenerOK
    <3> QED
      BY <1>0, <2>2, <2>3, <3>1, ToldFacts
  <2>5. /\ k.phase = sub.phase /\ k.open = sub.open /\ k.fresh = sub.fresh /\ k.view = sub.view
    BY <1>0, <2>4 DEF ListenerFields
  <2>6. SubOK /\ sub' = k
    BY <1>0, <2>1, <2>3
  <2>7. k.open /\ k.fresh => Tracks(Pending(k.queue, Nothing), k.view, k.announced, chain, stored, lost)
    BY <2>4, <2>5, <2>6 DEF SubOK
  <2>8. ListenerOK(k)
    BY <2>4, <2>5, <2>6 DEF SubOK, ListenerOK
  <2>9. k.phase # "active" => Silent(k)
    BY <2>4, <2>5, <2>6 DEF SubOK, Silent
  <2> QED
    BY <1>0, <2>1, <2>4, <2>5, <2>6, <2>7, <2>8, <2>9 DEF SubOK
<1>7. CASE Subscribe
  <2>1. /\ sub.phase = "none" /\ sub' = [sub EXCEPT !.phase = "active", !.open = TRUE, !.fresh = TRUE]
        /\ UNCHANGED <<storage, miner>>
    BY <1>7 DEF Subscribe
  <2>2. /\ DOMAIN sub' = ListenerFields /\ sub'.phase = "active" /\ sub'.open = TRUE
        /\ sub'.fresh = TRUE /\ sub'.queue = sub.queue /\ sub'.announced = sub.announced
        /\ sub'.view = sub.view
    BY <1>0, <2>1 DEF ListenerFields
  <2>3. sub.queue = <<>> /\ sub.announced = {} /\ sub.view = {}
    BY <1>0, <2>1 DEF SubOK, Silent
  <2>4. Tracks(Pending(<<>>, miner), {}, {}, chain, stored, lost)
    BY <1>0, MinerFacts, TracksOpen
  <2>5. ListenerOK(sub')
    BY <1>0, <2>2 DEF SubOK, ListenerOK
  <2> QED
    BY <2>1, <2>2, <2>3, <2>4, <2>5 DEF SubOK
<1>8. CASE SubscriptionPoll
  <2>1. /\ sub.queue # <<>> /\ UNCHANGED <<storage, miner>>
        /\ sub' = [sub EXCEPT !.queue = Tail(sub.queue), !.view = Applied(sub.view, Head(sub.queue))]
    BY <1>8 DEF SubscriptionPoll
  <2>2. /\ DOMAIN sub' = ListenerFields /\ sub'.phase = sub.phase /\ sub'.open = sub.open
        /\ sub'.fresh = sub.fresh /\ sub'.announced = sub.announced
        /\ sub'.queue = Tail(sub.queue) /\ sub'.view = Applied(sub.view, Head(sub.queue))
    BY <1>0, <2>1 DEF ListenerFields
  <2>3. sub.phase = "active"
    BY <1>0, <2>1 DEF SubOK, Silent
  <2>4. ListenerOK(sub) /\ (sub.open /\ sub.fresh =>
           Tracks(Pending(sub.queue, miner), sub.view, sub.announced, chain, stored, lost))
    BY <1>0 DEF SubOK
  <2>5. Tail(sub.queue) \in Seq(Notes) /\ QueueTold(Tail(sub.queue), sub.announced)
    BY <1>0, <2>1, <2>4, QueueRead DEF ListenerOK
  <2>6. sub.open /\ sub.fresh => Tracks(Pending(Tail(sub.queue), miner),
                                        Applied(sub.view, Head(sub.queue)), sub.announced, chain, stored, lost)
    BY <1>0, <2>1, <2>4, PendingRead DEF ListenerOK
  <2>7. ListenerOK(sub')
    BY <2>2, <2>4, <2>5 DEF ListenerOK
  <2> QED
    BY <2>1, <2>2, <2>3, <2>6, <2>7 DEF SubOK
<1>9. ASSUME UNCHANGED <<sub, miner, storage>> PROVE SubOK'
  BY <1>0, <1>9, SubKept
<1>10. \A historic : NewFilter(historic) => SubOK'
  BY <1>9 DEF NewFilter
<1>11. AddFilter \/ GetFilterChanges \/ PollOne \/ PollEnd \/ GetLogFilter \/ UninstallFilter => SubOK'
  BY <1>9 DEF AddFilter, GetFilterChanges, PollOne, PollEnd, GetLogFilter, UninstallFilter
<1>12. EvictBegin \/ Evict \/ Tick \/ FeeServiceTake \/ FeeServiceInsert => SubOK'
  BY <1>9 DEF EvictBegin, Evict, Tick, FeeServiceTake, FeeServiceInsert
<1>13. QueryResolve \/ QueryCompute \/ QueryWarm \/ QueryEnd \/ QueryReturn => SubOK'
  BY <1>9 DEF QueryResolve, QueryCompute, QueryWarm, QueryEnd, QueryReturn
<1>14. \A low : QueryBegin(low) => SubOK'
  BY <1>9 DEF QueryBegin
<1>15. UNCHANGED vars => SubOK'
  BY <1>9 DEF vars
<1> QED
  BY <1>2, <1>3, <1>4, <1>5, <1>6, <1>7, <1>8, <1>10, <1>11, <1>12, <1>13, <1>14, <1>15 DEF Next

----------------------------------------------------------------------------
(* The filter *)

LEMMA FilterKept == ASSUME FilterOK, UNCHANGED <<filter, miner, storage>> PROVE FilterOK'
BY DEF FilterOK, ListenerOK, Silent, FilterView

\* The filter as it is, on another chain.
LEMMA FilterChain ==
    ASSUME NotificationsInv, UNCHANGED filter,
           \/ \E x \in {"log", "none"} : Mine(x)
           \/ \E n \in 0..Len(chain) - 1 : Rewind(n)
           \/ ClearCache
    PROVE  FilterOK'
<1>1. FilterOK /\ ChainOK /\ filter.queue \in Seq(Notes)
  BY DEF NotificationsInv, FilterOK, ListenerOK
<1>2. filter.open /\ filter.fresh /\ ~filter.complete =>
        Tracks(Pending(filter.queue, miner'), FilterView, filter.announced, chain', stored', lost')
  <2>1. filter.open /\ filter.fresh /\ ~filter.complete =>
          Tracks(Pending(filter.queue, miner), FilterView, filter.announced, chain, stored, lost)
    BY <1>1 DEF FilterOK
  <2> HIDE DEF FilterView
  <2> QED
    BY <1>1, <2>1, TracksChain
<1>3. FilterView' = FilterView
  BY DEF FilterView
<1> QED
  BY <1>1, <1>2, <1>3 DEF FilterOK, ListenerOK, Silent

LEMMA FilterReset == ASSUME NotificationsInv, ResetChain PROVE FilterOK'
<1>1. FilterOK /\ DOMAIN filter = FilterFields /\ filter' = [filter EXCEPT !.fresh = FALSE]
  BY DEF NotificationsInv, FilterOK, ResetChain
<1>2. /\ DOMAIN filter' = FilterFields /\ filter'.fresh = FALSE
      /\ filter'.phase = filter.phase /\ filter'.open = filter.open
      /\ filter'.queue = filter.queue /\ filter'.announced = filter.announced
      /\ filter'.view = filter.view /\ filter'.historic = filter.historic
      /\ filter'.deadline = filter.deadline /\ filter'.polled = filter.polled
      /\ filter'.complete = filter.complete
  BY <1>1 DEF FilterFields, ListenerFields
<1>3. ListenerOK(filter')
  BY <1>1, <1>2 DEF FilterOK, ListenerOK
<1>4. filter.phase \in {"none", "reading", "absent"} => Silent(filter')
  BY <1>1, <1>2 DEF FilterOK, Silent
<1> QED
  BY <1>1, <1>2, <1>3, <1>4 DEF FilterOK

LEMMA FilterTold == ASSUME NotificationsInv, Notify PROVE FilterOK'
<1>1. /\ FilterOK /\ ChainOK /\ DOMAIN filter = FilterFields /\ filter.queue \in Seq(Notes)
      /\ filter.open \in BOOLEAN
  BY DEF NotificationsInv, FilterOK, ListenerOK
<1>2. /\ miner.kind \in {"block", "removed"} /\ filter' = Told(filter)
      /\ miner' = Nothing /\ storage' = storage
  BY DEF Notify
<1>3. miner \in Notes
  BY <1>1, <1>2, MinerFacts
<1>4. PICK k : k = Told(filter)
  OBVIOUS
<1>5. /\ DOMAIN k = DOMAIN filter
      /\ \A f \in DOMAIN filter \ {"queue", "announced"} : k[f] = filter[f]
      /\ k.queue \in Seq(Notes)
      /\ QueueTold(filter.queue, filter.announced) => QueueTold(k.queue, k.announced)
      /\ ~filter.open => k = filter
      /\ \A v, c, s, g : filter.open /\ Tracks(Pending(filter.queue, miner), v, filter.announced, c, s, g)
                     => Tracks(Pending(k.queue, Nothing), v, k.announced, c, s, g)
  <2>1. {"open", "queue", "announced"} \subseteq DOMAIN filter
    BY <1>1 DEF FilterFields, ListenerFields
  <2> QED
    BY <1>1, <1>3, <1>4, <2>1, ToldFacts
<1>6. /\ k.phase = filter.phase /\ k.open = filter.open /\ k.fresh = filter.fresh
      /\ k.view = filter.view /\ k.answer = filter.answer /\ k.complete = filter.complete
      /\ k.historic = filter.historic /\ k.deadline = filter.deadline /\ k.polled = filter.polled
  BY <1>1, <1>5 DEF FilterFields, ListenerFields
<1>7. filter' = k
  BY <1>2, <1>4
<1>8. FilterView' = FilterView
  BY <1>6, <1>7 DEF FilterView
<1>9. filter.open /\ filter.fresh /\ ~filter.complete =>
        Tracks(Pending(k.queue, Nothing), FilterView, k.announced, chain, stored, lost)
  BY <1>1, <1>5 DEF FilterOK
<1>10. ListenerOK(k)
  BY <1>1, <1>5, <1>6 DEF FilterOK, ListenerOK
<1>11. filter.phase \in {"none", "reading", "absent"} => Silent(k)
  BY <1>1, <1>5 DEF FilterOK, Silent
<1> QED
  BY <1>1, <1>2, <1>5, <1>6, <1>7, <1>8, <1>9, <1>10, <1>11 DEF FilterOK

LEMMA FilterNew ==
    ASSUME NotificationsInv, NEW historic \in BOOLEAN, NewFilter(historic)
    PROVE  FilterOK'
<1>1. /\ FilterOK /\ DOMAIN filter = FilterFields /\ filter.phase = "none"
      /\ filter' = [filter EXCEPT !.phase = "reading", !.fresh = TRUE,
                                  !.historic = << IF historic THEN LogsSince(0) ELSE {} >>,
                                  !.complete = historic]
  BY DEF NotificationsInv, FilterOK, NewFilter
<1>2. /\ DOMAIN filter' = FilterFields /\ filter'.phase = "reading" /\ filter'.fresh = TRUE
      /\ filter'.historic = << IF historic THEN LogsSince(0) ELSE {} >>
      /\ filter'.complete = historic
      /\ filter'.open = filter.open
      /\ filter'.queue = filter.queue /\ filter'.announced = filter.announced
      /\ filter'.view = filter.view
  BY <1>1 DEF FilterFields, ListenerFields
<1>3. ~historic => Once(filter'.historic) = {}
  BY <1>2 DEF Once
<1>4. Silent(filter) /\ ListenerOK(filter)
  BY <1>1 DEF FilterOK
<1>5. Silent(filter') /\ ListenerOK(filter') /\ ~filter'.open
  BY <1>2, <1>4 DEF Silent, ListenerOK
<1> QED
  BY <1>2, <1>3, <1>5 DEF FilterOK

LEMMA FilterAdded == ASSUME NotificationsInv, AddFilter PROVE FilterOK'
<1>1. /\ FilterOK /\ ChainOK /\ DOMAIN filter = FilterFields /\ filter.phase = "reading"
      /\ filter' = [filter EXCEPT !.phase = "active", !.open = TRUE,
                                  !.deadline = now + Keepalive, !.polled = now]
      /\ UNCHANGED <<storage, miner>>
  BY DEF NotificationsInv, FilterOK, AddFilter
<1>2. /\ DOMAIN filter' = FilterFields /\ filter'.phase = "active" /\ filter'.open = TRUE
      /\ filter'.deadline = now + Keepalive /\ filter'.polled = now
      /\ filter'.fresh = filter.fresh /\ filter'.historic = filter.historic
      /\ filter'.complete = filter.complete
      /\ filter'.queue = filter.queue /\ filter'.announced = filter.announced
      /\ filter'.view = filter.view
  BY <1>1 DEF FilterFields, ListenerFields
<1>3. Silent(filter) /\ ListenerOK(filter) /\ now \in Nat
  BY <1>1 DEF FilterOK, ChainOK
<1>4. Tracks(Pending(<<>>, miner), {}, {}, chain, stored, lost)
  BY <1>1, MinerFacts, TracksOpen
<1>5. Tracks(Pending(filter'.queue, miner'), FilterView', filter'.announced, chain', stored', lost')
  BY <1>1, <1>2, <1>3, <1>4 DEF Silent, FilterView
<1>6. ListenerOK(filter')
  BY <1>2, <1>3 DEF ListenerOK
<1> QED
  BY <1>1, <1>2, <1>3, <1>5, <1>6 DEF FilterOK

LEMMA FilterPolled ==
    ASSUME NotificationsInv, GetFilterChanges \/ PollOne \/ PollEnd \/ GetLogFilter
    PROVE  FilterOK'
<1>0. /\ FilterOK /\ ChainOK /\ DOMAIN filter = FilterFields /\ ListenerOK(filter)
      /\ filter.queue \in Seq(Notes) /\ QueueTold(filter.queue, filter.announced)
      /\ now \in Nat
  BY DEF NotificationsInv, FilterOK, ListenerOK, ChainOK
<1>1. CASE GetFilterChanges
  <2>1. /\ filter.phase = "active" /\ UNCHANGED <<storage, miner>>
        /\ filter' = [filter EXCEPT !.phase = "polling", !.historic = <<>>,
                                    !.answer = filter.view \cup Once(filter.historic)]
    BY <1>1 DEF GetFilterChanges
  <2>2. /\ DOMAIN filter' = FilterFields /\ filter'.phase = "polling" /\ filter'.historic = <<>>
        /\ filter'.answer = filter.view \cup Once(filter.historic)
        /\ filter'.open = filter.open /\ filter'.fresh = filter.fresh
        /\ filter'.complete = filter.complete /\ filter'.queue = filter.queue
        /\ filter'.announced = filter.announced
        /\ filter'.deadline = filter.deadline /\ filter'.polled = filter.polled
    BY <1>0, <2>1 DEF FilterFields, ListenerFields
  <2>3. ~filter.complete => FilterView' = FilterView
    BY <1>0, <2>1, <2>2 DEF FilterOK, FilterView
  <2>4. Once(<<>>) = {}
    BY DEF Once
  <2>5. ListenerOK(filter')
    BY <1>0, <2>2 DEF ListenerOK
  <2> QED
    BY <1>0, <2>1, <2>2, <2>3, <2>4, <2>5 DEF FilterOK
<1>2. CASE PollOne
  <2>1. /\ filter.phase = "polling" /\ filter.queue # <<>> /\ UNCHANGED <<storage, miner>>
        /\ filter' = [filter EXCEPT !.queue = Tail(filter.queue),
                                    !.answer = Applied(filter.answer, Head(filter.queue))]
    BY <1>2 DEF PollOne
  <2>2. /\ DOMAIN filter' = FilterFields /\ filter'.phase = "polling"
        /\ filter'.queue = Tail(filter.queue)
        /\ filter'.answer = Applied(filter.answer, Head(filter.queue))
        /\ filter'.historic = filter.historic
        /\ filter'.open = filter.open /\ filter'.fresh = filter.fresh
        /\ filter'.complete = filter.complete /\ filter'.announced = filter.announced
        /\ filter'.deadline = filter.deadline /\ filter'.polled = filter.polled
    BY <1>0, <2>1 DEF FilterFields, ListenerFields
  <2>3. Tail(filter.queue) \in Seq(Notes) /\ QueueTold(Tail(filter.queue), filter.announced)
    BY <1>0, <2>1, QueueRead
  <2>4. filter.open /\ filter.fresh /\ ~filter.complete =>
          Tracks(Pending(filter.queue, miner), filter.answer, filter.announced, chain, stored, lost)
    BY <1>0, <2>1 DEF FilterOK, FilterView
  <2>5. filter.open /\ filter.fresh /\ ~filter.complete =>
          Tracks(Pending(Tail(filter.queue), miner), Applied(filter.answer, Head(filter.queue)),
                 filter.announced, chain, stored, lost)
    BY <1>0, <2>1, <2>4, PendingRead
  <2>6. FilterView' = Applied(filter.answer, Head(filter.queue))
    BY <2>2 DEF FilterView
  <2>7. ListenerOK(filter')
    BY <1>0, <2>2, <2>3 DEF ListenerOK
  <2> QED
    BY <1>0, <2>1, <2>2, <2>5, <2>6, <2>7 DEF FilterOK
<1>3. CASE PollEnd
  <2>1. /\ filter.phase = "polling" /\ UNCHANGED <<storage, miner>>
        /\ filter' = [filter EXCEPT !.phase = "active", !.view = filter.answer,
                                    !.deadline = now + Keepalive, !.polled = now]
    BY <1>3 DEF PollEnd, NextDeadline
  <2>2. /\ DOMAIN filter' = FilterFields /\ filter'.phase = "active"
        /\ filter'.view = filter.answer
        /\ filter'.deadline = now + Keepalive /\ filter'.polled = now
        /\ filter'.historic = filter.historic
        /\ filter'.open = filter.open /\ filter'.fresh = filter.fresh
        /\ filter'.complete = filter.complete /\ filter'.queue = filter.queue
        /\ filter'.announced = filter.announced
    BY <1>0, <2>1 DEF FilterFields, ListenerFields
  <2>3. FilterView' = FilterView
    BY <2>1, <2>2 DEF FilterView
  <2>4. ListenerOK(filter')
    BY <1>0, <2>2 DEF ListenerOK
  <2> QED
    BY <1>0, <2>1, <2>2, <2>3, <2>4 DEF FilterOK
<1>4. CASE GetLogFilter
  <2>1. /\ filter.phase = "active" /\ UNCHANGED <<storage, miner>>
        /\ filter' = [filter EXCEPT !.deadline = now + Keepalive, !.polled = now]
    BY <1>4 DEF GetLogFilter, NextDeadline
  <2>2. /\ DOMAIN filter' = FilterFields /\ filter'.phase = "active"
        /\ filter'.deadline = now + Keepalive /\ filter'.polled = now
        /\ filter'.historic = filter.historic /\ filter'.view = filter.view
        /\ filter'.open = filter.open /\ filter'.fresh = filter.fresh
        /\ filter'.complete = filter.complete /\ filter'.queue = filter.queue
        /\ filter'.announced = filter.announced
    BY <1>0, <2>1 DEF FilterFields, ListenerFields
  <2>3. FilterView' = FilterView
    BY <2>1, <2>2 DEF FilterView
  <2>4. ListenerOK(filter')
    BY <1>0, <2>2 DEF ListenerOK
  <2> QED
    BY <1>0, <2>1, <2>2, <2>3, <2>4 DEF FilterOK
<1> QED
  BY <1>1, <1>2, <1>3, <1>4

LEMMA FilterGone ==
    ASSUME NotificationsInv, NEW phase \in {"evicted", "uninstalled"}, filter' = Gone(phase)
    PROVE  FilterOK'
<1>1. /\ FilterOK /\ DOMAIN filter = FilterFields /\ ListenerOK(filter)
      /\ filter' = [filter EXCEPT !.phase = phase, !.open = FALSE, !.queue = <<>>]
  BY DEF NotificationsInv, FilterOK, Gone
<1>2. /\ DOMAIN filter' = FilterFields /\ filter'.phase = phase /\ filter'.open = FALSE
      /\ filter'.queue = <<>> /\ filter'.fresh = filter.fresh
      /\ filter'.announced = filter.announced /\ filter'.historic = filter.historic
      /\ filter'.complete = filter.complete
  BY <1>1 DEF FilterFields, ListenerFields
<1>3. <<>> \in Seq(Notes) /\ Len(<<>>) = 0
  BY EmptySeq
<1>4. ListenerOK(filter')
  BY <1>1, <1>2, <1>3 DEF ListenerOK, QueueTold
<1> QED
  BY <1>1, <1>2, <1>4 DEF FilterOK

LEMMA FilterNext == ASSUME NotificationsInv, [Next]_vars PROVE FilterOK'
<1>0. FilterOK
  BY DEF NotificationsInv
<1>1. ASSUME NEW x \in {"log", "none"}, Mine(x) PROVE FilterOK'
  BY <1>1, FilterChain DEF Mine
<1>2. Rollback \/ Revert => FilterOK'
  BY FilterChain DEF Rollback, Revert, Rewind
<1>3. ClearCache => FilterOK'
  BY FilterChain DEF ClearCache
<1>4. \A historic \in {FALSE, Historic} : NewFilter(historic) => FilterOK'
  BY FilterNew, NotificationsAssumption
<1>5. UninstallFilter => FilterOK'
  BY FilterGone DEF UninstallFilter
<1>6. ASSUME UNCHANGED <<filter, miner, storage>> PROVE FilterOK'
  BY <1>0, <1>6, FilterKept
<1>7. Evict => FilterOK'
  <2>1. Evict => (filter' = filter \/ filter' = Gone("evicted")) /\ UNCHANGED <<miner, storage>>
    BY DEF Evict
  <2> QED
    BY <1>6, <2>1, FilterGone
<1>8. EvictBegin \/ Tick \/ FeeServiceTake \/ FeeServiceInsert \/ Subscribe \/ SubscriptionPoll
        => FilterOK'
  BY <1>6 DEF EvictBegin, Tick, FeeServiceTake, FeeServiceInsert, Subscribe, SubscriptionPoll
<1>9. QueryResolve \/ QueryCompute \/ QueryWarm \/ QueryEnd \/ QueryReturn => FilterOK'
  BY <1>6 DEF QueryResolve, QueryCompute, QueryWarm, QueryEnd, QueryReturn
<1>10. \A low : QueryBegin(low) => FilterOK'
  BY <1>6 DEF QueryBegin
<1>11. UNCHANGED vars => FilterOK'
  BY <1>6 DEF vars
<1> QED
  BY <1>1, <1>2, <1>3, <1>4, <1>5, <1>7, <1>8, <1>9, <1>10, <1>11, FilterReset, FilterTold,
     FilterAdded, FilterPolled DEF Next

----------------------------------------------------------------------------
(* The chain and the fee history service *)

LEMMA ChainNext == ASSUME NotificationsInv, [Next]_vars PROVE ChainOK'
<1>0. ChainOK
  BY DEF NotificationsInv
<1>1. ASSUME UNCHANGED <<storage, miner, now, evictor>> PROVE ChainOK'
  BY <1>0, <1>1 DEF ChainOK
<1>2. ASSUME NEW x \in {"log", "none"}, Mine(x) PROVE ChainOK'
  <2>1. Len(chain) \in Nat /\ Keeper \in Nat /\ MaxChain \in Nat
    BY <1>0, NotificationsAssumption DEF ChainOK, Hashes
  <2>2. /\ Len(chain') = Len(chain) + 1 /\ Len(chain') <= MaxChain
        /\ stored' = (stored \cup {Len(chain) + 1}) \ {(Len(chain) + 1) - Keeper}
        /\ stored \subseteq 1..Len(chain) /\ lost' = lost
    BY <1>0, <1>2, MineFacts DEF ChainOK
  <2>3. stored' \subseteq 1..Len(chain')
    <3>1. stored' \subseteq stored \cup {Len(chain) + 1}
      BY <2>2
    <3>2. stored \subseteq 1..Len(chain)
      BY <2>2
    <3>3. \A i \in 1..Len(chain) \cup {Len(chain) + 1} : i \in 1..Len(chain) + 1
      BY <2>1
    <3> QED
      BY <2>2, <3>1, <3>2, <3>3
  <2>4. Keeper >= MaxChain => stored' = 1..Len(chain') /\ lost' = {}
    <3> SUFFICES ASSUME Keeper >= MaxChain PROVE stored' = 1..Len(chain') /\ lost' = {}
      OBVIOUS
    <3>1. stored = 1..Len(chain) /\ lost = {}
      BY <1>0 DEF ChainOK
    <3>2. 1..Len(chain) + 1 = 1..Len(chain) \cup {Len(chain) + 1}
      BY <2>1
    <3>3. (Len(chain) + 1) - Keeper \notin 1..Len(chain) + 1
      BY <2>1, <2>2
    <3>4. stored' = 1..Len(chain) + 1
      BY <2>2, <3>1, <3>2, <3>3
    <3> QED
      BY <2>2, <3>1, <3>4
  <2> QED
    BY <1>0, <1>2, <2>3, <2>4, MineFacts DEF ChainOK
<1>3. ASSUME NEW n \in 0..Len(chain) - 1, Rewind(n) PROVE ChainOK'
  <2>1. /\ n < Len(chain) /\ chain' \in Hashes /\ Len(chain') = n
        /\ UNCHANGED <<now, evictor>> /\ miner' \in Notes \cup {Nothing}
        /\ stored' = stored \cap 1..n
        /\ lost' = lost \cup {h \in Logs(chain) : Len(h) > n /\ Len(h) \notin stored}
    BY <1>0, <1>3, RewindFacts
  <2>2. Len(chain) \in Nat /\ MaxChain \in Nat
    BY <1>0, NotificationsAssumption DEF ChainOK, Hashes
  <2>3. Keeper >= MaxChain => stored' = 1..Len(chain') /\ lost' = {}
    <3>1. \A h \in Logs(chain) : Len(h) \in 1..Len(chain)
      BY <1>0, LogFacts DEF ChainOK
    <3> QED
      BY <1>0, <2>1, <2>2, <3>1 DEF ChainOK
  <2> QED
    BY <1>0, <2>1, <2>2, <2>3 DEF ChainOK
<1>4. Rollback \/ Revert => ChainOK'
  BY <1>3 DEF Rollback, Revert
<1>5. ResetChain => ChainOK'
  <2> SUFFICES ASSUME ResetChain PROVE ChainOK'
    OBVIOUS
  <2>1. <<>> \in Hashes /\ Len(<<>>) = 0 /\ MaxChain \in Nat
    BY NotificationsAssumption DEF Hashes
  <2>2. chain' = <<>> /\ stored' = {} /\ miner' = Clearing /\ UNCHANGED <<lost, now, evictor>>
    BY DEF ResetChain
  <2>3. 1..0 = {}
    OBVIOUS
  <2>4. stored' \subseteq 1..Len(chain')
    BY <2>2
  <2>5. Keeper >= MaxChain => stored' = 1..Len(chain') /\ lost' = {}
    BY <1>0, <2>1, <2>2, <2>3 DEF ChainOK
  <2> QED
    BY <1>0, <2>1, <2>2, <2>4, <2>5 DEF ResetChain, ChainOK
<1>6. ClearCache \/ Notify => ChainOK'
  BY <1>0 DEF ClearCache, Notify, ChainOK
<1>7. EvictBegin \/ Evict \/ Tick => ChainOK'
  <2>1. now \in Nat /\ evictor \in -1..now
    BY <1>0 DEF ChainOK
  <2>2. ASSUME EvictBegin \/ Evict \/ Tick
        PROVE  now' \in Nat /\ evictor' \in -1..now' /\ UNCHANGED <<storage, miner>>
    BY <2>1, <2>2 DEF EvictBegin, Evict, Tick
  <2> QED
    BY <1>0, <2>2 DEF ChainOK
<1>8. Subscribe \/ SubscriptionPoll \/ FeeServiceTake \/ FeeServiceInsert => ChainOK'
  BY <1>1 DEF Subscribe, SubscriptionPoll, FeeServiceTake, FeeServiceInsert
<1>9. \A historic : NewFilter(historic) => ChainOK'
  BY <1>1 DEF NewFilter
<1>10. AddFilter \/ GetFilterChanges \/ PollOne \/ PollEnd \/ GetLogFilter \/ UninstallFilter
         => ChainOK'
  BY <1>1 DEF AddFilter, GetFilterChanges, PollOne, PollEnd, GetLogFilter, UninstallFilter
<1>11. QueryResolve \/ QueryCompute \/ QueryWarm \/ QueryEnd \/ QueryReturn => ChainOK'
  BY <1>1 DEF QueryResolve, QueryCompute, QueryWarm, QueryEnd, QueryReturn
<1>12. \A low : QueryBegin(low) => ChainOK'
  BY <1>1 DEF QueryBegin
<1>13. UNCHANGED vars => ChainOK'
  BY <1>1 DEF vars
<1> QED
  BY <1>2, <1>4, <1>5, <1>6, <1>7, <1>8, <1>9, <1>10, <1>11, <1>12, <1>13 DEF Next

LEMMA FeesNext == ASSUME NotificationsInv, [Next]_vars PROVE FeesOK'
<1>0. FeesOK /\ ChainOK
  BY DEF NotificationsInv
<1>1. ASSUME UNCHANGED fees PROVE FeesOK'
  BY <1>0, <1>1 DEF FeesOK
<1>2. ASSUME Notify PROVE FeesOK'
  <2>1. miner \in Notes /\ fees' = Told(fees)
    BY <1>0, <1>2, MinerFacts DEF Notify
  <2>2. /\ {"open", "queue", "announced"} \subseteq DOMAIN fees
        /\ fees.queue \in Seq(Notes) /\ fees.open \in BOOLEAN
    BY <1>0 DEF FeesOK
  <2>3. /\ DOMAIN fees' = DOMAIN fees /\ fees'.queue \in Seq(Notes)
        /\ \A f \in DOMAIN fees \ {"queue", "announced"} : fees'[f] = fees[f]
    BY <2>1, <2>2, ToldFacts
  <2> QED
    BY <1>0, <2>3 DEF FeesOK
<1>3. ASSUME FeeServiceTake PROVE FeesOK'
  <2>1. PICK q \in Seq(Notes) : q = fees.queue /\ q # <<>>
    BY <1>0, <1>3 DEF FeesOK, FeeServiceTake
  <2>2. Tail(q) \in Seq(Notes) /\ Head(q) \in Notes
    BY <2>1, HeadTailProperties
  <2>3. Head(q).hash \in Hashes /\ <<>> \in Hashes
    BY <2>2, NoteFacts DEF Hashes
  <2>4. PICK h \in Hashes : fees' = [fees EXCEPT !.queue = Tail(q), !.item = h]
    BY <1>3, <2>1, <2>3 DEF FeeServiceTake
  <2> QED
    BY <1>0, <2>2, <2>4 DEF FeesOK
<1>4. ASSUME FeeServiceInsert PROVE FeesOK'
  <2>1. <<>> \in Hashes
    BY DEF Hashes
  <2> QED
    BY <1>0, <1>4, <2>1 DEF FeesOK, FeeServiceInsert
<1>5. \A x : Mine(x) => FeesOK'
  BY <1>1 DEF Mine
<1>6. Rollback \/ Revert \/ ResetChain \/ ClearCache => FeesOK'
  BY <1>1 DEF Rollback, Revert, Rewind, ResetChain, ClearCache
<1>7. Subscribe \/ SubscriptionPoll \/ EvictBegin \/ Evict \/ Tick => FeesOK'
  BY <1>1 DEF Subscribe, SubscriptionPoll, EvictBegin, Evict, Tick
<1>8. \A historic : NewFilter(historic) => FeesOK'
  BY <1>1 DEF NewFilter
<1>9. AddFilter \/ GetFilterChanges \/ PollOne \/ PollEnd \/ GetLogFilter \/ UninstallFilter
        => FeesOK'
  BY <1>1 DEF AddFilter, GetFilterChanges, PollOne, PollEnd, GetLogFilter, UninstallFilter
<1>10. QueryResolve \/ QueryCompute \/ QueryWarm \/ QueryEnd \/ QueryReturn => FeesOK'
  BY <1>1 DEF QueryResolve, QueryCompute, QueryWarm, QueryEnd, QueryReturn
<1>11. \A low : QueryBegin(low) => FeesOK'
  BY <1>1 DEF QueryBegin
<1>12. UNCHANGED vars => FeesOK'
  BY <1>1 DEF vars
<1> QED
  BY <1>2, <1>3, <1>4, <1>5, <1>6, <1>7, <1>8, <1>9, <1>10, <1>11, <1>12 DEF Next

----------------------------------------------------------------------------
(* The fee history cache *)

LEMMA LeastNumber ==
    ASSUME NEW S, S \subseteq Nat, S # {}
    PROVE  \E x \in S : \A y \in S : x <= y
<1> DEFINE R == {ss \in Nat \X Nat : ss[1] < ss[2]}
<1>1. IsWellFoundedOn(R, Nat)
  BY NatLessThanWellFounded DEF OpToRel
<1>2. \E x \in S : \A y \in S : <<y, x>> \notin R
  <2> HIDE DEF R
  <2> QED
    BY <1>1, WFMin
<1>3. PICK x \in S : \A y \in S : <<y, x>> \notin R
  BY <1>2
<1>4. ASSUME NEW y \in S PROVE x <= y
  <2>1. x \in Nat /\ y \in Nat /\ <<y, x>> \notin R
    BY <1>3
  <2> QED
    BY <2>1
<1> QED
  BY <1>3, <1>4

\* Of the blocks of a cache, no more than the limit are its newest.
LEMMA NewestFacts ==
    ASSUME NEW S, S \subseteq Nat, IsFiniteSet(S)
    PROVE  /\ Newest(S) \subseteq S /\ IsFiniteSet(Newest(S))
           /\ Cardinality(Newest(S)) <= FeeLimit
<1>0. FeeLimit \in Nat /\ FeeLimit > 0
  BY NotificationsAssumption
<1>1. PICK N : N = Newest(S)
  OBVIOUS
<1>2. N \subseteq S
  BY <1>1 DEF Newest
<1>3. IsFiniteSet(N)
  BY <1>2, FS_Subset
<1>4. Cardinality(N) <= FeeLimit
  <2>1. CASE N = {}
    BY <1>0, <2>1, FS_EmptySet
  <2>2. CASE N # {}
    <3>1. PICK x \in N : \A y \in N : x <= y
      BY <1>2, <2>2, LeastNumber
    <3>2. PICK A : A = {k \in S : k > x}
      OBVIOUS
    <3>3. Cardinality(A) < FeeLimit
      BY <1>1, <3>1, <3>2 DEF Newest
    <3>4. N \ {x} \subseteq A
      <4>1. ASSUME NEW y \in N \ {x} PROVE y \in S /\ y > x
        <5>1. x \in Nat /\ y \in Nat /\ x <= y /\ x # y /\ y \in S
          BY <1>2, <3>1
        <5> QED
          BY <5>1
      <4> QED
        BY <3>2, <4>1
    <3>5. IsFiniteSet(A)
      BY <3>2, FS_Subset
    <3>6. Cardinality(N \ {x}) <= Cardinality(A) /\ Cardinality(A) \in Nat
      BY <3>4, <3>5, FS_Subset, FS_CardinalityType
    <3>7. Cardinality(N \ {x}) = Cardinality(N) - 1 /\ Cardinality(N) \in Nat
      BY <1>3, <3>1, FS_RemoveElement, FS_CardinalityType
    <3> QED
      BY <1>0, <3>3, <3>6, <3>7
  <2> QED
    BY <2>1, <2>2
<1> QED
  BY <1>1, <1>2, <1>3, <1>4

LEMMA InsertedFacts ==
    ASSUME CacheOK(cache), NEW h \in Hashes
    PROVE  LET c == Inserted(cache, Len(h), h)
           IN  CacheOK(c) /\ Cardinality(DOMAIN c) <= FeeLimit
<1>1. PICK n \in Nat : n = Len(h)
  BY DEF Hashes
<1>2. PICK S : S = DOMAIN cache \cup {n}
  OBVIOUS
<1>3. S \subseteq Nat /\ IsFiniteSet(S)
  BY <1>2, FS_AddElement DEF CacheOK
<1>4. PICK c : c = Inserted(cache, Len(h), h)
  OBVIOUS
<1>5. c = [m \in Newest(S) |-> IF m = n THEN h ELSE cache[m]]
  BY <1>1, <1>2, <1>4 DEF Inserted
<1>6. /\ Newest(S) \subseteq S /\ IsFiniteSet(Newest(S)) /\ Cardinality(Newest(S)) <= FeeLimit
  BY <1>3, NewestFacts
<1>7. DOMAIN c = Newest(S) /\ \A m \in Newest(S) : c[m] = IF m = n THEN h ELSE cache[m]
  BY <1>5
<1>8. ASSUME NEW m \in DOMAIN c PROVE c[m] \in Hashes /\ Len(c[m]) = m
  <2>1. CASE m = n
    <3>1. c[m] = h
      BY <1>7, <2>1
    <3> QED
      BY <1>1, <2>1, <3>1
  <2>2. CASE m # n
    <3>1. m \in DOMAIN cache /\ c[m] = cache[m]
      BY <1>2, <1>6, <1>7, <2>2
    <3> QED
      BY <3>1 DEF CacheOK
  <2> QED
    BY <2>1, <2>2
<1> QED
  BY <1>3, <1>4, <1>6, <1>7, <1>8 DEF CacheOK

LEMMA WarmedFacts ==
    ASSUME CacheOK(cache), NEW hs, hs \subseteq Hashes, IsFiniteSet(hs)
    PROVE  LET c == Warmed(cache, hs)
           IN  CacheOK(c) /\ Cardinality(DOMAIN c) <= FeeLimit
<1>1. PICK L : L = {Len(h) : h \in hs}
  OBVIOUS
<1>2. L \subseteq Nat /\ \A n \in L : \E h \in hs : Len(h) = n
  BY <1>1 DEF Hashes
<1>3. IsFiniteSet(L)
  <2>1. PICK f : f = [h \in hs |-> Len(h)]
    OBVIOUS
  <2>2. f \in [hs -> L] /\ \A n \in L : \E h \in hs : f[h] = n
    BY <1>1, <2>1
  <2>3. f \in Surjection(hs, L)
    BY <2>2 DEF Surjection
  <2> QED
    BY <2>3, FS_Surjection
<1>4. PICK S : S = DOMAIN cache \cup L
  OBVIOUS
<1>5. S \subseteq Nat /\ IsFiniteSet(S)
  BY <1>2, <1>3, <1>4, FS_Union DEF CacheOK
<1>6. PICK c : c = Warmed(cache, hs)
  OBVIOUS
<1>7. c = [n \in Newest(S) |->
              IF \E h \in hs : Len(h) = n THEN CHOOSE h \in hs : Len(h) = n ELSE cache[n]]
  BY <1>1, <1>4, <1>6 DEF Warmed
<1>8. /\ Newest(S) \subseteq S /\ IsFiniteSet(Newest(S)) /\ Cardinality(Newest(S)) <= FeeLimit
  BY <1>5, NewestFacts
<1>9. DOMAIN c = Newest(S)
  BY <1>7
<1>10. ASSUME NEW n \in DOMAIN c PROVE c[n] \in Hashes /\ Len(c[n]) = n
  <2>1. CASE \E h \in hs : Len(h) = n
    <3>1. c[n] = CHOOSE h \in hs : Len(h) = n
      BY <1>7, <1>9, <2>1
    <3>2. c[n] \in hs /\ Len(c[n]) = n
      BY <2>1, <3>1
    <3> QED
      BY <3>2
  <2>2. CASE ~\E h \in hs : Len(h) = n
    <3>1. c[n] = cache[n] /\ n \in DOMAIN cache
      BY <1>2, <1>4, <1>7, <1>8, <1>9, <2>2
    <3> QED
      BY <3>1 DEF CacheOK
  <2> QED
    BY <2>1, <2>2
<1> QED
  BY <1>5, <1>6, <1>8, <1>9, <1>10 DEF CacheOK

LEMMA CacheNext ==
    ASSUME NotificationsInv, [Next]_vars
    PROVE  CacheOK(cache') /\ Cardinality(DOMAIN cache') <= FeeLimit
<1> DEFINE Good == CacheOK(cache') /\ Cardinality(DOMAIN cache') <= FeeLimit
<1>0. CacheOK(cache) /\ Cardinality(DOMAIN cache) <= FeeLimit /\ FeesOK /\ QueryOK
  BY DEF NotificationsInv
<1>1. ASSUME UNCHANGED cache PROVE Good
  BY <1>0, <1>1
<1>2. FeeServiceInsert => Good
  <2>1. FeeServiceInsert => cache' = Inserted(cache, Len(fees.item), fees.item)
    BY DEF FeeServiceInsert
  <2>2. fees.item \in Hashes
    BY <1>0 DEF FeesOK
  <2> QED
    BY <1>0, <2>1, <2>2, InsertedFacts
<1>3. QueryWarm => Good
  <2>1. QueryWarm => /\ cache' = Warmed(cache, query.warmed)
                     /\ query.warmed \subseteq Hashes /\ IsFiniteSet(query.warmed)
    BY <1>0 DEF QueryWarm, QueryOK, QueryFits
  <2> QED
    BY <1>0, <2>1, WarmedFacts
<1>4. ClearCache => Good
  <2>1. DOMAIN <<>> = {}
    OBVIOUS
  <2>2. IsFiniteSet({}) /\ Cardinality({}) = 0 /\ FeeLimit \in Nat
    BY FS_EmptySet, NotificationsAssumption
  <2>3. CacheOK(<<>>) /\ Cardinality(DOMAIN <<>>) <= FeeLimit
    BY <2>1, <2>2 DEF CacheOK
  <2> QED
    BY <2>3 DEF ClearCache
<1> HIDE DEF Good
<1>5. \A x : Mine(x) => Good
  BY <1>1 DEF Mine
<1>6. Rollback \/ Revert \/ ResetChain \/ Notify => Good
  BY <1>1 DEF Rollback, Revert, Rewind, ResetChain, Notify
<1>7. Subscribe \/ SubscriptionPoll \/ EvictBegin \/ Evict \/ Tick \/ FeeServiceTake => Good
  BY <1>1 DEF Subscribe, SubscriptionPoll, EvictBegin, Evict, Tick, FeeServiceTake
<1>8. \A historic : NewFilter(historic) => Good
  BY <1>1 DEF NewFilter
<1>9. AddFilter \/ GetFilterChanges \/ PollOne \/ PollEnd \/ GetLogFilter \/ UninstallFilter
        => Good
  BY <1>1 DEF AddFilter, GetFilterChanges, PollOne, PollEnd, GetLogFilter, UninstallFilter
<1>10. QueryResolve \/ QueryCompute \/ QueryEnd \/ QueryReturn => Good
  BY <1>1 DEF QueryResolve, QueryCompute, QueryEnd, QueryReturn
<1>11. \A low : QueryBegin(low) => Good
  BY <1>1 DEF QueryBegin
<1>12. UNCHANGED vars => Good
  BY <1>1 DEF vars
<1>13. Good
  BY <1>2, <1>3, <1>4, <1>5, <1>6, <1>7, <1>8, <1>9, <1>10, <1>11, <1>12 DEF Next
<1> QED
  BY <1>13 DEF Good

----------------------------------------------------------------------------
(* The request for the fee history *)

LEMMA NoQueryFits == \A c : QueryFits(NoQuery, c)
BY DEF QueryFits, NoQuery, QueryFields

\* A request under way sees a change of the chain; nothing else of it changes.
LEMMA WitnessedFacts ==
    ASSUME QueryOK, query.phase # "idle", NEW c
    PROVE  /\ DOMAIN Witnessed(c) = QueryFields
           /\ \A f \in QueryFields \ {"during"} : Witnessed(c)[f] = query[f]
           /\ query.during \subseteq Witnessed(c).during
           /\ \A n \in 1..Len(c) : SubSeq(c, 1, n) \in Witnessed(c).during
<1>1. DOMAIN query = QueryFields
  BY DEF QueryOK, QueryFits
<1>2. Witnessed(c) =
        [query EXCEPT !.during = query.during \cup {SubSeq(c, 1, n) : n \in 1..Len(c)}]
  BY DEF Witnessed
<1> QED
  BY <1>1, <1>2 DEF QueryFields

LEMMA QueryMine ==
    ASSUME ChainOK, QueryOK, NEW x \in {"log", "none"}, Mine(x)
    PROVE  QueryOK'
<1>1. query' = Witnessed(chain') /\ chain' = Append(chain, x)
  BY MineFacts
<1>2. CASE query.phase = "idle"
  BY <1>1, <1>2, NoQueryFits DEF Witnessed, QueryOK, QueryFits
<1>3. CASE query.phase # "idle"
  <2>1. PICK c \in Hashes : c = chain
    BY DEF ChainOK
  <2>2. PICK d \in Hashes : d = Append(c, x)
    BY PrefixOfLonger
  <2>3. Len(d) = Len(c) + 1 /\ Len(c) \in Nat /\ \A k \in 0..Len(c) : SubSeq(d, 1, k) = SubSeq(c, 1, k)
    BY <2>2, PrefixOfLonger DEF Hashes
  <2>4. PICK q : q = query
    OBVIOUS
  <2>5. PICK w : w = Witnessed(d)
    OBVIOUS
  <2>6. QueryFits(q, c)
    BY <2>1, <2>4 DEF QueryOK
  <2>7. /\ DOMAIN w = QueryFields /\ w.phase = q.phase /\ w.low = q.low /\ w.high = q.high
        /\ w.items = q.items /\ w.warmed = q.warmed /\ w.hash = q.hash /\ w.reverted = q.reverted
        /\ q.during \subseteq w.during
        /\ \A n \in 1..Len(d) : SubSeq(d, 1, n) \in w.during
    BY <1>3, <2>4, <2>5, WitnessedFacts DEF QueryFields
  <2>8. QueryFits(w, d)
    <3>1. /\ q.high \in Nat /\ q.low \in 1..q.high /\ Len(q.items) \in Nat
          /\ q.low + Len(q.items) <= q.high + 1
      BY <1>3, <2>4, <2>6 DEF QueryFits
    <3>2. ASSUME q.phase \in {"resolving", "resolved"}, ~q.reverted
          PROVE  /\ q.high <= Len(d)
                 /\ \A i \in 1..Len(q.items) : q.items[i] = SubSeq(d, 1, q.low + i - 1)
                 /\ q.hash # <<>> => q.hash = SubSeq(d, 1, q.low + Len(q.items))
      <4>1. /\ q.high <= Len(c)
            /\ \A i \in 1..Len(q.items) : q.items[i] = SubSeq(c, 1, q.low + i - 1)
            /\ q.hash # <<>> => /\ q.hash = SubSeq(c, 1, q.low + Len(q.items))
                                /\ q.low + Len(q.items) <= q.high
        BY <2>6, <3>2 DEF QueryFits
      <4>2. \A i \in 1..Len(q.items) : q.low + i - 1 \in 0..Len(c)
        BY <2>3, <3>1, <4>1
      <4>3. q.hash # <<>> => q.low + Len(q.items) \in 0..Len(c)
        BY <2>3, <3>1, <4>1
      <4>4. q.high <= Len(d)
        BY <2>3, <3>1, <4>1
      <4> QED
        BY <2>3, <4>1, <4>2, <4>3, <4>4
    <3> QED
      BY <1>3, <2>4, <2>6, <2>7, <3>2 DEF QueryFits
  <2> QED
    BY <1>1, <2>1, <2>2, <2>5, <2>8 DEF QueryOK
<1> QED
  BY <1>2, <1>3

\* A rewind beside a request is that of a revert, and is on record.
LEMMA QueryRewound ==
    ASSUME ChainOK, QueryOK, Rollback \/ Revert \/ ResetChain
    PROVE  QueryOK'
<1>1. CASE query.phase = "idle"
  <2>1. query = NoQuery
    BY <1>1 DEF QueryOK, QueryFits
  <2>2. Rollback \/ ResetChain => query' = query
    BY <1>1 DEF Rollback, ResetChain, Witnessed
  <2>3. Revert => query' = [query EXCEPT !.reverted = FALSE]
    BY <1>1 DEF Revert, Witnessed
  <2>4. [NoQuery EXCEPT !.reverted = FALSE] = NoQuery
    <3>1. PICK q : q = NoQuery
      OBVIOUS
    <3>2. q = [f \in DOMAIN q |-> q[f]] /\ "reverted" \in DOMAIN q /\ q.reverted = FALSE
      BY <3>1 DEF NoQuery
    <3> QED
      BY <3>1, <3>2
  <2> QED
    BY <2>1, <2>2, <2>3, <2>4, NoQueryFits DEF QueryOK
<1>2. CASE query.phase # "idle"
  <2>1. PICK n \in 0..Len(chain) - 1 : Rewind(n)
    BY <1>2 DEF Rollback, ResetChain, LifecycleFree, Revert
  <2>2. query' = [Witnessed(chain') EXCEPT !.reverted = TRUE]
    BY <1>2 DEF Rollback, ResetChain, LifecycleFree, Revert
  <2>3. PICK d \in Hashes : d = chain'
    BY <2>1, RewindFacts
  <2>4. PICK q : q = query
    OBVIOUS
  <2>5. PICK w : w = Witnessed(d)
    OBVIOUS
  <2>6. QueryFits(q, chain)
    BY <2>4 DEF QueryOK
  <2>7. /\ DOMAIN w = QueryFields /\ w.phase = q.phase /\ w.low = q.low /\ w.high = q.high
        /\ w.items = q.items /\ w.warmed = q.warmed /\ w.hash = q.hash
        /\ q.during \subseteq w.during
        /\ \A k \in 1..Len(d) : SubSeq(d, 1, k) \in w.during
    BY <1>2, <2>4, <2>5, WitnessedFacts DEF QueryFields
  <2>8. PICK u : u = [w EXCEPT !.reverted = TRUE]
    OBVIOUS
  <2>9. /\ DOMAIN u = QueryFields /\ u.phase = q.phase /\ u.low = q.low /\ u.high = q.high
        /\ u.items = q.items /\ u.warmed = q.warmed /\ u.hash = q.hash /\ u.reverted = TRUE
        /\ u.during = w.during
    BY <2>7, <2>8 DEF QueryFields
  <2>10. QueryFits(u, d)
    BY <1>2, <2>4, <2>6, <2>7, <2>9 DEF QueryFits
  <2> QED
    BY <2>2, <2>3, <2>5, <2>8, <2>10 DEF QueryOK
<1> QED
  BY <1>1, <1>2

LEMMA QueryBegun ==
    ASSUME ChainOK, NEW low \in 1..Len(chain), QueryBegin(low)
    PROVE  QueryOK'
<1>1. PICK c \in Hashes : c = chain /\ Len(c) \in Nat
  BY DEF ChainOK, Hashes
<1>2. PICK q : q = query'
  OBVIOUS
<1>3. q = [NoQuery EXCEPT !.phase = "resolving", !.low = low, !.high = Len(c), !.cached = cache,
                          !.during = {SubSeq(c, 1, n) : n \in 1..Len(c)}]
  BY <1>1, <1>2 DEF QueryBegin, Prefix
<1>4. /\ DOMAIN q = QueryFields /\ q.phase = "resolving" /\ q.low = low /\ q.high = Len(c)
      /\ q.items = <<>> /\ q.hash = <<>> /\ q.warmed = {} /\ q.reverted = FALSE
      /\ q.during = {SubSeq(c, 1, n) : n \in 1..Len(c)}
  BY <1>3 DEF NoQuery, QueryFields
<1>5. <<>> \in Hashes /\ <<>> \in Seq(Hashes) /\ Len(<<>>) = 0 /\ IsFiniteSet({})
  BY FS_EmptySet, EmptySeq DEF Hashes
<1>6. QueryFits(q, c)
  <2>1. \A n \in 1..Len(c) : SubSeq(c, 1, n) \in q.during
    BY <1>4
  <2>2. low \in 1..Len(c) /\ low + 0 <= Len(c) + 1
    BY <1>1
  <2>3. \A i \in 1..Len(q.items) : FALSE
    BY <1>4, <1>5
  <2>4. q.low + Len(q.items) <= q.high + 1 /\ q.high \in Nat /\ q.low \in 1..q.high
    BY <1>1, <1>4, <1>5, <2>2
  <2>5. q.items \in Seq(Hashes) /\ q.hash \in Hashes
    BY <1>4, <1>5
  <2>6. q.warmed \subseteq Hashes /\ IsFiniteSet(q.warmed)
    BY <1>4, <1>5
  <2>7. q.high <= Len(c) /\ ~(q.hash # <<>>)
    BY <1>1, <1>4
  <2> QED
    BY <1>4, <2>1, <2>3, <2>4, <2>5, <2>6, <2>7 DEF QueryFits
<1>7. chain' = chain
  BY DEF QueryBegin
<1> QED
  BY <1>1, <1>2, <1>6, <1>7 DEF QueryOK

\* One more entry, of the block the request is at, whatever it was made of.
LEMMA OneMoreEntry ==
    ASSUME NEW c \in Hashes, NEW q, NEW w, QueryFits(q, c), q.phase = "resolving",
           NEW h \in Hashes, h \in q.during, q.low + Len(q.items) <= q.high,
           ~q.reverted => h = SubSeq(c, 1, q.low + Len(q.items)),
           DOMAIN w = QueryFields, w.phase = "resolving", w.low = q.low, w.high = q.high,
           w.items = Append(q.items, h), w.hash = <<>>,
           w.warmed \subseteq q.warmed \cup {h},
           w.during = q.during, w.reverted = q.reverted
    PROVE  QueryFits(w, c)
<1>1. PICK s \in Seq(Hashes) : s = q.items
  BY DEF QueryFits
<1>2. PICK t \in Seq(Hashes) : t = Append(s, h)
  BY AppendProperties
<1>3. /\ Len(t) = Len(s) + 1 /\ Len(s) \in Nat /\ t[Len(s) + 1] = h
      /\ \A i \in 1..Len(s) : t[i] = s[i]
  BY <1>2, AppendProperties
<1>4. \A i \in 1..Len(t) : i \in 1..Len(s) \/ i = Len(s) + 1
  BY <1>3
<1>5. /\ q.high \in Nat /\ q.low \in 1..q.high
      /\ q.warmed \subseteq Hashes /\ IsFiniteSet(q.warmed)
      /\ \A n \in 1..Len(c) : SubSeq(c, 1, n) \in q.during
      /\ \A i \in 1..Len(s) : s[i] \in q.during
      /\ ~q.reverted => /\ q.high <= Len(c)
                        /\ \A i \in 1..Len(s) : s[i] = SubSeq(c, 1, q.low + i - 1)
  BY <1>1 DEF QueryFits
<1>6. \A i \in 1..Len(t) : t[i] \in q.during
  BY <1>3, <1>4, <1>5
<1>7. q.low + Len(t) <= q.high + 1 /\ q.low + (Len(s) + 1) - 1 = q.low + Len(s)
  BY <1>1, <1>3, <1>5
<1>8. ~q.reverted => \A i \in 1..Len(t) : t[i] = SubSeq(c, 1, q.low + i - 1)
  <2>1. ASSUME ~q.reverted, NEW i \in 1..Len(t) PROVE t[i] = SubSeq(c, 1, q.low + i - 1)
    <3>1. CASE i \in 1..Len(s)
      BY <1>3, <1>5, <2>1, <3>1
    <3>2. CASE i = Len(s) + 1
      BY <1>1, <1>3, <1>7, <2>1, <3>2
    <3> QED
      BY <1>4, <3>1, <3>2
  <2> QED
    BY <2>1
<1>9. w.warmed \subseteq Hashes /\ IsFiniteSet(w.warmed)
  <2>1. IsFiniteSet(q.warmed \cup {h})
    BY <1>5, FS_AddElement
  <2> QED
    BY <1>5, <2>1, FS_Subset
<1>10. <<>> \in Hashes /\ q.reverted \in BOOLEAN
  BY DEF Hashes, QueryFits
<1>11. w.items = t
  BY <1>1, <1>2
<1> QED
  BY <1>5, <1>6, <1>7, <1>8, <1>9, <1>10, <1>11 DEF QueryFits

LEMMA QueryResolved == ASSUME ChainOK, QueryOK, QueryResolve PROVE QueryOK'
<1>0. PICK c \in Hashes : c = chain /\ Len(c) \in Nat
  BY DEF ChainOK, Hashes
<1>1. PICK q : q = query /\ QueryFits(q, c)
  BY <1>0 DEF QueryOK
<1>2. PICK k : k = q.low + Len(q.items)
  OBVIOUS
<1>3. /\ chain' = c /\ q.phase = "resolving" /\ q.hash = <<>> /\ k <= q.high
      /\ \/ query' = NoQuery
         \/ /\ ~(k > Len(c)) /\ q.cached[k] = SubSeq(c, 1, k)
            /\ query' = [q EXCEPT !.items = Append(q.items, q.cached[k])]
         \/ /\ ~(k > Len(c)) /\ query' = [q EXCEPT !.hash = SubSeq(c, 1, k)]
  BY <1>0, <1>1, <1>2 DEF QueryResolve, At, Usable, Prefix, Fail
<1>4. /\ DOMAIN q = QueryFields /\ q.high \in Nat /\ q.low \in 1..q.high
      /\ Len(q.items) \in Nat /\ q.items \in Seq(Hashes)
      /\ \A n \in 1..Len(c) : SubSeq(c, 1, n) \in q.during
  BY <1>1, <1>3 DEF QueryFits
<1>5. k \in Nat /\ k >= 1
  BY <1>2, <1>4
<1>6. PICK w : w = query'
  OBVIOUS
<1>7. CASE w = NoQuery
  BY <1>3, <1>6, <1>7, NoQueryFits DEF QueryOK
<1>8. ASSUME ~(k > Len(c))
      PROVE  k \in 1..Len(c) /\ SubSeq(c, 1, k) \in Hashes /\ SubSeq(c, 1, k) \in q.during
  <2>1. k \in 0..Len(c) /\ k \in 1..Len(c)
    BY <1>0, <1>5, <1>8
  <2> QED
    BY <1>4, <2>1, PrefixFacts
<1>9. CASE /\ ~(k > Len(c)) /\ q.cached[k] = SubSeq(c, 1, k)
           /\ w = [q EXCEPT !.items = Append(q.items, q.cached[k])]
  <2>1. PICK h \in Hashes : h = SubSeq(c, 1, k) /\ h \in q.during
    BY <1>8, <1>9
  <2>2. /\ DOMAIN w = QueryFields /\ w.phase = q.phase /\ w.low = q.low /\ w.high = q.high
        /\ w.items = Append(q.items, h) /\ w.hash = q.hash /\ w.warmed = q.warmed
        /\ w.during = q.during /\ w.reverted = q.reverted
    BY <1>4, <1>9, <2>1 DEF QueryFields
  <2>3. QueryFits(w, c)
    BY <1>1, <1>2, <1>3, <2>1, <2>2, OneMoreEntry
  <2> QED
    BY <1>3, <1>6, <2>3 DEF QueryOK
<1>10. CASE ~(k > Len(c)) /\ w = [q EXCEPT !.hash = SubSeq(c, 1, k)]
  <2>1. PICK h \in Hashes : h = SubSeq(c, 1, k)
    BY <1>8, <1>10
  <2>2. /\ DOMAIN w = QueryFields /\ w.phase = q.phase /\ w.low = q.low /\ w.high = q.high
        /\ w.items = q.items /\ w.hash = h /\ w.warmed = q.warmed
        /\ w.during = q.during /\ w.reverted = q.reverted
    BY <1>4, <1>10, <2>1 DEF QueryFields
  <2>3. QueryFits(w, c)
    BY <1>1, <1>2, <1>3, <2>1, <2>2 DEF QueryFits
  <2> QED
    BY <1>3, <1>6, <2>3 DEF QueryOK
<1> QED
  BY <1>3, <1>6, <1>7, <1>9, <1>10

LEMMA QueryComputed == ASSUME ChainOK, QueryOK, QueryCompute PROVE QueryOK'
<1>0. PICK c \in Hashes : c = chain /\ Len(c) \in Nat
  BY DEF ChainOK, Hashes
<1>1. PICK q : q = query /\ QueryFits(q, c)
  BY <1>0 DEF QueryOK
<1>2. PICK h : h = q.hash
  OBVIOUS
<1>3. /\ chain' = c /\ q.phase = "resolving" /\ h # <<>>
      /\ \/ query' = NoQuery
         \/ /\ Len(h) <= Len(c) /\ h = SubSeq(c, 1, Len(h))
            /\ query' = [q EXCEPT !.items = Append(q.items, h),
                                  !.warmed = q.warmed \cup {h}, !.hash = <<>>]
  BY <1>0, <1>1, <1>2 DEF QueryCompute, Canonical, Prefix, Fail
<1>4. PICK w : w = query'
  OBVIOUS
<1>5. CASE w = NoQuery
  BY <1>3, <1>4, <1>5, NoQueryFits DEF QueryOK
<1>6. CASE /\ Len(h) <= Len(c) /\ h = SubSeq(c, 1, Len(h))
           /\ w = [q EXCEPT !.items = Append(q.items, h),
                            !.warmed = q.warmed \cup {h}, !.hash = <<>>]
  <2>1. /\ DOMAIN q = QueryFields /\ h \in Hashes
        /\ \A n \in 1..Len(c) : SubSeq(c, 1, n) \in q.during
        /\ q.low + Len(q.items) <= q.high
        /\ ~q.reverted => h = SubSeq(c, 1, q.low + Len(q.items))
    BY <1>1, <1>2, <1>3 DEF QueryFits
  <2>2. Len(h) \in 1..Len(c)
    <3>1. Len(h) \in Nat /\ Len(h) # 0
      BY <1>3, <2>1, EmptySeq DEF Hashes
    <3> QED
      BY <1>0, <1>6, <3>1
  <2>3. h \in q.during
    BY <1>6, <2>1, <2>2
  <2>4. /\ DOMAIN w = QueryFields /\ w.phase = q.phase /\ w.low = q.low /\ w.high = q.high
        /\ w.items = Append(q.items, h) /\ w.hash = <<>> /\ w.warmed = q.warmed \cup {h}
        /\ w.during = q.during /\ w.reverted = q.reverted
    BY <1>6, <2>1 DEF QueryFields
  <2>5. QueryFits(w, c)
    BY <1>1, <1>3, <2>1, <2>3, <2>4, OneMoreEntry
  <2> QED
    BY <1>3, <1>4, <2>5 DEF QueryOK
<1> QED
  BY <1>3, <1>4, <1>5, <1>6

LEMMA QueryFinished ==
    ASSUME ChainOK, QueryOK, QueryWarm \/ QueryEnd \/ QueryReturn
    PROVE  QueryOK'
<1>0. PICK c \in Hashes : c = chain /\ Len(c) \in Nat
  BY DEF ChainOK, Hashes
<1>1. PICK q : q = query /\ QueryFits(q, c) /\ DOMAIN q = QueryFields
  BY <1>0 DEF QueryOK, QueryFits
<1>2. PICK w : w = query'
  OBVIOUS
<1>3. chain' = c
  BY <1>0 DEF QueryWarm, QueryEnd, QueryReturn
<1>4. CASE w = NoQuery
  BY <1>2, <1>3, <1>4, NoQueryFits DEF QueryOK
<1>5. ASSUME q.phase = "resolving", w = [q EXCEPT !.phase = "resolved"] PROVE QueryOK'
  <2>1. /\ DOMAIN w = QueryFields /\ w.phase = "resolved" /\ w.low = q.low /\ w.high = q.high
        /\ w.items = q.items /\ w.hash = q.hash /\ w.warmed = q.warmed
        /\ w.during = q.during /\ w.reverted = q.reverted
    BY <1>1, <1>5 DEF QueryFields
  <2>2. QueryFits(w, c)
    BY <1>1, <1>5, <2>1 DEF QueryFits
  <2> QED
    BY <1>2, <1>3, <2>2 DEF QueryOK
<1>6. ASSUME q.phase = "resolved", ~(Len(c) < q.high),
             w = [q EXCEPT !.phase = "answered", !.hash = SubSeq(c, 1, q.high)]
      PROVE  QueryOK'
  <2>1. PICK s \in Seq(Hashes) : s = q.items
    BY <1>1, <1>6 DEF QueryFits
  <2>2. /\ q.high \in Nat /\ q.low \in 1..q.high /\ Len(s) \in Nat
        /\ q.low + Len(s) <= q.high + 1
        /\ ~q.reverted => \A i \in 1..Len(s) : s[i] = SubSeq(c, 1, q.low + i - 1)
    BY <1>1, <1>6, <2>1 DEF QueryFits
  <2>3. PICK n \in 0..Len(c) : n = q.high
    BY <1>0, <1>6, <2>2
  <2>4. PICK h \in Hashes : h = SubSeq(c, 1, n)
    BY PrefixFacts
  <2>5. \A k \in 0..n : SubSeq(h, 1, k) = SubSeq(c, 1, k)
    BY <2>4, PrefixOfPrefix
  <2>6. \A i \in 1..Len(s) : q.low + i - 1 \in 0..n
    BY <2>2, <2>3
  <2>7. /\ DOMAIN w = QueryFields /\ w.phase = "answered" /\ w.low = q.low /\ w.high = q.high
        /\ w.items = s /\ w.hash = h /\ w.warmed = q.warmed
        /\ w.during = q.during /\ w.reverted = q.reverted
    BY <1>1, <1>6, <2>1, <2>3, <2>4 DEF QueryFields
  <2>8. ~q.reverted => \A i \in 1..Len(s) : s[i] = SubSeq(h, 1, q.low + i - 1)
    BY <2>2, <2>5, <2>6
  <2>9. QueryFits(w, c)
    BY <1>1, <1>6, <2>1, <2>7, <2>8 DEF QueryFits
  <2> QED
    BY <1>2, <1>3, <2>9 DEF QueryOK
<1>7. QueryWarm => q.phase = "resolving" /\ w = [q EXCEPT !.phase = "resolved"]
  BY <1>1, <1>2 DEF QueryWarm
<1>8. QueryEnd => /\ q.phase = "resolved"
                  /\ \/ w = NoQuery
                     \/ /\ ~(Len(c) < q.high)
                        /\ w = [q EXCEPT !.phase = "answered", !.hash = SubSeq(c, 1, q.high)]
  BY <1>0, <1>1, <1>2 DEF QueryEnd, Prefix
<1>9. QueryReturn => w = NoQuery
  BY <1>2 DEF QueryReturn
<1> QED
  BY <1>4, <1>5, <1>6, <1>7, <1>8, <1>9

LEMMA QueryNext == ASSUME NotificationsInv, [Next]_vars PROVE QueryOK'
<1>0. QueryOK /\ ChainOK
  BY DEF NotificationsInv
<1>1. ASSUME UNCHANGED <<query, chain>> PROVE QueryOK'
  BY <1>0, <1>1 DEF QueryOK
<1>2. \A x \in {"log", "none"} : Mine(x) => QueryOK'
  BY <1>0, QueryMine
<1>3. Rollback \/ Revert \/ ResetChain => QueryOK'
  BY <1>0, QueryRewound
<1>4. \A low \in 1..Len(chain) : QueryBegin(low) => QueryOK'
  BY <1>0, QueryBegun
<1>5. QueryResolve \/ QueryCompute \/ QueryWarm \/ QueryEnd \/ QueryReturn => QueryOK'
  BY <1>0, QueryResolved, QueryComputed, QueryFinished
<1>6. ClearCache \/ Notify \/ Subscribe \/ SubscriptionPoll \/ EvictBegin \/ Evict \/ Tick
        => QueryOK'
  BY <1>1 DEF ClearCache, Notify, Subscribe, SubscriptionPoll, EvictBegin, Evict, Tick
<1>7. \A historic : NewFilter(historic) => QueryOK'
  BY <1>1 DEF NewFilter
<1>8. AddFilter \/ GetFilterChanges \/ PollOne \/ PollEnd \/ GetLogFilter \/ UninstallFilter
        => QueryOK'
  BY <1>1 DEF AddFilter, GetFilterChanges, PollOne, PollEnd, GetLogFilter, UninstallFilter
<1>9. FeeServiceTake \/ FeeServiceInsert => QueryOK'
  BY <1>1 DEF FeeServiceTake, FeeServiceInsert
<1>10. UNCHANGED vars => QueryOK'
  BY <1>1 DEF vars
<1> QED
  BY <1>2, <1>3, <1>4, <1>5, <1>6, <1>7, <1>8, <1>9, <1>10 DEF Next

----------------------------------------------------------------------------
(* The invariant *)

LEMMA InitNotifications == Init => NotificationsInv
<1> SUFFICES ASSUME Init PROVE NotificationsInv
  OBVIOUS
<1>0. <<>> \in Hashes /\ <<>> \in Seq(Notes) /\ Len(<<>>) = 0 /\ DOMAIN <<>> = {}
  BY EmptySeq DEF Hashes
<1>1. ChainOK
  <2>1. 1..0 = {}
    OBVIOUS
  <2> QED
    BY <1>0, <2>1, NotificationsAssumption DEF Init, ChainOK
<1>2. QueueTold(<<>>, {})
  BY <1>0 DEF QueueTold
<1>3. PICK focus \in {"filter", "subscription", "fees"} :
          /\ filter = [NoFilter EXCEPT !.phase = IF focus = "filter" THEN "none" ELSE "absent"]
          /\ sub = [Closed EXCEPT !.phase = IF focus = "subscription" THEN "none" ELSE "absent"]
          /\ fees = [FeeService EXCEPT !.open = (focus = "fees")]
  BY DEF Init
<1>4. SubOK
  <2>1. /\ DOMAIN sub = ListenerFields /\ sub.phase \in {"none", "absent"} /\ sub.open = FALSE
        /\ sub.queue = <<>> /\ sub.announced = {} /\ sub.fresh = TRUE /\ sub.view = {}
    BY <1>3 DEF Closed, ListenerFields
  <2> QED
    BY <1>0, <1>2, <2>1 DEF SubOK, ListenerOK, Silent
<1>5. FilterOK
  <2>1. /\ DOMAIN filter = FilterFields /\ filter.phase \in {"none", "absent"}
        /\ filter.open = FALSE /\ filter.queue = <<>> /\ filter.announced = {}
        /\ filter.fresh = TRUE /\ filter.view = {} /\ filter.historic = <<>>
        /\ filter.complete = FALSE
    BY <1>3 DEF NoFilter, FilterFields, ListenerFields
  <2>2. Once(<<>>) = {}
    BY DEF Once
  <2> QED
    BY <1>0, <1>2, <2>1, <2>2 DEF FilterOK, ListenerOK, Silent
<1>6. FeesOK
  BY <1>0, <1>3 DEF FeesOK, FeeService
<1>7. cache = <<>> /\ query = NoQuery
  BY DEF Init
<1>8. IsFiniteSet({}) /\ Cardinality({}) = 0 /\ FeeLimit \in Nat
  BY FS_EmptySet, NotificationsAssumption
<1>9. CacheOK(cache) /\ Cardinality(DOMAIN cache) <= FeeLimit
  BY <1>0, <1>7, <1>8 DEF CacheOK
<1>10. QueryOK
  BY <1>7, NoQueryFits DEF QueryOK
<1> QED
  BY <1>1, <1>4, <1>5, <1>6, <1>9, <1>10 DEF NotificationsInv

LEMMA InvariantHolds == Spec => []NotificationsInv
<1>1. NotificationsInv /\ [Next]_vars => NotificationsInv'
  <2> SUFFICES ASSUME NotificationsInv, [Next]_vars PROVE NotificationsInv'
    OBVIOUS
  <2>1. ChainOK' /\ SubOK' /\ FilterOK' /\ FeesOK' /\ QueryOK'
    BY ChainNext, SubNext, FilterNext, FeesNext, QueryNext
  <2>2. CacheOK(cache') /\ Cardinality(DOMAIN cache') <= FeeLimit
    BY CacheNext
  <2>3. CacheOK(cache)'
    BY <2>2 DEF CacheOK
  <2> QED
    BY <2>1, <2>2, <2>3 DEF NotificationsInv
<1> QED
  BY <1>1, InitNotifications, PTL DEF Spec

----------------------------------------------------------------------------
(* Theorems *)

\* The state keeps its shape; the fee history cache never outgrows
\* fee_history_limit and has every entry under the number of its block,
\* though FeeHistoryService and eth_feeHistory both fill it (fees.rs:543).
THEOREM NotificationsAreTyped == Spec => []TypeOK
<1>1. NotificationsInv => TypeOK
  <2> SUFFICES ASSUME NotificationsInv PROVE TypeOK
    OBVIOUS
  <2>1. /\ chain \in Seq({"log", "none"}) /\ Len(chain) <= MaxChain
        /\ stored \subseteq 1..Len(chain) /\ evictor \in -1..now
    BY DEF NotificationsInv, ChainOK, Hashes
  <2>2. miner.kind \in {"nothing", "block", "removed", "clearing"}
    BY NoteFacts DEF NotificationsInv, ChainOK, Nothing, Clearing
  <2>3. filter.phase \in {"none", "reading", "active", "polling", "evicted", "uninstalled",
                          "absent"}
    BY DEF NotificationsInv, FilterOK
  <2>4. query.phase \in {"idle", "resolving", "resolved", "answered"}
    BY DEF NotificationsInv, QueryOK, QueryFits
  <2>5. \A n \in DOMAIN cache : Len(cache[n]) = n
    BY DEF NotificationsInv, CacheOK
  <2>6. Cardinality(DOMAIN cache) <= FeeLimit
    BY DEF NotificationsInv
  <2> QED
    BY <2>1, <2>2, <2>3, <2>4, <2>5, <2>6 DEF TypeOK
<1> QED
  BY <1>1, InvariantHolds, PTL

\* A listener that is told of everything and has read it.
LEMMA DrainedConverges ==
    ASSUME NotificationsInv, Announced
    PROVE  /\ Drained(sub) => Converged(sub.view, sub.announced)
           /\ Drained(filter) /\ ~filter.complete /\ filter.phase = "active"
                 => Converged(filter.view, filter.announced)
<1>1. chain \in Hashes /\ miner = Nothing
  BY DEF NotificationsInv, ChainOK, Announced
<1>2. /\ LogsAbove(0) = Logs(chain)
      /\ LogsSince(0) = {h \in Logs(chain) : Len(h) \in stored}
  BY <1>1, AllLogs
<1>3. Pending(<<>>, miner) = <<>>
  BY <1>1, NoteKinds
<1>4. ASSUME NEW v, NEW a, Tracks(<<>>, v, a, chain, stored, lost) PROVE Converged(v, a)
  BY <1>2, <1>4, TracksEnd DEF Converged
<1>5. ASSUME Drained(sub) PROVE Tracks(<<>>, sub.view, sub.announced, chain, stored, lost)
  BY <1>3, <1>5 DEF NotificationsInv, SubOK, Drained
<1>6. ASSUME Drained(filter), ~filter.complete, filter.phase = "active"
      PROVE  Tracks(<<>>, filter.view, filter.announced, chain, stored, lost)
  BY <1>3, <1>6 DEF NotificationsInv, FilterOK, FilterView, Drained
<1> QED
  BY <1>4, <1>5, <1>6

\* LogsFilter::poll (filter.rs:226) and LogsSubscription::poll (pubsub.rs:46):
\* a client that has read all its notifications has the logs of the announced
\* blocks that are canonical and still have their transactions, and no log of
\* a block that is not canonical, other than one that lost its transactions
\* before it was rewound; for a chain of any length, any number of rewinds and
\* any transaction_block_keeper, each notification read as late as it may be.
THEOREM ListenersConverge == Spec => []LogsConverge
<1>1. NotificationsInv => LogsConverge
  BY DrainedConverges DEF LogsConverge
<1> QED
  BY <1>1, InvariantHolds, PTL

\* The same in a node that keeps all transactions, which is the default: the
\* client has exactly the logs of the announced blocks that are canonical.
THEOREM ListenersExact ==
    ASSUME Keeper >= MaxChain
    PROVE  Spec => []LogsExact
<1>1. NotificationsInv => LogsExact
  <2> SUFFICES ASSUME NotificationsInv, Announced
               PROVE  /\ Drained(sub) => sub.view = LogsAbove(0) \cap sub.announced
                      /\ Drained(filter) /\ ~filter.complete /\ filter.phase = "active"
                            => filter.view = LogsAbove(0) \cap filter.announced
    BY DEF LogsExact
  <2>1. chain \in Hashes /\ stored = 1..Len(chain) /\ lost = {}
    BY DEF NotificationsInv, ChainOK
  <2>2. LogsSince(0) = LogsAbove(0)
    BY <2>1, AllLogs, LogFacts
  <2>3. ASSUME NEW v, NEW a, Converged(v, a) PROVE v = LogsAbove(0) \cap a
    BY <2>1, <2>2, <2>3 DEF Converged
  <2> QED
    BY <2>3, DrainedConverges
<1> QED
  BY <1>1, InvariantHolds, PTL

\* eth_feeHistory (api.rs:1411): every entry of an answer, cached or computed,
\* is of a block that was canonical while the request ran, for any number of
\* blocks mined, reverts beside it and stale entries in the cache.
THEOREM FeeEntriesWereCanonical == Spec => []FeeHistoryCurrent
<1>1. NotificationsInv => FeeHistoryCurrent
  <2> SUFFICES ASSUME NotificationsInv, NEW i \in 1..Len(query.items)
               PROVE  query.items[i] \in query.during
    BY DEF FeeHistoryCurrent
  <2>1. CASE query.phase = "idle"
    <3>1. Len(query.items) = 0
      BY <2>1, EmptySeq DEF NotificationsInv, QueryOK, QueryFits, NoQuery
    <3> QED
      BY <3>1
  <2>2. CASE query.phase # "idle"
    BY <2>2 DEF NotificationsInv, QueryOK, QueryFits
  <2> QED
    BY <2>1, <2>2
<1> QED
  BY <1>1, InvariantHolds, PTL

\* eth_feeHistory (api.rs:1411): when no evm_revert ran beside the request, the
\* entries of its answer and the block that its next fees follow are of one
\* chain, though blocks were mined between any two of its steps.
THEOREM FeeAnswerIsOfOneChain == Spec => []FeeHistoryOneChain
<1>1. NotificationsInv => FeeHistoryOneChain
  BY DEF NotificationsInv, QueryOK, QueryFits, FeeHistoryOneChain
<1> QED
  BY <1>1, InvariantHolds, PTL

\* Filters::evict (filter.rs:91): for every keepalive, a filter is evicted only
\* when it was last used longer ago than that, though the clock was read
\* before the filters were locked.
THEOREM FilterInUseSurvives == Spec => UsedFilterKept
<1>1. ASSUME NotificationsInv, [Next]_vars, filter.phase = "active", filter'.phase = "evicted"
      PROVE  now > filter.polled + Keepalive
  <2>1. /\ DOMAIN filter = FilterFields /\ now \in Nat /\ evictor \in -1..now
        /\ filter.polled \in Nat /\ filter.deadline = filter.polled + Keepalive
        /\ Keepalive \in Nat
    BY <1>1, NotificationsAssumption DEF NotificationsInv, FilterOK, ChainOK
  <2>2. Evict
    <3>1. filter' # filter
      BY <1>1
    <3>2. \A x : ~Mine(x)
      BY <3>1 DEF Mine
    <3>3. ~(Rollback \/ Revert \/ ClearCache \/ Subscribe \/ SubscriptionPoll)
      BY <3>1 DEF Rollback, Revert, Rewind, ClearCache, Subscribe, SubscriptionPoll
    <3>4. ~ResetChain /\ ~Notify
      <4>1. ResetChain => filter'.phase = filter.phase
        BY <2>1 DEF ResetChain, FilterFields, ListenerFields
      <4>2. Notify => filter'.phase = filter.phase
        BY <2>1 DEF Notify, Told, FilterFields, ListenerFields
      <4> QED
        BY <1>1, <4>1, <4>2
    <3>5. \A historic : ~NewFilter(historic)
      BY <1>1 DEF NewFilter
    <3>6. ~(AddFilter \/ GetFilterChanges \/ PollOne \/ PollEnd)
      <4>1. GetFilterChanges => filter'.phase = "polling"
        BY <2>1 DEF GetFilterChanges, FilterFields, ListenerFields
      <4> QED
        BY <1>1, <4>1 DEF AddFilter, PollOne, PollEnd
    <3>7. ~(GetLogFilter \/ UninstallFilter)
      <4>1. GetLogFilter => filter'.phase = filter.phase
        BY <2>1 DEF GetLogFilter, FilterFields, ListenerFields
      <4>2. UninstallFilter => filter'.phase = "uninstalled"
        BY <2>1 DEF UninstallFilter, Gone, FilterFields, ListenerFields
      <4> QED
        BY <1>1, <4>1, <4>2
    <3>8. ~(EvictBegin \/ Tick \/ FeeServiceTake \/ FeeServiceInsert)
      BY <3>1 DEF EvictBegin, Tick, FeeServiceTake, FeeServiceInsert
    <3>9. ~(QueryResolve \/ QueryCompute \/ QueryWarm \/ QueryEnd \/ QueryReturn)
      BY <3>1 DEF QueryResolve, QueryCompute, QueryWarm, QueryEnd, QueryReturn
    <3>10. \A low : ~QueryBegin(low)
      BY <3>1 DEF QueryBegin
    <3>11. ~UNCHANGED vars
      BY <3>1 DEF vars
    <3> QED
      BY <1>1, <3>2, <3>3, <3>4, <3>5, <3>6, <3>7, <3>8, <3>9, <3>10, <3>11 DEF Next
  <2>3. evictor > filter.deadline
    BY <1>1, <2>2 DEF Evict
  <2> QED
    BY <2>1, <2>3
<1>2. NotificationsInv /\ [Next]_vars =>
        [filter.phase = "active" /\ filter'.phase = "evicted"
            => now > filter.polled + Keepalive]_vars
  BY <1>1
<1> QED
  BY <1>2, InvariantHolds, PTL DEF Spec, UsedFilterKept

=============================================================================
