-------------------------- MODULE BlockStatesProofs --------------------------
(***************************************************************************)
(* Proofs about BlockStates: for any limits and any number of blocks the   *)
(* two tiers of InMemoryBlockStates keep what HistoricStates promises,     *)
(* and enforce_limits drops neither a file too few nor a state too many.   *)
(***************************************************************************)
EXTENDS BlockStates, WellFoundedInduction, TLAPS

----------------------------------------------------------------------------
(* Partial functions and sequences *)

Maps(S) == UNION {[D -> S] : D \in SUBSET Blocks}

LEMMA MapsFacts ==
    ASSUME NEW S, NEW f \in Maps(S)
    PROVE  /\ DOMAIN f \subseteq Blocks /\ f = [x \in DOMAIN f |-> f[x]]
           /\ \A x \in DOMAIN f : f[x] \in S
BY DEF Maps

LEMMA EmptyMaps == ASSUME NEW S PROVE <<>> \in Maps(S) /\ DOMAIN <<>> = {}
<1>1. DOMAIN <<>> = {}
  OBVIOUS
<1>2. <<>> \in [{} -> S]
  OBVIOUS
<1> QED
  BY <1>1, <1>2 DEF Maps

LEMMA WithoutMaps ==
    ASSUME NEW S, NEW f \in Maps(S), NEW T
    PROVE  /\ Without(f, T) \in Maps(S) /\ DOMAIN Without(f, T) = DOMAIN f \ T
           /\ \A x \in DOMAIN f \ T : Without(f, T)[x] = f[x]
<1>1. PICK D \in SUBSET Blocks : f \in [D -> S]
  BY DEF Maps
<1>2. Without(f, T) \in [D \ T -> S]
  BY <1>1 DEF Without
<1>3. D \ T \in SUBSET Blocks
  OBVIOUS
<1> QED
  BY <1>1, <1>2, <1>3 DEF Maps, Without

LEMMA PutMaps ==
    ASSUME NEW S, NEW f \in Maps(S), NEW k \in Blocks, NEW v \in S
    PROVE  /\ Put(f, k, v) \in Maps(S) /\ DOMAIN Put(f, k, v) = DOMAIN f \cup {k}
           /\ Put(f, k, v)[k] = v
           /\ \A x \in DOMAIN f \ {k} : Put(f, k, v)[x] = f[x]
<1>1. PICK D \in SUBSET Blocks : f \in [D -> S]
  BY DEF Maps
<1>2. Put(f, k, v) \in [D \cup {k} -> S]
  BY <1>1 DEF Put
<1>3. D \cup {k} \in SUBSET Blocks
  OBVIOUS
<1> QED
  BY <1>1, <1>2, <1>3 DEF Maps, Put

Rng(s) == {s[i] : i \in 1..Len(s)}
Sorted(s) == \A i, j \in 1..Len(s) : i < j => s[i] <= s[j]

LEMMA EmptySeq == <<>> \in Seq(Blocks) /\ Rng(<<>>) = {} /\ Sorted(<<>>)
BY DEF Rng, Sorted

LEMMA TailFacts ==
    ASSUME NEW s \in Seq(Blocks), Len(s) > 0
    PROVE  /\ Tail(s) \in Seq(Blocks) /\ Len(Tail(s)) = Len(s) - 1
           /\ Head(s) \in Rng(s) /\ Head(s) \in Blocks
           /\ Rng(Tail(s)) \subseteq Rng(s)
           /\ Rng(s) \subseteq Rng(Tail(s)) \cup {Head(s)}
           /\ Sorted(s) => Sorted(Tail(s)) /\ \A x \in Rng(s) : Head(s) <= x
<1>1. Tail(s) \in Seq(Blocks) /\ Len(Tail(s)) = Len(s) - 1 /\ s # <<>> /\ Len(s) \in Nat
  OBVIOUS
<1>2. \A i \in 1..Len(Tail(s)) : i + 1 \in 1..Len(s) /\ Tail(s)[i] = s[i+1]
  BY <1>1
<1>3. Head(s) = s[1] /\ 1 \in 1..Len(s) /\ \A i \in 1..Len(s) : s[i] \in Blocks
  BY <1>1
<1>4. \A i \in 1..Len(s) : i = 1 \/ (i - 1 \in 1..Len(Tail(s)) /\ s[i] = Tail(s)[i-1])
  BY <1>1
<1>5. Rng(Tail(s)) \subseteq Rng(s)
  BY <1>2 DEF Rng
<1>6. Rng(s) \subseteq Rng(Tail(s)) \cup {Head(s)}
  BY <1>3, <1>4 DEF Rng
<1>7. Sorted(s) => Sorted(Tail(s))
  <2> SUFFICES ASSUME Sorted(s), NEW i \in 1..Len(Tail(s)), NEW j \in 1..Len(Tail(s)),
                      i < j
               PROVE  Tail(s)[i] <= Tail(s)[j]
    BY DEF Sorted
  <2>1. i + 1 \in 1..Len(s) /\ j + 1 \in 1..Len(s) /\ i + 1 < j + 1
    BY <1>1, <1>2
  <2> QED
    BY <1>2, <2>1 DEF Sorted
<1>8. Sorted(s) => \A x \in Rng(s) : Head(s) <= x
  <2> SUFFICES ASSUME Sorted(s), NEW i \in 1..Len(s) PROVE s[1] <= s[i]
    BY <1>3 DEF Rng
  <2>1. s[1] \in Nat /\ s[i] \in Nat
    BY <1>3, HistoryAssumption
  <2>2. i = 1 \/ 1 < i
    BY <1>1
  <2> QED
    BY <1>3, <2>1, <2>2 DEF Sorted
<1> QED
  BY <1>1, <1>3, <1>5, <1>6, <1>7, <1>8 DEF Rng

LEMMA AppendFacts ==
    ASSUME NEW s \in Seq(Blocks), NEW b \in Blocks
    PROVE  /\ Append(s, b) \in Seq(Blocks) /\ Rng(Append(s, b)) = Rng(s) \cup {b}
           /\ Len(Append(s, b)) = Len(s) + 1
           /\ Sorted(s) /\ (\A x \in Rng(s) : x <= b) => Sorted(Append(s, b))
<1>1. /\ Append(s, b) \in Seq(Blocks) /\ Len(Append(s, b)) = Len(s) + 1
      /\ Len(s) \in Nat
      /\ \A i \in 1..Len(s) : Append(s, b)[i] = s[i]
      /\ Append(s, b)[Len(s) + 1] = b
  OBVIOUS
<1>2. Rng(Append(s, b)) = Rng(s) \cup {b}
  <2>1. ASSUME NEW x \in Rng(Append(s, b)) PROVE x \in Rng(s) \cup {b}
    <3>1. PICK i \in 1..Len(Append(s, b)) : x = Append(s, b)[i]
      BY DEF Rng
    <3>2. i \in 1..Len(s) \/ i = Len(s) + 1
      BY <1>1
    <3> QED
      BY <1>1, <3>1, <3>2 DEF Rng
  <2>2. ASSUME NEW x \in Rng(s) \cup {b} PROVE x \in Rng(Append(s, b))
    <3>1. CASE x = b
      <4>1. Len(s) + 1 \in 1..Len(Append(s, b))
        BY <1>1
      <4> QED
        BY <1>1, <3>1, <4>1 DEF Rng
    <3>2. CASE x \in Rng(s)
      <4>1. PICK i \in 1..Len(s) : x = s[i]
        BY <3>2 DEF Rng
      <4>2. i \in 1..Len(Append(s, b))
        BY <1>1
      <4> QED
        BY <1>1, <4>1, <4>2 DEF Rng
    <3> QED
      BY <3>1, <3>2
  <2> QED
    BY <2>1, <2>2
<1>3. ASSUME Sorted(s), \A x \in Rng(s) : x <= b PROVE Sorted(Append(s, b))
  <2> SUFFICES ASSUME NEW i \in 1..Len(s)+1, NEW j \in 1..Len(s)+1, i < j
               PROVE  Append(s, b)[i] <= Append(s, b)[j]
    BY <1>1 DEF Sorted
  <2>1. i \in 1..Len(s) /\ Append(s, b)[i] = s[i] /\ s[i] \in Rng(s)
    BY <1>1 DEF Rng
  <2>2. CASE j = Len(s) + 1
    BY <1>1, <1>3, <2>1, <2>2
  <2>3. CASE j # Len(s) + 1
    BY <1>1, <1>3, <2>1, <2>3 DEF Sorted
  <2> QED
    BY <2>2, <2>3
<1> QED
  BY <1>1, <1>2, <1>3

LEMMA LeastIn ==
    ASSUME NEW S, S \subseteq Nat, S # {}
    PROVE  \E x \in S : \A y \in S : x <= y
<1> DEFINE R == {ss \in Nat \X Nat : ss[1] < ss[2]}
<1>1. IsWellFoundedOn(R, Nat)
  BY NatLessThanWellFounded DEF OpToRel
<1>2. \E x \in S : \A y \in S : <<y, x>> \notin R
  <2> HIDE DEF R
  <2> QED
    BY <1>1, WFMin
<1>3. PICK x \in S : \A y \in S : <<y, x>> \notin R
  BY <1>2
<1>4. ASSUME NEW y \in S PROVE x <= y
  <2>1. x \in Nat /\ y \in Nat /\ <<y, x>> \notin R
    BY <1>3
  <2>2. ~(y < x)
    BY <2>1
  <2> QED
    BY <2>1, <2>2
<1> QED
  BY <1>4

LEMMA UpTo ==
    ASSUME NEW N \in Nat, NEW G, 0 \in G, \A n \in 1..N : n - 1 \in G => n \in G
    PROVE  \A n \in 0..N : n \in G
<1> DEFINE Bad == {n \in 0..N : n \notin G}
<1> SUFFICES ASSUME Bad # {} PROVE FALSE
  OBVIOUS
<1>1. Bad \subseteq Nat
  OBVIOUS
<1>2. \E n \in Bad : \A m \in Bad : n <= m
  <2> HIDE DEF Bad
  <2> QED
    BY <1>1, LeastIn
<1>3. PICK n \in Bad : \A m \in Bad : n <= m
  BY <1>2
<1>4. n \in 1..N /\ n - 1 \in 0..N
  OBVIOUS
<1>5. n - 1 \notin Bad
  BY <1>3, <1>4
<1> QED
  BY <1>4, <1>5

\* The recursion of Retain, over the first n elements.
Step(s, S, f, i) == IF s[i] \in S THEN Append(f[i-1], s[i]) ELSE f[i-1]
Computes(s, S, f, n) ==
    /\ f \in [0..n -> Seq(Blocks)]
    /\ f[0] = <<>> /\ \A i \in 1..n : f[i] = Step(s, S, f, i)
First(s, n) == {s[j] : j \in 1..n}

LEMMA RetainComputed ==
    ASSUME NEW s \in Seq(Blocks), NEW S
    PROVE  \E f : Computes(s, S, f, Len(s)) /\ Retain(s, S) = f[Len(s)]
<1> DEFINE N == Len(s)
           G == {n \in 0..N : \E f : Computes(s, S, f, n)}
<1>0. N \in Nat /\ \A i \in 1..N : s[i] \in Blocks
  OBVIOUS
<1>1. 0 \in G
  <2> DEFINE f == [i \in 0..0 |-> <<>>]
  <2>1. Computes(s, S, f, 0)
    BY EmptySeq DEF Computes
  <2> QED
    BY <1>0, <2>1
<1>2. ASSUME NEW n \in 1..N, n - 1 \in G PROVE n \in G
  <2>1. PICK f : Computes(s, S, f, n - 1)
    BY <1>2
  <2> DEFINE g == [i \in 0..n |-> IF i = n THEN Step(s, S, f, n) ELSE f[i]]
  <2>2. n \in Nat /\ n - 1 \in 0..n-1 /\ s[n] \in Blocks
    BY <1>0
  <2>3. f[n-1] \in Seq(Blocks)
    BY <2>1, <2>2 DEF Computes
  <2>4. Step(s, S, f, n) \in Seq(Blocks)
    BY <2>2, <2>3 DEF Step
  <2>5. \A i \in 0..n-1 : g[i] = f[i] /\ f[i] \in Seq(Blocks)
    BY <2>1, <2>2 DEF Computes
  <2>6. g \in [0..n -> Seq(Blocks)]
    BY <2>1, <2>2, <2>4 DEF Computes
  <2>7. ASSUME NEW i \in 1..n PROVE g[i] = Step(s, S, g, i)
    <3>1. g[i-1] = f[i-1]
      BY <2>2, <2>5
    <3>2. Step(s, S, g, i) = Step(s, S, f, i)
      BY <3>1 DEF Step
    <3>3. g[i] = Step(s, S, f, i)
      BY <2>1, <2>2 DEF Computes
    <3> QED
      BY <3>2, <3>3
  <2>8. g[0] = <<>>
    BY <2>1, <2>2 DEF Computes
  <2>9. Computes(s, S, g, n)
    <3> HIDE DEF g
    <3> QED
      BY <2>6, <2>7, <2>8 DEF Computes
  <2> QED
    BY <2>9
<1>3. N \in G
  <2> HIDE DEF G
  <2>1. \A n \in 0..N : n \in G
    BY <1>0, <1>1, <1>2, UpTo
  <2> QED
    BY <1>0, <2>1
<1>4. PICK f : Computes(s, S, f, N)
  BY <1>3
<1> DEFINE Fixpoint(h) ==
             h = [i \in 0..N |-> IF i = 0 THEN <<>>
                                 ELSE IF s[i] \in S THEN Append(h[i-1], s[i]) ELSE h[i-1]]
           upTo == CHOOSE h : Fixpoint(h)
<1>5. Fixpoint(f)
  <2>1. f = [i \in 0..N |-> f[i]]
    BY <1>4 DEF Computes
  <2>2. \A i \in 0..N : i = 0 \/ i \in 1..N
    BY <1>0
  <2>3. ASSUME NEW i \in 0..N
        PROVE  f[i] = IF i = 0 THEN <<>>
                      ELSE IF s[i] \in S THEN Append(f[i-1], s[i]) ELSE f[i-1]
    BY <1>4, <2>2 DEF Computes, Step
  <2> HIDE DEF N
  <2> QED
    BY <2>1, <2>3, Zenon
<1>6. Fixpoint(upTo)
  BY <1>5
<1>7. Retain(s, S) = upTo[N]
  BY DEF Retain
<1> HIDE DEF upTo
<1>8. upTo[0] = <<>> /\ \A i \in 1..N : upTo[i] = Step(s, S, upTo, i)
  <2>1. \A i \in 0..N : upTo[i] = IF i = 0 THEN <<>>
                 ELSE IF s[i] \in S THEN Append(upTo[i-1], s[i]) ELSE upTo[i-1]
    BY <1>6, Zenon
  <2>2. 0 \in 0..N /\ \A i \in 1..N : i \in 0..N /\ i # 0
    BY <1>0
  <2> HIDE DEF N
  <2> QED
    BY <2>1, <2>2 DEF Step
<1>9. \A n \in 0..N : upTo[n] = f[n]
  <2> DEFINE E == {n \in 0..N : upTo[n] = f[n]}
  <2>1. 0 \in E
    BY <1>0, <1>4, <1>8 DEF Computes
  <2>2. ASSUME NEW n \in 1..N, n - 1 \in E PROVE n \in E
    <3>1. upTo[n-1] = f[n-1]
      BY <2>2
    <3>2. Step(s, S, upTo, n) = Step(s, S, f, n)
      BY <3>1 DEF Step
    <3> QED
      BY <1>0, <1>4, <1>8, <3>2 DEF Computes
  <2>3. \A n \in 0..N : n \in E
    <3> HIDE DEF E
    <3> QED
      BY <1>0, <2>1, <2>2, UpTo
  <2> QED
    BY <2>3
<1> QED
  BY <1>0, <1>4, <1>7, <1>9

\* retain keeps the elements it should, in their order.
LEMMA RetainFacts ==
    ASSUME NEW s \in Seq(Blocks), NEW S
    PROVE  /\ Retain(s, S) \in Seq(Blocks)
           /\ Rng(Retain(s, S)) = Rng(s) \cap S
           /\ Sorted(s) => Sorted(Retain(s, S))
<1> DEFINE N == Len(s)
<1>0. N \in Nat /\ \A i \in 1..N : s[i] \in Blocks
  OBVIOUS
<1>1. PICK f : Computes(s, S, f, N) /\ Retain(s, S) = f[N]
  BY RetainComputed
<1> DEFINE G == {n \in 0..N : /\ Rng(f[n]) = First(s, n) \cap S
                              /\ Sorted(s) => Sorted(f[n])}
<1>2. 0 \in G
  BY <1>0, <1>1, EmptySeq DEF Computes, First
<1>3. ASSUME NEW n \in 1..N, n - 1 \in G PROVE n \in G
  <2>1. f[n-1] \in Seq(Blocks) /\ s[n] \in Blocks /\ f[n] = Step(s, S, f, n)
    BY <1>0, <1>1 DEF Computes
  <2>2. First(s, n) = First(s, n - 1) \cup {s[n]}
    <3>1. 1..n = (1..(n-1)) \cup {n}
      BY <1>0
    <3> QED
      BY <3>1 DEF First
  <2>3. CASE s[n] \in S
    <3>1. f[n] = Append(f[n-1], s[n])
      BY <2>1, <2>3 DEF Step
    <3>2. Rng(f[n]) = First(s, n) \cap S
      BY <1>3, <2>1, <2>2, <2>3, <3>1, AppendFacts
    <3>3. ASSUME Sorted(s) PROVE Sorted(f[n])
      <4>1. \A x \in First(s, n - 1) : x <= s[n]
        BY <1>0, <3>3 DEF Sorted, First
      <4>2. \A x \in Rng(f[n-1]) : x <= s[n]
        BY <1>3, <4>1
      <4> QED
        BY <1>3, <2>1, <3>1, <3>3, <4>2, AppendFacts
    <3> QED
      BY <3>2, <3>3
  <2>4. CASE s[n] \notin S
    <3>1. f[n] = f[n-1]
      BY <2>1, <2>4 DEF Step
    <3> QED
      BY <1>3, <2>2, <2>4, <3>1
  <2> QED
    BY <2>3, <2>4
<1>4. \A n \in 0..N : n \in G
  <2> HIDE DEF G
  <2> QED
    BY <1>0, <1>2, <1>3, UpTo
<1>5. N \in 0..N
  BY <1>0
<1>6. f[N] \in Seq(Blocks) /\ First(s, N) = Rng(s)
  BY <1>1, <1>5 DEF Computes, First, Rng
<1>7. N \in G
  BY <1>4, <1>5
<1> QED
  BY <1>1, <1>6, <1>7

----------------------------------------------------------------------------
(* The inductive invariant *)

Store ==
    [states : Maps(States), onDisk : Maps(States \cup {None}), files : Maps(States \cup {Partial}),
     failed : SUBSET Blocks, present : Seq(Blocks), oldest : Seq(Blocks), limit : Nat]
Op ==
    [phase : {"none", "memory", "disk"}, block : Blocks \cup {None},
     state : States \cup {None}]

Typed ==
    /\ store \in Store /\ store.limit >= MinLimit
    /\ op \in Op /\ (op.block # None => op.state \in States)
    /\ mined \in Blocks /\ chain \subseteq 1..mined /\ chain \subseteq Blocks
    /\ \E m \in chain : \A c \in chain : c <= m

\* The queues hold blocks of the chain, oldest first, those on disk before
\* those in memory, and the block to be recorded goes behind all of them.
Ordered ==
    /\ Sorted(store.present) /\ Sorted(store.oldest)
    /\ \A x \in Rng(store.oldest), y \in Rng(store.present) : x <= y
    /\ Rng(store.present) \subseteq chain /\ Rng(store.oldest) \subseteq chain
    /\ op.block # None =>
         /\ op.block \in chain
         /\ \A x \in Rng(store.oldest) \cup Rng(store.present) : x <= op.block

\* A state is queued in its tier.
Placed ==
    /\ DOMAIN store.states \subseteq Rng(store.present)
    /\ DOMAIN store.onDisk \subseteq Rng(store.oldest)
    /\ FilesTracked
    /\ \A b \in DOMAIN store.onDisk : store.onDisk[b] = None <=> ~Persistent
    /\ MemoryOnly => store.oldest = <<>>

StatesInv == Typed /\ Ordered /\ Placed

----------------------------------------------------------------------------
(* What the steps do to the fields of the store *)

LEMMA StoreFacts ==
    ASSUME Typed
    PROVE  /\ store.states \in Maps(States) /\ store.onDisk \in Maps(States \cup {None})
           /\ store.files \in Maps(States \cup {Partial}) /\ store.failed \subseteq Blocks
           /\ store.present \in Seq(Blocks) /\ store.oldest \in Seq(Blocks)
           /\ store.limit \in Nat /\ store.limit >= MinLimit
           /\ MinLimit \in Nat /\ MinLimit > 0 /\ DiskLimit \in Nat
           /\ Len(store.present) \in Nat /\ Len(store.oldest) \in Nat
<1>1. /\ store.states \in Maps(States) /\ store.onDisk \in Maps(States \cup {None})
      /\ store.files \in Maps(States \cup {Partial}) /\ store.failed \subseteq Blocks
      /\ store.present \in Seq(Blocks) /\ store.oldest \in Seq(Blocks)
      /\ store.limit \in Nat /\ store.limit >= MinLimit
  BY DEF Typed, Store
<1> QED
  BY <1>1, HistoryAssumption

LEMMA DemotedFields ==
    ASSUME Typed, op.phase = "memory", Len(store.present) >= store.limit, EvictOldest,
           Head(store.present) \in DOMAIN store.states, ~MemoryOnly
    PROVE  LET b == Head(store.present)
           IN  /\ store' \in Store
               /\ store'.states = Without(store.states, {b})
               /\ store'.onDisk = Put(store.onDisk, b,
                                      IF Persistent THEN store.states[b] ELSE None)
               /\ store'.files = IF Persistent THEN store.files
                                 ELSE Put(store.files, b, store.states[b])
               /\ store'.present = Tail(store.present)
               /\ store'.oldest = Append(store.oldest, b)
               /\ store'.limit = store.limit /\ store'.failed = store.failed
<1> DEFINE b == Head(store.present)
           d == Put(store.onDisk, b, IF Persistent THEN store.states[b] ELSE None)
           f == IF Persistent THEN store.files ELSE Put(store.files, b, store.states[b])
           w == Without(store.states, {b})
           t == Tail(store.present)
           o == Append(store.oldest, b)
<1>1. store' = [store EXCEPT !.onDisk = d, !.files = f, !.oldest = o, !.present = t,
                             !.states = w]
  <2>1. store' = Popped(Demoted(store, b))
    BY DEF EvictOldest
  <2>2. store \in Store
    BY DEF Typed
  <2>3. Demoted(store, b) = [store EXCEPT !.onDisk = d, !.files = f, !.oldest = o]
    BY DEF Demoted
  <2> HIDE DEF d, f, o
  <2>4. Popped(Demoted(store, b)) =
          [Demoted(store, b) EXCEPT !.present = Tail(Demoted(store, b).present),
             !.states = Without(Demoted(store, b).states, {Head(Demoted(store, b).present)})]
    BY DEF Popped
  <2>5. Demoted(store, b).present = store.present /\ Demoted(store, b).states = store.states
    BY <2>2, <2>3 DEF Store
  <2>6. Popped(Demoted(store, b)) = [Demoted(store, b) EXCEPT !.present = t, !.states = w]
    BY <2>4, <2>5
  <2> HIDE DEF b, t, w
  <2> QED
    BY <2>1, <2>2, <2>3, <2>6 DEF Store
<1>2. b \in Blocks /\ t \in Seq(Blocks)
  BY StoreFacts, TailFacts
<1>3. o \in Seq(Blocks)
  BY <1>2, StoreFacts, AppendFacts
<1>4. w \in Maps(States)
  BY StoreFacts, WithoutMaps
<1>5. store.states[b] \in States
  BY StoreFacts, MapsFacts
<1>6. d \in Maps(States \cup {None})
  BY <1>2, <1>5, StoreFacts, PutMaps
<1>7. f \in Maps(States \cup {Partial})
  BY <1>2, <1>5, StoreFacts, PutMaps
<1>8. store \in Store
  BY DEF Typed
<1> HIDE DEF b, d, f, w, t, o
<1>9. /\ store' \in Store /\ store'.states = w /\ store'.onDisk = d /\ store'.files = f
      /\ store'.present = t /\ store'.oldest = o /\ store'.limit = store.limit
      /\ store'.failed = store.failed
  BY <1>1, <1>2, <1>3, <1>4, <1>6, <1>7, <1>8 DEF Store
<1> QED
  BY <1>9 DEF b, d, f, w, t, o

LEMMA PoppedFields ==
    ASSUME Typed, op.phase = "memory", Len(store.present) >= store.limit, EvictOldest,
           Head(store.present) \notin DOMAIN store.states \/ MemoryOnly
    PROVE  /\ store' \in Store
           /\ store'.states = Without(store.states, {Head(store.present)})
           /\ store'.onDisk = store.onDisk /\ store'.files = store.files
           /\ store'.present = Tail(store.present) /\ store'.failed = store.failed
           /\ store'.oldest = store.oldest /\ store'.limit = store.limit
<1> DEFINE w == Without(store.states, {Head(store.present)})
           t == Tail(store.present)
<1>1. store' = [store EXCEPT !.present = t, !.states = w]
  BY DEF EvictOldest, Popped
<1>2. t \in Seq(Blocks) /\ w \in Maps(States)
  <2>1. Len(store.present) > 0
    BY StoreFacts
  <2>2. t \in Seq(Blocks)
    BY <2>1, StoreFacts, TailFacts
  <2>3. w \in Maps(States)
    BY StoreFacts, WithoutMaps
  <2> QED
    BY <2>2, <2>3
<1>3. store \in Store
  BY DEF Typed
<1> HIDE DEF w, t
<1>4. /\ store' \in Store /\ store'.states = w /\ store'.onDisk = store.onDisk
      /\ store'.files = store.files /\ store'.present = t /\ store'.failed = store.failed
      /\ store'.oldest = store.oldest /\ store'.limit = store.limit
  BY <1>1, <1>2, <1>3 DEF Store
<1> QED
  BY <1>4 DEF w, t

\* The files that are left when the listed states of S are removed.
LEMMA FilesRemovedFacts ==
    ASSUME Typed, NEW S, NEW stuck
    PROVE  LET f == FilesRemoved(store, S, stuck)
           IN  /\ f \in Maps(States \cup {Partial})
               /\ DOMAIN f \subseteq DOMAIN store.files
               /\ \A x \in DOMAIN store.files : x \notin S => x \in DOMAIN f
               /\ \A x \in DOMAIN f : f[x] = store.files[x]
               /\ DOMAIN f \cap S \cap Listed(store) \subseteq stuck
<1> DEFINE R == (S \cap Listed(store)) \ stuck
           f == Without(store.files, R)
<1>1. f \in Maps(States \cup {Partial})
  BY StoreFacts, WithoutMaps
<1>2. DOMAIN f = DOMAIN store.files \ R /\ \A x \in DOMAIN f : f[x] = store.files[x]
  BY DEF Without
<1>3. R \subseteq S /\ S \cap Listed(store) \subseteq R \cup stuck
  OBVIOUS
<1>4. FilesRemoved(store, S, stuck) = f
  BY DEF FilesRemoved
<1> HIDE DEF f, R
<1> QED
  BY <1>1, <1>2, <1>3, <1>4

LEMMA PurgedFields ==
    ASSUME Typed, PurgeOldest
    PROVE  LET b == Head(store.oldest)
           IN  /\ store' \in Store /\ Len(store.oldest) > 0
               /\ store'.onDisk = Without(store.onDisk, {b})
               /\ \E stuck \in SUBSET ({b} \cap Listed(store)) :
                     /\ store'.files = FilesRemoved(store, {b}, stuck)
                     /\ store'.failed = store.failed \cup stuck
               /\ store'.oldest = Tail(store.oldest)
               /\ store'.states = store.states /\ store'.present = store.present
               /\ store'.limit = store.limit
<1> DEFINE b == Head(store.oldest)
           d == Without(store.onDisk, {b})
           t == Tail(store.oldest)
<1>0. Len(store.oldest) > 0
  BY StoreFacts DEF PurgeOldest, DiskFull, MemoryOnly
<1>1. PICK stuck \in SUBSET ({b} \cap Listed(store)) : store' = Purged(store, stuck)
  BY DEF PurgeOldest
<1> DEFINE f == FilesRemoved(store, {b}, stuck)
           e == store.failed \cup stuck
<1>2. store' = [store EXCEPT !.oldest = t, !.onDisk = d, !.files = f, !.failed = e]
  BY <1>1 DEF Purged
<1>3. t \in Seq(Blocks) /\ d \in Maps(States \cup {None}) /\ b \in Blocks
  BY <1>0, StoreFacts, TailFacts, WithoutMaps
<1>4. f \in Maps(States \cup {Partial})
  BY FilesRemovedFacts
<1>5. e \subseteq Blocks
  BY <1>3, StoreFacts
<1>6. store \in Store
  BY DEF Typed
<1> HIDE DEF b, d, f, t, e
<1>7. /\ store' \in Store /\ store'.onDisk = d /\ store'.files = f /\ store'.oldest = t
      /\ store'.states = store.states /\ store'.present = store.present
      /\ store'.limit = store.limit /\ store'.failed = e
  BY <1>2, <1>3, <1>4, <1>5, <1>6 DEF Store
<1> QED
  BY <1>0, <1>7 DEF b, d, f, t, e

\* The steps that only change in_memory_limit, or the file of a state in memory.
Unmoved ==
    /\ store' \in Store
    /\ store'.states = store.states /\ store'.onDisk = store.onDisk
    /\ store'.present = store.present
    /\ store'.oldest = store.oldest /\ store'.limit >= MinLimit
    /\ DOMAIN store.files \subseteq DOMAIN store'.files
    /\ \A x \in DOMAIN store.files :
          store'.files[x] = store.files[x] \/ x \in DOMAIN store.states
    /\ DOMAIN store'.files \subseteq DOMAIN store.files \cup store'.failed
    /\ store.failed \subseteq store'.failed

LEMMA ShrunkFields ==
    ASSUME Typed, store' = Shrunk(store)
    PROVE  Unmoved /\ (MemoryOnly => store'.limit = store.limit)
<1> DEFINE l == IF store.limit - 1 < MinLimit THEN MinLimit ELSE store.limit - 1
<1>1. l \in Nat /\ l >= MinLimit
  BY StoreFacts
<1>2. store' = store \/ (store' = [store EXCEPT !.limit = l] /\ ~MemoryOnly)
  BY DEF Shrunk
<1>3. store \in Store
  BY DEF Typed
<1> HIDE DEF l
<1> QED
  BY <1>1, <1>2, <1>3, StoreFacts DEF Unmoved, Store

LEMMA KeptFields ==
    ASSUME Typed, WriteFails
    PROVE  Unmoved /\ ~MemoryOnly
<1> DEFINE b == Head(store.present)
<1>1. PICK created \in BOOLEAN : store' = KeptInMemory(store, created)
  BY DEF WriteFails
<1> DEFINE f == IF created THEN Put(store.files, b, Partial) ELSE store.files
           e == IF created THEN store.failed \cup {b} ELSE store.failed
<1>2. store.limit + 1 \in Nat /\ store.limit + 1 >= MinLimit
  BY StoreFacts
<1>3. store' = [store EXCEPT !.limit = store.limit + 1, !.files = f, !.failed = e]
  BY <1>1 DEF KeptInMemory
<1>4. b \in DOMAIN store.states /\ ~MemoryOnly
  BY DEF WriteFails
<1>5. b \in Blocks
  <2>1. store.states \in Maps(States)
    BY StoreFacts
  <2> QED
    BY <1>4, <2>1, MapsFacts
<1>6. f \in Maps(States \cup {Partial}) /\ e \subseteq Blocks
  BY <1>5, StoreFacts, PutMaps
<1>7. /\ DOMAIN store.files \subseteq DOMAIN f
      /\ \A x \in DOMAIN store.files : f[x] = store.files[x] \/ x = b
      /\ DOMAIN f \subseteq DOMAIN store.files \cup e /\ store.failed \subseteq e
  BY DEF Put
<1>8. store \in Store
  BY DEF Typed
<1> HIDE DEF b, f, e
<1>9. /\ store' \in Store /\ store'.limit = store.limit + 1 /\ store'.files = f
      /\ store'.failed = e /\ store'.states = store.states /\ store'.onDisk = store.onDisk
      /\ store'.present = store.present /\ store'.oldest = store.oldest
  BY <1>2, <1>3, <1>6, <1>8 DEF Store
<1> QED
  BY <1>2, <1>4, <1>7, <1>9 DEF Unmoved

LEMMA FastFields ==
    ASSUME Typed, FastBlocks
    PROVE  Unmoved /\ ~MemoryOnly /\ store'.limit = FastLimit
<1>1. FastLimit \in Nat /\ FastLimit >= MinLimit
  BY HistoryAssumption
<1>2. store' = [store EXCEPT !.limit = FastLimit]
  BY DEF FastBlocks
<1>3. store \in Store
  BY DEF Typed
<1>4. ~MemoryOnly
  BY DEF FastBlocks
<1> QED
  BY <1>1, <1>2, <1>3, <1>4 DEF Unmoved, Store

LEMMA SameFields == ASSUME Typed, store' = store PROVE Unmoved /\ store'.limit = store.limit
BY DEF Typed, Unmoved

LEMMA FinishFields ==
    ASSUME Typed, Finish, op.block # None
    PROVE  /\ store' \in Store
           /\ store'.states = Put(store.states, op.block, op.state)
           /\ store'.present = Append(store.present, op.block)
           /\ store'.onDisk = store.onDisk /\ store'.files = store.files
           /\ store'.oldest = store.oldest /\ store'.limit = store.limit
           /\ store'.failed = store.failed
<1> DEFINE w == Put(store.states, op.block, op.state)
           t == Append(store.present, op.block)
<1>1. store' = [store EXCEPT !.states = w, !.present = t]
  BY DEF Finish
<1>2. op.block \in Blocks /\ op.state \in States
  BY DEF Typed, Op
<1>3. w \in Maps(States)
  BY <1>2, StoreFacts, PutMaps
<1>4. t \in Seq(Blocks)
  BY <1>2, StoreFacts, AppendFacts
<1>5. store \in Store
  BY DEF Typed
<1> HIDE DEF w, t
<1>6. /\ store' \in Store /\ store'.states = w /\ store'.onDisk = store.onDisk
      /\ store'.files = store.files /\ store'.present = t
      /\ store'.oldest = store.oldest /\ store'.limit = store.limit
      /\ store'.failed = store.failed
  BY <1>1, <1>3, <1>4, <1>5 DEF Store
<1> QED
  BY <1>6 DEF w, t

LEMMA ListedBlocks == ASSUME Typed PROVE Listed(store) \subseteq Blocks
<1>1. store.onDisk \in Maps(States \cup {None})
  BY StoreFacts
<1> QED
  BY <1>1, MapsFacts DEF Listed

LEMMA RemovedFields ==
    ASSUME Typed, NEW S, NEW stuck \in SUBSET (S \cap Listed(store)),
           store' = RemoveBlockStates(store, S, stuck)
    PROVE  /\ store' \in Store
           /\ store'.states = Without(store.states, S)
           /\ store'.onDisk = Without(store.onDisk, S)
           /\ store'.files = FilesRemoved(store, S, stuck)
           /\ store'.failed = store.failed \cup stuck
           /\ store'.present = Retain(store.present, Blocks \ S)
           /\ store'.oldest = Retain(store.oldest, Blocks \ S)
           /\ store'.limit = store.limit
<1> DEFINE w == Without(store.states, S)
           d == Without(store.onDisk, S)
           f == FilesRemoved(store, S, stuck)
           e == store.failed \cup stuck
           p == Retain(store.present, Blocks \ S)
           o == Retain(store.oldest, Blocks \ S)
<1>1. store' = [store EXCEPT !.states = w, !.onDisk = d, !.files = f, !.failed = e,
                             !.present = p, !.oldest = o]
  BY DEF RemoveBlockStates
<1>2. w \in Maps(States)
  BY StoreFacts, WithoutMaps
<1>3. d \in Maps(States \cup {None})
  BY StoreFacts, WithoutMaps
<1>4. f \in Maps(States \cup {Partial})
  BY FilesRemovedFacts
<1>5. p \in Seq(Blocks)
  BY StoreFacts, RetainFacts
<1>6. o \in Seq(Blocks)
  BY StoreFacts, RetainFacts
<1>7. store \in Store
  BY DEF Typed
<1>8. e \subseteq Blocks
  BY ListedBlocks, StoreFacts
<1> HIDE DEF w, d, f, e, p, o
<1>9. /\ store' \in Store /\ store'.states = w /\ store'.onDisk = d /\ store'.files = f
      /\ store'.failed = e
      /\ store'.present = p /\ store'.oldest = o /\ store'.limit = store.limit
  BY <1>1, <1>2, <1>3, <1>4, <1>5, <1>6, <1>7, <1>8 DEF Store
<1> QED
  BY <1>9 DEF w, d, f, e, p, o

LEMMA EmptyFields ==
    ASSUME NEW l \in Nat, NEW f \in Maps(States \cup {Partial}), NEW e \in SUBSET Blocks
    PROVE  [states |-> <<>>, onDisk |-> <<>>, files |-> f, failed |-> e,
            present |-> <<>>, oldest |-> <<>>, limit |-> l] \in Store
<1>1. <<>> \in Maps(States) /\ <<>> \in Maps(States \cup {None}) /\ <<>> \in Seq(Blocks)
  BY EmptyMaps, EmptySeq
<1> QED
  BY <1>1 DEF Store

LEMMA ClearedFields ==
    ASSUME Typed, NEW stuck \in SUBSET Listed(store), store' = Cleared(store, stuck)
    PROVE  /\ store' \in Store
           /\ store'.states = <<>> /\ store'.onDisk = <<>>
           /\ store'.files = FilesRemoved(store, Listed(store), stuck)
           /\ store'.failed = store.failed \cup stuck
           /\ store'.present = <<>> /\ store'.oldest = <<>>
           /\ store'.limit = store.limit
<1> DEFINE f == FilesRemoved(store, Listed(store), stuck)
           e == store.failed \cup stuck
<1>1. f \in Maps(States \cup {Partial}) /\ store.limit \in Nat
  BY FilesRemovedFacts, StoreFacts
<1>2. e \in SUBSET Blocks
  BY ListedBlocks, StoreFacts
<1>3. store' = [states |-> <<>>, onDisk |-> <<>>, files |-> f, failed |-> e,
                present |-> <<>>, oldest |-> <<>>, limit |-> store.limit]
  BY DEF Cleared, EmptyStore
<1> HIDE DEF f, e
<1>4. store' \in Store
  BY <1>1, <1>2, <1>3, EmptyFields
<1>5. /\ store'.states = <<>> /\ store'.onDisk = <<>> /\ store'.files = f
      /\ store'.failed = e /\ store'.present = <<>> /\ store'.oldest = <<>>
      /\ store'.limit = store.limit
  BY <1>3
<1> QED
  BY <1>4, <1>5 DEF f, e

----------------------------------------------------------------------------
(* StatesInv is inductive *)

LEMMA HeadFacts == ASSUME Typed PROVE Head_ \in chain /\ \A c \in chain : c <= Head_
BY DEF Typed, Head_

LEMMA InitInv == Init => StatesInv
<1> SUFFICES ASSUME Init PROVE StatesInv
  OBVIOUS
<1>1. store = EmptyStore
  BY DEF Init, InitStates
<1>2. store \in Store /\ store.limit >= MinLimit
  <2>1. <<>> \in Maps(States \cup {Partial})
    BY EmptyMaps
  <2>2. EmptyStore \in Store
    BY <2>1, HistoryAssumption, EmptyFields DEF EmptyStore
  <2> QED
    BY <1>1, <2>2, HistoryAssumption DEF EmptyStore
<1>3. op \in Op /\ op.block = None
  BY DEF Init, InitStates, NoOp, Op
<1>4. mined \in Blocks /\ chain \subseteq 1..mined /\ chain \subseteq Blocks
  BY HistoryAssumption DEF Init
<1>5. \E m \in chain : \A c \in chain : c <= m
  BY DEF Init
<1>6. /\ store.states = <<>> /\ store.onDisk = <<>> /\ store.files = <<>>
      /\ store.present = <<>> /\ store.oldest = <<>>
  BY DEF Init, InitStates, EmptyStore
<1>7. Ordered
  BY <1>3, <1>6, EmptySeq DEF Ordered
<1>8. Placed
  BY <1>6, EmptySeq, EmptyMaps DEF Placed, FilesTracked, Listed
<1> QED
  BY <1>2, <1>3, <1>4, <1>5, <1>7, <1>8 DEF StatesInv, Typed

\* An eviction to the second tier.
LEMMA DemotedKeeps ==
    ASSUME StatesInv, op.phase = "memory", Len(store.present) >= store.limit, EvictOldest,
           Head(store.present) \in DOMAIN store.states, ~MemoryOnly,
           chain' = chain, mined' = mined
    PROVE  StatesInv'
<1> DEFINE b == Head(store.present)
           v == IF Persistent THEN store.states[b] ELSE None
<1>0. Typed
  BY DEF StatesInv
<1>1. /\ store' \in Store
      /\ store'.states = Without(store.states, {b})
      /\ store'.onDisk = Put(store.onDisk, b, v)
      /\ store'.files = IF Persistent THEN store.files
                        ELSE Put(store.files, b, store.states[b])
      /\ store'.present = Tail(store.present)
      /\ store'.oldest = Append(store.oldest, b)
      /\ store'.limit = store.limit /\ op' = op /\ store'.failed = store.failed
  BY <1>0, DemotedFields DEF EvictOldest
<1>2. /\ Rng(Tail(store.present)) \subseteq Rng(store.present)
      /\ Rng(store.present) \subseteq Rng(Tail(store.present)) \cup {b}
      /\ b \in Rng(store.present) /\ b \in Blocks
      /\ Sorted(Tail(store.present)) /\ \A x \in Rng(store.present) : b <= x
  <2>1. Len(store.present) > 0 /\ store.present \in Seq(Blocks)
    BY <1>0, StoreFacts
  <2>2. Sorted(store.present)
    BY DEF StatesInv, Ordered
  <2> QED
    BY <2>1, <2>2, TailFacts
<1>3. \A x \in Rng(store.oldest) : x <= b
  BY <1>2 DEF StatesInv, Ordered
<1>4. /\ Rng(Append(store.oldest, b)) = Rng(store.oldest) \cup {b}
      /\ Sorted(Append(store.oldest, b))
  <2>1. store.oldest \in Seq(Blocks)
    BY <1>0, StoreFacts
  <2>2. Sorted(store.oldest)
    BY DEF StatesInv, Ordered
  <2> HIDE DEF b
  <2> QED
    BY <1>2, <1>3, <2>1, <2>2, AppendFacts
<1>5. store.states[b] \in States /\ v \in States \cup {None} /\ (v = None <=> ~Persistent)
  <2>1. store.states \in Maps(States)
    BY <1>0, StoreFacts
  <2>2. store.states[b] \in States
    BY <2>1, MapsFacts
  <2> HIDE DEF b
  <2> QED
    BY <2>2, HistoryAssumption
<1> HIDE DEF b, v
<1>6. DOMAIN store'.states = DOMAIN store.states \ {b}
  BY <1>1 DEF Without
<1>7. /\ DOMAIN store'.onDisk = DOMAIN store.onDisk \cup {b}
      /\ store'.onDisk[b] = v
      /\ \A x \in DOMAIN store.onDisk \ {b} : store'.onDisk[x] = store.onDisk[x]
  BY <1>1 DEF Put
<1>8. /\ ~Persistent => /\ DOMAIN store'.files = DOMAIN store.files \cup {b}
                        /\ store'.files[b] = store.states[b]
                        /\ \A x \in DOMAIN store.files \ {b} :
                              store'.files[x] = store.files[x]
      /\ Persistent => store'.files = store.files
  BY <1>1 DEF Put
<1>9. Typed'
  BY <1>0, <1>1 DEF Typed
<1>10. Ordered'
  BY <1>1, <1>2, <1>3, <1>4 DEF StatesInv, Ordered
<1>11. Placed'
  <2>1. \A x \in DOMAIN store'.onDisk : store'.onDisk[x] = None <=> ~Persistent
    BY <1>5, <1>7 DEF StatesInv, Placed
  <2>2. Listed(store') = IF Persistent THEN {} ELSE DOMAIN store.onDisk \cup {b}
    BY <1>7, <2>1 DEF Listed
  <2>3. Listed(store) = IF Persistent THEN {} ELSE DOMAIN store.onDisk
    BY DEF Listed, StatesInv, Placed
  <2>4. FilesTracked'
    <3>1. /\ \A x \in Listed(store) : /\ x \in DOMAIN store.files
                                      /\ store.files[x] = Partial => x \in DOMAIN store.states
          /\ DOMAIN store.files \subseteq Listed(store) \cup store.failed
      BY DEF StatesInv, Placed, FilesTracked
    <3>2. CASE Persistent
      BY <1>1, <1>8, <2>2, <2>3, <3>1, <3>2 DEF FilesTracked
    <3>3. CASE ~Persistent
      <4>1. store'.files[b] # Partial
        BY <1>5, <1>8, <3>3, HistoryAssumption
      <4>2. ASSUME NEW x \in Listed(store')
            PROVE  /\ x \in DOMAIN store'.files
                   /\ store'.files[x] = Partial => x \in DOMAIN store'.states
        <5>1. CASE x = b
          BY <1>8, <3>3, <4>1, <5>1
        <5>2. CASE x # b
          <6>1. x \in Listed(store)
            BY <2>2, <2>3, <3>3, <4>2, <5>2
          <6> QED
            BY <1>6, <1>8, <3>1, <3>3, <5>2, <6>1
        <5> QED
          BY <5>1, <5>2
      <4>3. DOMAIN store'.files \subseteq Listed(store') \cup store'.failed
        BY <1>1, <1>8, <2>2, <2>3, <3>1, <3>3
      <4> QED
        BY <4>2, <4>3 DEF FilesTracked
    <3> QED
      BY <3>2, <3>3
  <2>5. /\ DOMAIN store'.states \subseteq Rng(store'.present)
        /\ DOMAIN store'.onDisk \subseteq Rng(store'.oldest)
    BY <1>1, <1>2, <1>4, <1>6, <1>7 DEF StatesInv, Placed
  <2> QED
    BY <2>1, <2>4, <2>5 DEF Placed
<1> QED
  BY <1>9, <1>10, <1>11 DEF StatesInv

\* Any step that only takes from the queues and from the two tiers.
Shrinks ==
    /\ store' \in Store /\ store'.limit >= MinLimit
    /\ DOMAIN store'.states \subseteq DOMAIN store.states \cap Rng(store'.present)
    /\ DOMAIN store'.onDisk \subseteq DOMAIN store.onDisk \cap Rng(store'.oldest)
    /\ \A b \in DOMAIN store'.onDisk : store'.onDisk[b] = store.onDisk[b]
    /\ FilesTracked'
    /\ Rng(store'.present) \subseteq Rng(store.present) /\ Sorted(store'.present)
    /\ Rng(store'.oldest) \subseteq Rng(store.oldest) /\ Sorted(store'.oldest)

LEMMA ShrinksKeeps ==
    ASSUME StatesInv, Shrinks, MemoryOnly => store'.oldest = <<>>
    PROVE  Placed'
<1>1. \A x \in DOMAIN store'.onDisk : store'.onDisk[x] = None <=> ~Persistent
  BY DEF Shrinks, StatesInv, Placed
<1> QED
  BY <1>1 DEF Placed, Shrinks

LEMMA ShrinksInv ==
    ASSUME StatesInv, Shrinks, chain' = chain, mined' = mined, op' \in Op,
           op'.block = None \/ (op'.block = op.block /\ op'.state = op.state),
           MemoryOnly => store'.oldest = <<>>
    PROVE  StatesInv'
<1>1. Typed'
  BY DEF StatesInv, Typed, Shrinks
<1>2. Ordered'
  BY DEF StatesInv, Ordered, Shrinks
<1> QED
  BY <1>1, <1>2, ShrinksKeeps DEF StatesInv

LEMMA UnmovedShrinks ==
    ASSUME StatesInv, Unmoved
    PROVE  Shrinks /\ (MemoryOnly => store'.oldest = <<>>)
<1>1. FilesTracked'
  BY DEF Unmoved, StatesInv, Placed, FilesTracked, Listed
<1> QED
  BY <1>1 DEF Unmoved, Shrinks, StatesInv, Placed, Ordered

LEMMA PoppedShrinks ==
    ASSUME StatesInv, op.phase = "memory", Len(store.present) >= store.limit, EvictOldest,
           Head(store.present) \notin DOMAIN store.states \/ MemoryOnly
    PROVE  Shrinks /\ (MemoryOnly => store'.oldest = <<>>)
<1> DEFINE b == Head(store.present)
<1>0. Typed
  BY DEF StatesInv
<1>1. /\ store' \in Store
      /\ store'.states = Without(store.states, {b})
      /\ store'.onDisk = store.onDisk /\ store'.files = store.files
      /\ store'.present = Tail(store.present) /\ store'.failed = store.failed
      /\ store'.oldest = store.oldest /\ store'.limit = store.limit
  BY <1>0, PoppedFields
<1>2. /\ Rng(Tail(store.present)) \subseteq Rng(store.present)
      /\ Rng(store.present) \subseteq Rng(Tail(store.present)) \cup {b}
      /\ Sorted(Tail(store.present))
  <2>1. Len(store.present) > 0 /\ store.present \in Seq(Blocks)
    BY <1>0, StoreFacts
  <2>2. Sorted(store.present)
    BY DEF StatesInv, Ordered
  <2> QED
    BY <2>1, <2>2, TailFacts
<1> HIDE DEF b
<1>3. DOMAIN store'.states = DOMAIN store.states \ {b}
  BY <1>1 DEF Without
<1>4. store'.limit >= MinLimit
  BY <1>0, <1>1, StoreFacts
<1>5. FilesTracked'
  <2>1. b \notin DOMAIN store.states \/ Listed(store) = {}
    BY EmptySeq DEF b, StatesInv, Placed, Listed
  <2>2. Listed(store') = Listed(store)
    BY <1>1 DEF Listed
  <2> QED
    BY <1>1, <1>3, <2>1, <2>2 DEF FilesTracked, StatesInv, Placed
<1> QED
  BY <1>1, <1>2, <1>3, <1>4, <1>5 DEF Shrinks, StatesInv, Placed, Ordered

\* Taking the listed states of S away, with their files, keeps the rest tracked.
LEMMA RemovedTracked ==
    ASSUME Typed, StatesInv, NEW S, NEW stuck,
           store'.files = FilesRemoved(store, S, stuck),
           store'.failed = store.failed \cup stuck,
           Listed(store') = Listed(store) \ S,
           \A x \in DOMAIN store.states : x \notin S => x \in DOMAIN store'.states
               \/ x \notin Listed(store)
    PROVE  FilesTracked'
<1>1. /\ DOMAIN store'.files \subseteq DOMAIN store.files
      /\ \A x \in DOMAIN store.files : x \notin S => x \in DOMAIN store'.files
      /\ \A x \in DOMAIN store'.files : store'.files[x] = store.files[x]
      /\ DOMAIN store'.files \cap S \cap Listed(store) \subseteq stuck
  BY FilesRemovedFacts
<1>2. /\ \A x \in Listed(store) : /\ x \in DOMAIN store.files
                                  /\ store.files[x] = Partial => x \in DOMAIN store.states
      /\ DOMAIN store.files \subseteq Listed(store) \cup store.failed
  BY DEF StatesInv, Placed, FilesTracked
<1> QED
  BY <1>1, <1>2 DEF FilesTracked

LEMMA PurgedShrinks ==
    ASSUME StatesInv, PurgeOldest
    PROVE  Shrinks /\ ~MemoryOnly
<1> DEFINE b == Head(store.oldest)
<1>0. Typed
  BY DEF StatesInv
<1>1. /\ store' \in Store /\ Len(store.oldest) > 0
      /\ store'.onDisk = Without(store.onDisk, {b})
      /\ store'.oldest = Tail(store.oldest)
      /\ store'.states = store.states /\ store'.present = store.present
      /\ store'.limit = store.limit
  BY <1>0, PurgedFields
<1>2. /\ Rng(Tail(store.oldest)) \subseteq Rng(store.oldest)
      /\ Rng(store.oldest) \subseteq Rng(Tail(store.oldest)) \cup {b}
      /\ Sorted(Tail(store.oldest))
  <2>1. store.oldest \in Seq(Blocks)
    BY <1>0, StoreFacts
  <2>2. Sorted(store.oldest)
    BY DEF StatesInv, Ordered
  <2> QED
    BY <1>1, <2>1, <2>2, TailFacts
<1> HIDE DEF b
<1>3. /\ DOMAIN store'.onDisk = DOMAIN store.onDisk \ {b}
      /\ \A x \in DOMAIN store.onDisk \ {b} : store'.onDisk[x] = store.onDisk[x]
  BY <1>1 DEF Without
<1>4. store'.limit >= MinLimit
  BY <1>0, <1>1, StoreFacts
<1>5. FilesTracked'
  <2>1. PICK stuck \in SUBSET ({b} \cap Listed(store)) :
          /\ store'.files = FilesRemoved(store, {b}, stuck)
          /\ store'.failed = store.failed \cup stuck
    BY <1>0, PurgedFields DEF b
  <2>2. Listed(store') = Listed(store) \ {b}
    BY <1>3 DEF Listed
  <2> QED
    BY <1>0, <1>1, <2>1, <2>2, RemovedTracked
<1>6. ~MemoryOnly
  BY DEF PurgeOldest, DiskFull
<1> QED
  BY <1>1, <1>2, <1>3, <1>4, <1>5, <1>6 DEF Shrinks, StatesInv, Placed, Ordered

LEMMA RemovedShrinks ==
    ASSUME StatesInv, NEW S, NEW stuck \in SUBSET (S \cap Listed(store)),
           store' = RemoveBlockStates(store, S, stuck)
    PROVE  /\ Shrinks /\ (MemoryOnly => store'.oldest = <<>>)
           /\ Rng(store'.present) \cap S = {} /\ Rng(store'.oldest) \cap S = {}
<1>0. Typed
  BY DEF StatesInv
<1>1. /\ store' \in Store
      /\ store'.states = Without(store.states, S)
      /\ store'.onDisk = Without(store.onDisk, S)
      /\ store'.files = FilesRemoved(store, S, stuck)
      /\ store'.failed = store.failed \cup stuck
      /\ store'.present = Retain(store.present, Blocks \ S)
      /\ store'.oldest = Retain(store.oldest, Blocks \ S)
      /\ store'.limit = store.limit
  BY <1>0, RemovedFields
<1>2. /\ store.present \in Seq(Blocks) /\ store.oldest \in Seq(Blocks)
      /\ store.limit >= MinLimit
      /\ DOMAIN store.states \subseteq Blocks /\ DOMAIN store.onDisk \subseteq Blocks
  BY <1>0, StoreFacts, MapsFacts
<1>3. Sorted(store.present) /\ Sorted(store.oldest)
  BY DEF StatesInv, Ordered
<1>4. /\ Rng(store'.present) = Rng(store.present) \cap (Blocks \ S)
      /\ Rng(store'.oldest) = Rng(store.oldest) \cap (Blocks \ S)
      /\ Sorted(store'.present) /\ Sorted(store'.oldest)
      /\ store'.oldest \in Seq(Blocks)
  BY <1>1, <1>2, <1>3, RetainFacts
<1>5. /\ DOMAIN store'.states = DOMAIN store.states \ S
      /\ DOMAIN store'.onDisk = DOMAIN store.onDisk \ S
      /\ \A x \in DOMAIN store.onDisk \ S : store'.onDisk[x] = store.onDisk[x]
  BY <1>1 DEF Without
<1>6. FilesTracked'
  <2>1. Listed(store') = Listed(store) \ S
    BY <1>5 DEF Listed
  <2> QED
    BY <1>0, <1>1, <1>5, <2>1, RemovedTracked
<1>7. MemoryOnly => store'.oldest = <<>>
  <2> SUFFICES ASSUME MemoryOnly PROVE store'.oldest = <<>>
    OBVIOUS
  <2>1. Rng(store'.oldest) = {}
    BY <1>4, EmptySeq DEF StatesInv, Placed
  <2>2. Len(store'.oldest) = 0
    <3>1. Len(store'.oldest) \in Nat
      BY <1>4
    <3>2. ~(1 \in 1..Len(store'.oldest))
      BY <2>1 DEF Rng
    <3> QED
      BY <3>1, <3>2
  <2> QED
    BY <1>4, <2>2
<1> QED
  BY <1>1, <1>2, <1>4, <1>5, <1>6, <1>7 DEF Shrinks, StatesInv, Placed

LEMMA FinishInv ==
    ASSUME StatesInv, Finish, chain' = chain, mined' = mined
    PROVE  StatesInv'
<1>0. Typed
  BY DEF StatesInv
<1>1. op' \in Op /\ op'.block = None
  BY DEF Finish, NoOp, Op
<1>2. CASE op.block = None
  <2>1. store' = store
    BY <1>2 DEF Finish
  <2> QED
    BY <1>0, <1>1, <2>1, SameFields, UnmovedShrinks, ShrinksInv
<1>3. CASE op.block # None
  <2>1. /\ store' \in Store
        /\ store'.states = Put(store.states, op.block, op.state)
        /\ store'.present = Append(store.present, op.block)
        /\ store'.onDisk = store.onDisk /\ store'.files = store.files
        /\ store'.oldest = store.oldest /\ store'.limit = store.limit
        /\ store'.failed = store.failed
    BY <1>0, <1>3, FinishFields
  <2>2. op.block \in Blocks /\ store.present \in Seq(Blocks) /\ store.limit >= MinLimit
    BY <1>0, <1>3, StoreFacts DEF Typed, Op
  <2>3. /\ op.block \in chain
        /\ \A x \in Rng(store.oldest) \cup Rng(store.present) : x <= op.block
    BY <1>3 DEF StatesInv, Ordered
  <2>4. Sorted(store.present)
    BY DEF StatesInv, Ordered
  <2>5. Rng(store'.present) = Rng(store.present) \cup {op.block} /\ Sorted(store'.present)
    BY <2>1, <2>2, <2>3, <2>4, AppendFacts
  <2>6. DOMAIN store'.states = DOMAIN store.states \cup {op.block}
    BY <2>1 DEF Put
  <2>7. Typed'
    BY <1>0, <1>1, <2>1, <2>2 DEF Typed
  <2>8. Ordered'
    BY <1>1, <2>1, <2>3, <2>5 DEF StatesInv, Ordered
  <2>9. Placed'
    BY <2>1, <2>5, <2>6 DEF StatesInv, Placed, FilesTracked, Listed
  <2> QED
    BY <2>7, <2>8, <2>9 DEF StatesInv
<1> QED
  BY <1>2, <1>3

LEMMA MineInv ==
    ASSUME StatesInv, NEW s \in States, Mine(s)
    PROVE  StatesInv'
<1>0. Typed
  BY DEF StatesInv
<1>1. Unmoved
  BY <1>0, ShrunkFields DEF Mine, Insert
<1>2. Head_ \in chain /\ (\A c \in chain : c <= Head_) /\ Head_ \in Blocks
  BY <1>0, HeadFacts DEF Typed
<1>3. op' = [phase |-> "memory", block |-> Head_, state |-> s]
  BY DEF Mine, Insert
<1>4. /\ op' \in Op /\ op'.block = Head_ /\ op'.state = s
  BY <1>2, <1>3 DEF Op
<1>5. mined + 1 \in Blocks /\ mined' = mined + 1 /\ chain' = chain \cup {mined + 1}
  BY DEF Mine
<1>6. /\ mined \in Nat /\ mined' \in Blocks /\ chain' \subseteq 1..mined'
      /\ chain' \subseteq Blocks
  BY <1>0, <1>5, HistoryAssumption DEF Typed
<1>7. \E m \in chain' : \A c \in chain' : c <= m
  <2>1. mined + 1 \in chain' /\ \A c \in chain' : c <= mined + 1
    BY <1>5, <1>6
  <2> QED
    BY <2>1
<1>8. Typed'
  BY <1>1, <1>4, <1>6, <1>7 DEF Typed, Unmoved
<1>9. Ordered'
  <2>1. /\ Rng(store.present) \subseteq chain /\ Rng(store.oldest) \subseteq chain
        /\ Sorted(store.present) /\ Sorted(store.oldest)
        /\ \A x \in Rng(store.oldest), y \in Rng(store.present) : x <= y
    BY DEF StatesInv, Ordered
  <2>2. \A x \in Rng(store.oldest) \cup Rng(store.present) : x <= Head_
    BY <1>2, <2>1
  <2> QED
    BY <1>1, <1>2, <1>4, <1>5, <2>1, <2>2 DEF Ordered, Unmoved
<1>10. Placed'
  BY <1>1, UnmovedShrinks, ShrinksKeeps
<1> QED
  BY <1>8, <1>9, <1>10 DEF StatesInv

LEMMA UnwindInv ==
    ASSUME StatesInv, NEW b \in chain, Unwind(b)
    PROVE  StatesInv'
<1> DEFINE removed == {c \in chain : c > b}
<1>0. Typed
  BY DEF StatesInv
<1>1. /\ \E stuck \in SUBSET (removed \cap Listed(store)) :
            store' = RemoveBlockStates(store, removed, stuck)
      /\ chain' = chain \ removed
      /\ op' = op /\ mined' = mined /\ op = NoOp
  BY DEF Unwind
<1>2. /\ Shrinks /\ (MemoryOnly => store'.oldest = <<>>)
      /\ Rng(store'.present) \cap removed = {} /\ Rng(store'.oldest) \cap removed = {}
  <2> HIDE DEF removed
  <2> QED
    BY <1>1, RemovedShrinks
<1>3. chain \subseteq Nat /\ b \in Nat
  BY <1>0, HistoryAssumption DEF Typed
<1>4. b \in chain' /\ \A c \in chain' : c <= b
  BY <1>1, <1>3
<1> HIDE DEF removed
<1>5. Typed'
  BY <1>0, <1>1, <1>2, <1>4 DEF Typed, Shrinks
<1>6. Ordered'
  <2>1. op'.block = None
    BY <1>1 DEF NoOp
  <2> QED
    BY <1>1, <1>2, <2>1 DEF StatesInv, Ordered, Shrinks
<1> QED
  BY <1>2, <1>5, <1>6, ShrinksKeeps DEF StatesInv

LEMMA ResetInv == ASSUME StatesInv, Reset PROVE StatesInv'
<1>0. Typed
  BY DEF StatesInv
<1>1. /\ mined + 1 \in Blocks /\ mined' = mined + 1 /\ chain' = {mined + 1}
      /\ op' = op /\ op = NoOp
  BY DEF Reset
<1>2. /\ store' \in Store
      /\ store'.states = <<>> /\ store'.onDisk = <<>>
      /\ \E stuck : /\ store'.files = FilesRemoved(store, Listed(store), stuck)
                    /\ store'.failed = store.failed \cup stuck
      /\ store'.present = <<>> /\ store'.oldest = <<>>
      /\ store'.limit = store.limit
  BY <1>0, ClearedFields DEF Reset
<1>3. mined \in Nat
  BY <1>0, HistoryAssumption DEF Typed
<1>4. Typed'
  BY <1>0, <1>1, <1>2, <1>3 DEF Typed
<1>5. Ordered'
  BY <1>1, <1>2, EmptySeq DEF Ordered, NoOp
<1>6. FilesTracked'
  <2>1. Listed(store') = {}
    BY <1>2, EmptyMaps DEF Listed
  <2> QED
    BY <1>0, <1>2, <2>1, RemovedTracked
<1>7. Placed'
  BY <1>2, <1>6, EmptySeq, EmptyMaps DEF Placed
<1> QED
  BY <1>4, <1>5, <1>7 DEF StatesInv

LEMMA EnforceInv == ASSUME StatesInv, Enforce PROVE StatesInv'
<1>0. Typed /\ chain' = chain /\ mined' = mined
  BY DEF StatesInv, Enforce
<1>1. op \in Op
  BY <1>0 DEF Typed
<1>2. CASE EvictOldest
  <2>1. op' = op /\ op.phase = "memory" /\ Len(store.present) >= store.limit
    BY <1>2 DEF EvictOldest
  <2>2. CASE Head(store.present) \in DOMAIN store.states /\ ~MemoryOnly
    BY <1>0, <1>2, <2>1, <2>2, DemotedKeeps
  <2>3. CASE Head(store.present) \notin DOMAIN store.states \/ MemoryOnly
    BY <1>0, <1>1, <1>2, <2>1, <2>3, PoppedShrinks, ShrinksInv
  <2> QED
    BY <2>2, <2>3
<1>3. CASE WriteFails
  <2>1. op' = [op EXCEPT !.phase = "disk"]
    BY <1>3 DEF WriteFails
  <2>2. op' \in Op /\ op'.block = op.block /\ op'.state = op.state
    BY <1>1, <2>1 DEF Op
  <2> QED
    BY <1>0, <1>3, <2>2, KeptFields, UnmovedShrinks, ShrinksInv
<1>4. CASE MemoryEnforced
  <2>1. op' = [op EXCEPT !.phase = "disk"] /\ store' = store
    BY <1>4 DEF MemoryEnforced
  <2>2. op' \in Op /\ op'.block = op.block /\ op'.state = op.state
    BY <1>1, <2>1 DEF Op
  <2> QED
    BY <1>0, <2>1, <2>2, SameFields, UnmovedShrinks, ShrinksInv
<1>5. CASE PurgeOldest
  <2>1. op' = op
    BY <1>5 DEF PurgeOldest
  <2> QED
    BY <1>0, <1>1, <1>5, <2>1, PurgedShrinks, ShrinksInv
<1>6. CASE Finish
  BY <1>0, <1>6, FinishInv
<1> QED
  BY <1>2, <1>3, <1>4, <1>5, <1>6 DEF Enforce, StatesStep

LEMMA NextInv == StatesInv /\ [Next]_vars => StatesInv'
<1> SUFFICES ASSUME StatesInv, [Next]_vars PROVE StatesInv'
  OBVIOUS
<1>1. CASE \E s \in States : Mine(s)
  BY <1>1, MineInv
<1>2. CASE Enforce
  BY <1>2, EnforceInv
<1>3. CASE SetFastBlocks
  <2>1. /\ FastBlocks /\ op' = [NoOp EXCEPT !.phase = "memory"]
        /\ chain' = chain /\ mined' = mined
    BY <1>3 DEF SetFastBlocks, FastBlocks
  <2>2. op' \in Op /\ op'.block = None
    BY <2>1 DEF Op, NoOp
  <2>3. Typed
    BY DEF StatesInv
  <2> QED
    BY <2>1, <2>2, <2>3, FastFields, UnmovedShrinks, ShrinksInv
<1>4. CASE \E b \in chain : Unwind(b)
  BY <1>4, UnwindInv
<1>5. CASE Reset
  BY <1>5, ResetInv
<1>6. CASE UNCHANGED vars
  BY <1>6 DEF vars, StatesInv, Typed, Ordered, Placed, FilesTracked, Listed
<1> QED
  BY <1>1, <1>2, <1>3, <1>4, <1>5, <1>6 DEF Next

LEMMA StatesInvariant == Spec => []StatesInv
BY InitInv, NextInv, PTL DEF Spec

(* The store is well formed whatever the order of inserts, unwinds, resets *)
(* and failed writes, and in_memory_limit never falls below its minimum:   *)
(* insert of InMemoryBlockStates always has a state to pop when the memory *)
(* is full.                                                                *)
THEOREM StoreTyped == Spec => []TypeOK
<1>1. StatesInv => TypeOK
  <2> SUFFICES ASSUME Typed PROVE TypeOK
    BY DEF StatesInv
  <2>1. /\ MapsTo(store.states, States) /\ MapsTo(store.onDisk, States \cup {None})
        /\ MapsTo(store.files, States \cup {Partial})
    BY StoreFacts, MapsFacts DEF MapsTo
  <2>2. op.phase \in {"none", "memory", "disk"} /\ op.block \in Blocks \cup {None}
    BY DEF Typed, Op
  <2> QED
    BY <2>1, <2>2, StoreFacts DEF TypeOK, Typed
<1> QED
  BY <1>1, StatesInvariant, PTL

(* Whatever writes and deletions of DiskStateCache fail, and in whatever   *)
(* order the two loops of enforce_limits, remove_block_states and clear    *)
(* come: a state listed in on_disk_states can be read back or is still in  *)
(* memory, and a file that no state lists is one whose own write or        *)
(* deletion has failed.                                                    *)
THEOREM CacheFilesTracked == Spec => []FilesTracked
<1>1. StatesInv => FilesTracked
  BY DEF StatesInv, Placed
<1> QED
  BY <1>1, StatesInvariant, PTL

----------------------------------------------------------------------------
(* The store implements HistoricStates *)

Kept(st) == [b \in Available(st) |-> Lookup(st, b)]

LEMMA AvailableFacts ==
    ASSUME StatesInv
    PROVE  /\ Available(store) = DOMAIN store.states \cup DOMAIN store.onDisk
           /\ Available(store) \subseteq Blocks /\ Available(store) \subseteq chain
           /\ Blocks \subseteq Nat
<1>1. Available(store) = DOMAIN store.states \cup DOMAIN store.onDisk
  BY DEF Available, StatesInv, Placed, FilesTracked, Listed
<1>2. Available(store) \subseteq chain /\ chain \subseteq Blocks
  BY <1>1 DEF StatesInv, Placed, Ordered, Typed
<1> QED
  BY <1>1, <1>2, HistoryAssumption

\* The lookups that a step does not change.
SameKept(S) ==
    /\ Available(store') = S
    /\ \A x \in S : x \in Available(store) /\ Lookup(store', x) = Lookup(store, x)

LEMMA Stutters ==
    ASSUME SameKept(Available(store)), ledger' = ledger
    PROVE  UNCHANGED History!vars
<1>1. Kept(store') = Kept(store)
  BY DEF Kept, SameKept
<1> QED
  BY <1>1 DEF History!vars, Kept

LEMMA Restricts ==
    ASSUME NEW S, SameKept(Available(store) \cap S)
    PROVE  Kept(store') = History!Restricted(Kept(store), S)
BY DEF Kept, SameKept, History!Restricted

LEMMA Forgets ==
    ASSUME NEW b \in Available(store), \A c \in Available(store) : b <= c,
           SameKept(Available(store) \ {b}), ledger' = ledger
    PROVE  History!ForgetOldest
<1> DEFINE S == Available(store) \ {b}
<1>1. DOMAIN Kept(store) = Available(store)
  BY DEF Kept
<1>2. SameKept(Available(store) \cap S)
  <2>1. Available(store) \cap S = S
    OBVIOUS
  <2> QED
    BY <2>1
<1>3. Kept(store') = History!Restricted(Kept(store), DOMAIN Kept(store) \ {b})
  <2> HIDE DEF S
  <2>1. Kept(store') = History!Restricted(Kept(store), S)
    BY <1>2, Restricts
  <2> QED
    BY <1>1, <2>1 DEF S
<1> QED
  BY <1>1, <1>3 DEF History!ForgetOldest, Kept

LEMMA EvictKept ==
    ASSUME StatesInv, EvictOldest, chain' = chain, mined' = mined, ledger' = ledger
    PROVE  History!ForgetOldest \/ UNCHANGED History!vars
<1> DEFINE b == Head(store.present)
<1>0. Typed /\ op' = op /\ op.phase = "memory" /\ Len(store.present) >= store.limit
  BY DEF StatesInv, EvictOldest
<1>1. Available(store) = DOMAIN store.states \cup DOMAIN store.onDisk
  BY AvailableFacts
<1>2. CASE b \in DOMAIN store.states /\ ~MemoryOnly
  <2>1. /\ store'.states = Without(store.states, {b})
        /\ store'.onDisk = Put(store.onDisk, b, IF Persistent THEN store.states[b] ELSE None)
        /\ store'.files = IF Persistent THEN store.files
                          ELSE Put(store.files, b, store.states[b])
    BY <1>0, <1>2, DemotedFields
  <2>2. store.states[b] # None
    <3>1. store.states \in Maps(States)
      BY <1>0, StoreFacts
    <3> QED
      BY <1>2, <3>1, MapsFacts, HistoryAssumption
  <2> HIDE DEF b
  <2>3. StatesInv'
    BY <1>0, <1>2, DemotedKeeps DEF b
  <2>4. Available(store') = DOMAIN store'.states \cup DOMAIN store'.onDisk
    BY <2>3 DEF Available, StatesInv, Placed, FilesTracked, Listed
  <2>5. /\ DOMAIN store'.states = DOMAIN store.states \ {b}
        /\ DOMAIN store'.onDisk = DOMAIN store.onDisk \cup {b}
        /\ \A x \in DOMAIN store.states \ {b} : store'.states[x] = store.states[x]
        /\ \A x \in DOMAIN store.onDisk \ {b} : store'.onDisk[x] = store.onDisk[x]
    BY <2>1 DEF Without, Put
  <2>6. \A x \in DOMAIN store.files \ {b} : store'.files[x] = store.files[x]
    BY <2>1 DEF Put
  <2>7. Available(store') = Available(store)
    BY <1>1, <1>2, <2>4, <2>5
  <2>8. Lookup(store', b) = Lookup(store, b)
    <3>1. Lookup(store, b) = store.states[b]
      BY <1>2 DEF Lookup
    <3>2. CASE Persistent
      <4>1. store'.onDisk[b] = store.states[b]
        BY <2>1, <3>2 DEF Put
      <4> QED
        BY <2>2, <2>5, <3>1, <4>1 DEF Lookup
    <3>3. CASE ~Persistent
      <4>1. store'.onDisk[b] = None /\ store'.files[b] = store.states[b]
        BY <2>1, <3>3 DEF Put
      <4> QED
        BY <2>5, <3>1, <4>1 DEF Lookup
    <3> QED
      BY <3>2, <3>3
  <2>9. ASSUME NEW x \in Available(store), x # b
        PROVE  Lookup(store', x) = Lookup(store, x)
    <3>1. CASE x \in DOMAIN store.states
      BY <2>5, <2>9, <3>1 DEF Lookup
    <3>2. CASE x \notin DOMAIN store.states
      <4>1. x \in DOMAIN store.onDisk /\ store'.onDisk[x] = store.onDisk[x]
        BY <1>1, <2>5, <2>9, <3>2
      <4>2. store.onDisk[x] = None => store'.files[x] = store.files[x]
        BY <2>6, <2>9, <4>1 DEF StatesInv, Placed, FilesTracked, Listed
      <4> QED
        BY <2>5, <3>2, <4>1, <4>2 DEF Lookup
    <3> QED
      BY <3>1, <3>2
  <2>10. SameKept(Available(store))
    BY <2>7, <2>8, <2>9 DEF SameKept
  <2> QED
    BY <2>10, Stutters
<1>3. CASE b \notin DOMAIN store.states \/ MemoryOnly
  <2>1. /\ store'.states = Without(store.states, {b})
        /\ store'.onDisk = store.onDisk /\ store'.files = store.files
    BY <1>0, <1>3, PoppedFields
  <2>2. \A x \in Rng(store.present) : b <= x
    <3>1. Len(store.present) > 0 /\ store.present \in Seq(Blocks)
      BY <1>0, StoreFacts
    <3>2. Sorted(store.present)
      BY DEF StatesInv, Ordered
    <3> QED
      BY <3>1, <3>2, TailFacts
  <2> HIDE DEF b
  <2>3. /\ DOMAIN store'.states = DOMAIN store.states \ {b}
        /\ \A x \in DOMAIN store.states \ {b} : store'.states[x] = store.states[x]
    BY <2>1 DEF Without
  <2>4. /\ Available(store') = DOMAIN store'.states \cup DOMAIN store'.onDisk
    BY <1>0, <1>3, <2>1, PoppedShrinks, ShrinksKeeps DEF Available, Placed, FilesTracked, Listed, b
  <2>5. CASE b \notin DOMAIN store.states
    <3>1. SameKept(Available(store))
      BY <1>1, <2>1, <2>3, <2>4, <2>5 DEF SameKept, Lookup
    <3> QED
      BY <3>1, Stutters
  <2>6. CASE b \in DOMAIN store.states
    <3>1. DOMAIN store.onDisk = {}
      BY <1>3, <2>6, EmptySeq DEF StatesInv, Placed
    <3>2. SameKept(Available(store) \ {b})
      BY <1>1, <2>1, <2>3, <2>4, <3>1 DEF SameKept, Lookup
    <3>3. b \in Available(store) /\ \A c \in Available(store) : b <= c
      BY <1>1, <2>2, <2>6, <3>1 DEF StatesInv, Placed
    <3> QED
      BY <3>2, <3>3, Forgets
  <2> QED
    BY <2>5, <2>6
<1> QED
  BY <1>2, <1>3

LEMMA PurgeKept ==
    ASSUME StatesInv, PurgeOldest, ledger' = ledger
    PROVE  History!ForgetOldest \/ UNCHANGED History!vars
<1> DEFINE b == Head(store.oldest)
<1>0. Typed
  BY DEF StatesInv
<1>1. Available(store) = DOMAIN store.states \cup DOMAIN store.onDisk
  BY AvailableFacts
<1>2. /\ Len(store.oldest) > 0
      /\ store'.onDisk = Without(store.onDisk, {b})
      /\ \E stuck : store'.files = FilesRemoved(store, {b}, stuck)
      /\ store'.states = store.states
  BY <1>0, PurgedFields
<1>3. b \in Rng(store.oldest) /\ \A x \in Rng(store.oldest) : b <= x
  <2>1. store.oldest \in Seq(Blocks)
    BY <1>0, StoreFacts
  <2>2. Sorted(store.oldest)
    BY DEF StatesInv, Ordered
  <2> QED
    BY <1>2, <2>1, <2>2, TailFacts
<1> HIDE DEF b
<1>4. /\ DOMAIN store'.onDisk = DOMAIN store.onDisk \ {b}
      /\ \A x \in DOMAIN store.onDisk \ {b} : store'.onDisk[x] = store.onDisk[x]
      /\ \A x \in DOMAIN store.files \ {b} : store'.files[x] = store.files[x]
  <2>1. \A x \in DOMAIN store.files \ {b} : store'.files[x] = store.files[x]
    BY <1>0, <1>2, FilesRemovedFacts
  <2> QED
    BY <1>2, <2>1 DEF Without
<1>5. Available(store') = DOMAIN store'.states \cup DOMAIN store'.onDisk
  BY PurgedShrinks, ShrinksKeeps DEF Available, Placed, FilesTracked, Listed
<1>6. ASSUME NEW x \in Available(store), x # b \/ b \in DOMAIN store.states
      PROVE  Lookup(store', x) = Lookup(store, x)
  <2>1. CASE x \in DOMAIN store.states
    BY <1>2, <2>1 DEF Lookup
  <2>2. CASE x \notin DOMAIN store.states
    <3>1. x \in DOMAIN store.onDisk \ {b}
      BY <1>1, <1>6, <2>2
    <3>2. store.onDisk[x] = None => store'.files[x] = store.files[x]
      BY <1>4, <3>1 DEF StatesInv, Placed, FilesTracked, Listed
    <3> QED
      BY <1>2, <1>4, <2>2, <3>1, <3>2 DEF Lookup
  <2> QED
    BY <2>1, <2>2
<1>7. CASE b \in DOMAIN store.states \/ b \notin DOMAIN store.onDisk
  <2>1. Available(store') = Available(store)
    BY <1>1, <1>2, <1>4, <1>5, <1>7
  <2>2. \A x \in Available(store) : x # b \/ b \in DOMAIN store.states
    BY <1>1, <1>7
  <2>3. SameKept(Available(store))
    BY <1>6, <2>1, <2>2 DEF SameKept
  <2> QED
    BY <2>3, Stutters
<1>8. CASE b \notin DOMAIN store.states /\ b \in DOMAIN store.onDisk
  <2>1. Available(store') = Available(store) \ {b}
    BY <1>1, <1>2, <1>4, <1>5, <1>8
  <2>2. SameKept(Available(store) \ {b})
    BY <1>6, <2>1 DEF SameKept
  <2>3. b \in Available(store) /\ \A c \in Available(store) : b <= c
    BY <1>1, <1>3, <1>8 DEF StatesInv, Placed, Ordered
  <2> QED
    BY <2>2, <2>3, Forgets
<1> QED
  BY <1>7, <1>8

LEMMA UnmovedKept ==
    ASSUME StatesInv, Unmoved, ledger' = ledger
    PROVE  UNCHANGED History!vars
<1>1. Available(store) = DOMAIN store.states \cup DOMAIN store.onDisk
  BY AvailableFacts
<1>2. Available(store') = DOMAIN store'.states \cup DOMAIN store'.onDisk
  BY UnmovedShrinks, ShrinksKeeps DEF Available, Placed, FilesTracked, Listed
<1>3. ASSUME NEW x \in Available(store) PROVE Lookup(store', x) = Lookup(store, x)
  <2>1. CASE x \in DOMAIN store.states
    BY <2>1 DEF Unmoved, Lookup
  <2>2. CASE x \notin DOMAIN store.states
    <3>1. store.onDisk[x] = None => store'.files[x] = store.files[x]
      BY <1>1, <2>2 DEF Unmoved, StatesInv, Placed, FilesTracked, Listed
    <3> QED
      BY <2>2, <3>1 DEF Unmoved, Lookup
  <2> QED
    BY <2>1, <2>2
<1>4. SameKept(Available(store))
  BY <1>1, <1>2, <1>3 DEF SameKept, Unmoved
<1> QED
  BY <1>4, Stutters

LEMMA FinishKept ==
    ASSUME StatesInv, Finish, op.block # None,
           ledger' = Put(ledger, op.block, op.state)
    PROVE  \E b \in Blocks, s \in States : History!Record(b, s)
<1>0. Typed
  BY DEF StatesInv
<1>1. op.block \in Blocks /\ op.state \in States
  BY <1>0 DEF Typed, Op
<1>2. /\ store'.states = Put(store.states, op.block, op.state)
      /\ store'.onDisk = store.onDisk /\ store'.files = store.files
  BY <1>0, FinishFields
<1>3. /\ DOMAIN store'.states = DOMAIN store.states \cup {op.block}
      /\ store'.states[op.block] = op.state
      /\ \A x \in DOMAIN store.states \ {op.block} : store'.states[x] = store.states[x]
  BY <1>2 DEF Put
<1>4. Available(store') = Available(store) \cup {op.block}
  BY <1>2, <1>3 DEF Available
<1>5. Lookup(store', op.block) = op.state
  BY <1>3 DEF Lookup
<1>6. ASSUME NEW x \in Available(store), x # op.block
      PROVE  Lookup(store', x) = Lookup(store, x)
  BY <1>2, <1>3, <1>6 DEF Lookup
<1>7. Kept(store') = History!With(Kept(store), op.block, op.state)
  BY <1>4, <1>5, <1>6 DEF Kept, History!With
<1>8. ledger' = History!With(ledger, op.block, op.state)
  BY DEF Put, History!With
<1>9. History!Record(op.block, op.state)
  BY <1>7, <1>8 DEF History!Record, Kept
<1> QED
  BY <1>1, <1>9

LEMMA UnwindKept ==
    ASSUME StatesInv, NEW b \in chain, Unwind(b)
    PROVE  \E c \in Blocks : History!Unwind(c)
<1> DEFINE removed == {c \in chain : c > b}
           left == {c \in Blocks : c <= b}
<1>0. Typed
  BY DEF StatesInv
<1>1. /\ Available(store) = DOMAIN store.states \cup DOMAIN store.onDisk
      /\ Available(store) \subseteq chain /\ chain \subseteq Blocks /\ Blocks \subseteq Nat
  <2>1. chain \subseteq Blocks
    BY <1>0 DEF Typed
  <2> QED
    BY <2>1, AvailableFacts
<1>2. PICK stuck \in SUBSET (removed \cap Listed(store)) :
        store' = RemoveBlockStates(store, removed, stuck) /\ ledger' = ledger
  BY DEF Unwind
<1>3. Available(store) \ removed = Available(store) \cap left
  <2>1. ASSUME NEW x \in Available(store) PROVE x \in removed <=> x \notin left
    <3>1. x \in chain /\ x \in Blocks /\ x \in Nat /\ b \in Nat
      BY <1>1
    <3>2. x > b <=> ~(x <= b)
      BY <3>1
    <3> QED
      BY <3>1, <3>2
  <2> HIDE DEF removed, left
  <2> QED
    BY <2>1
<1> HIDE DEF removed, left
<1>4. /\ store'.states = Without(store.states, removed)
      /\ store'.onDisk = Without(store.onDisk, removed)
      /\ store'.files = FilesRemoved(store, removed, stuck)
  BY <1>0, <1>2, RemovedFields
<1>5. /\ DOMAIN store'.states = DOMAIN store.states \ removed
      /\ DOMAIN store'.onDisk = DOMAIN store.onDisk \ removed
      /\ \A x \in DOMAIN store.states \ removed : store'.states[x] = store.states[x]
      /\ \A x \in DOMAIN store.onDisk \ removed : store'.onDisk[x] = store.onDisk[x]
      /\ \A x \in DOMAIN store.files \ removed : store'.files[x] = store.files[x]
  <2>1. \A x \in DOMAIN store.files \ removed : store'.files[x] = store.files[x]
    BY <1>0, <1>4, FilesRemovedFacts
  <2> QED
    BY <1>4, <2>1 DEF Without
<1>6. Available(store') = Available(store) \ removed
  <2>1. Available(store') = DOMAIN store'.states \cup DOMAIN store'.onDisk
    BY <1>2, RemovedShrinks, ShrinksKeeps DEF Available, Placed, FilesTracked, Listed
  <2> QED
    BY <1>1, <1>5, <2>1
<1>7. ASSUME NEW x \in Available(store) \ removed
      PROVE  Lookup(store', x) = Lookup(store, x)
  <2>1. CASE x \in DOMAIN store.states
    BY <1>5, <2>1 DEF Lookup
  <2>2. CASE x \notin DOMAIN store.states
    <3>1. x \in DOMAIN store.onDisk \ removed
      BY <1>1, <2>2
    <3>2. store.onDisk[x] = None => store'.files[x] = store.files[x]
      BY <1>5, <3>1 DEF StatesInv, Placed, FilesTracked, Listed
    <3> QED
      BY <1>5, <2>2, <3>1, <3>2 DEF Lookup
  <2> QED
    BY <2>1, <2>2
<1>8. SameKept(Available(store) \cap left)
  BY <1>3, <1>6, <1>7 DEF SameKept
<1>9. Kept(store') = History!Restricted(Kept(store), left)
  BY <1>8, Restricts
<1>10. History!Unwind(b)
  BY <1>2, <1>9 DEF History!Unwind, Kept, left
<1> QED
  BY <1>1, <1>10

LEMMA ResetKept == ASSUME StatesInv, Reset PROVE History!Clear
<1>0. Typed
  BY DEF StatesInv
<1>1. store'.states = <<>> /\ store'.onDisk = <<>>
  BY <1>0, ClearedFields DEF Reset
<1>2. Available(store') = {}
  BY <1>1, EmptyMaps DEF Available
<1>3. Kept(store') = <<>>
  BY <1>2 DEF Kept
<1> QED
  BY <1>3 DEF History!Clear, Kept, Reset

LEMMA EnforceKept == ASSUME StatesInv, Enforce PROVE [History!Next]_History!vars
<1>0. Typed /\ chain' = chain /\ mined' = mined
  BY DEF StatesInv, Enforce
<1>1. op \in Op
  BY <1>0 DEF Typed
<1>2. CASE EvictOldest
  <2>1. op' # NoOp
    BY <1>2 DEF EvictOldest, NoOp
  <2>2. ledger' = ledger
    BY <2>1 DEF Enforce
  <2> QED
    BY <1>0, <1>2, <2>2, EvictKept DEF History!Next
<1>3. CASE WriteFails
  <2>1. op'.phase = "disk"
    BY <1>1, <1>3 DEF WriteFails, Op
  <2>2. ledger' = ledger
    BY <2>1 DEF Enforce, NoOp
  <2> QED
    BY <1>0, <1>3, <2>2, KeptFields, UnmovedKept
<1>4. CASE MemoryEnforced
  <2>1. op'.phase = "disk" /\ store' = store
    BY <1>1, <1>4 DEF MemoryEnforced, Op
  <2>2. ledger' = ledger
    BY <2>1 DEF Enforce, NoOp
  <2> QED
    BY <1>0, <2>1, <2>2, SameFields, UnmovedKept
<1>5. CASE PurgeOldest
  <2>1. op' # NoOp
    BY <1>5 DEF PurgeOldest, NoOp
  <2>2. ledger' = ledger
    BY <2>1 DEF Enforce
  <2> QED
    BY <1>5, <2>2, PurgeKept DEF History!Next
<1>6. CASE Finish
  <2>1. op' = NoOp
    BY <1>6 DEF Finish
  <2>2. CASE op.block = None
    <3>1. store' = store /\ ledger' = ledger
      BY <1>6, <2>2 DEF Finish, Enforce
    <3> QED
      BY <1>0, <3>1, SameFields, UnmovedKept
  <2>3. CASE op.block # None
    <3>1. ledger' = Put(ledger, op.block, op.state)
      BY <2>1, <2>3 DEF Enforce
    <3> QED
      BY <1>6, <2>3, <3>1, FinishKept DEF History!Next
  <2> QED
    BY <2>2, <2>3
<1> QED
  BY <1>2, <1>3, <1>4, <1>5, <1>6 DEF Enforce, StatesStep

LEMMA StepKept == StatesInv /\ [Next]_vars => [History!Next]_History!vars
<1> SUFFICES ASSUME StatesInv, [Next]_vars PROVE [History!Next]_History!vars
  OBVIOUS
<1>0. Typed
  BY DEF StatesInv
<1>1. ASSUME NEW s \in States, Mine(s) PROVE UNCHANGED History!vars
  <2>1. store' = Shrunk(store) /\ ledger' = ledger
    BY <1>1 DEF Mine, Insert
  <2> QED
    BY <1>0, <2>1, ShrunkFields, UnmovedKept
<1>2. CASE Enforce
  BY <1>2, EnforceKept
<1>3. CASE SetFastBlocks
  <2>1. FastBlocks /\ ledger' = ledger
    BY <1>3 DEF SetFastBlocks
  <2> QED
    BY <1>0, <2>1, FastFields, UnmovedKept
<1>4. CASE \E b \in chain : Unwind(b)
  BY <1>4, UnwindKept DEF History!Next
<1>5. CASE Reset
  BY <1>5, ResetKept DEF History!Next
<1>6. CASE UNCHANGED vars
  <2>1. store' = store /\ ledger' = ledger
    BY <1>6 DEF vars
  <2> QED
    BY <1>0, <2>1, SameFields, UnmovedKept
<1> QED
  BY <1>1, <1>2, <1>3, <1>4, <1>5, <1>6 DEF Next

(* InMemoryBlockStates implements HistoricStates for any limits, with and  *)
(* without structural sharing: whatever tier a state has reached, get_state*)
(* and get_on_disk_state give the one recorded last for the block, states  *)
(* are lost oldest first, a write that fails loses none, and none comes    *)
(* back once its block was unwound or the chain reset.                     *)
THEOREM StoreImplementsHistory == Spec => KeepsHistory
<1>1. Init => History!Init
  <2> SUFFICES ASSUME Init PROVE History!Init
    OBVIOUS
  <2>1. store.states = <<>> /\ store.onDisk = <<>> /\ ledger = <<>>
    BY DEF Init, InitStates, EmptyStore
  <2>2. Available(store) = {}
    BY <2>1, EmptyMaps DEF Available
  <2>3. Kept(store) = <<>>
    BY <2>2 DEF Kept
  <2> QED
    BY <2>1, <2>3 DEF History!Init, Kept
<1> QED
  BY <1>1, StatesInvariant, StepKept, PTL DEF Spec, KeepsHistory, History!Spec

----------------------------------------------------------------------------
(* The states recorded last are there *)

\* The blocks of `recorded` whose states have reached the store.
Pending == IF op.block # None THEN 1 ELSE 0
Stored == IF recorded = <<>> THEN 0 ELSE Len(recorded) - Pending

\* The n blocks of r that are stored, as far as they are still queued, are at
\* the end of the queues, o before p: the i-th of them is at place
\* i + Len(p) - n of p or, when that is not positive, at that place of o counted
\* from its end. Each is there alone, and its state is in that tier.
InLine(p, o, S, D, r, n, i) ==
    /\ i + Len(p) - n >= 1 => r[i] \in S
    /\ i + Len(p) - n < 1 => r[i] \in D
    /\ \A j \in 1..Len(p) : p[j] = r[i] <=> j = i + Len(p) - n
    /\ \A j \in 1..Len(o) : o[j] = r[i] <=> j = i + Len(p) - n + Len(o)

LinedUp(p, o, S, D, r, n) ==
    \A i \in 1..n : i + Len(p) - n + Len(o) >= 1 => InLine(p, o, S, D, r, n, i)

Lined ==
    LinedUp(store.present, store.oldest, DOMAIN store.states, DOMAIN store.onDisk,
            recorded, Stored)

Limits ==
    /\ MemoryOnly => store.limit = MemoryLimit
    /\ op.phase = "memory" /\ op.block = None => store.limit = FastLimit /\ ~MemoryOnly

\* What has left memory, or the disk, made room for no more than one block.
Room == IF MemoryOnly THEN MemoryLimit ELSE MinLimit
Mem == Len(store.present)
Disk == Len(store.oldest)
AtRoom(n, m, k) == n > m => m >= Room - k
MemoryFilled == AtRoom(Stored, Mem, Pending)
AtLimit(n, m, d) == n > m + d => d >= DiskLimit - 1
DiskFilled == ~MemoryOnly => AtLimit(Stored, Mem, Disk)

Recording ==
    /\ recorded \in Seq(Blocks)
    /\ op.phase = "none" => op = NoOp
    /\ op.block # None /\ recorded # <<>> =>
         /\ recorded[Len(recorded)] = op.block
         /\ op.block \notin Rng(store.present) \cup Rng(store.oldest)

RecentInv == Recording /\ Lined /\ Limits /\ MemoryFilled /\ DiskFilled

LEMMA TailIndex ==
    ASSUME NEW s \in Seq(Blocks), Len(s) > 0
    PROVE  /\ Len(s) \in Nat /\ Tail(s) \in Seq(Blocks) /\ Len(Tail(s)) = Len(s) - 1
           /\ Head(s) = s[1] /\ 1 \in 1..Len(s)
           /\ \A j \in 1..Len(s)-1 : j + 1 \in 1..Len(s) /\ Tail(s)[j] = s[j+1]
OBVIOUS

LEMMA AppendIndex ==
    ASSUME NEW s \in Seq(Blocks), NEW b
    PROVE  /\ Len(s) \in Nat /\ Len(Append(s, b)) = Len(s) + 1
           /\ Append(s, b)[Len(s)+1] = b
           /\ \A j \in 1..Len(s) : Append(s, b)[j] = s[j]
           /\ \A j \in 1..Len(s)+1 : j \in 1..Len(s) \/ j = Len(s) + 1
OBVIOUS

\* A stored block moves to the second tier.
LEMMA LinedDemote ==
    ASSUME NEW p \in Seq(Blocks), NEW o \in Seq(Blocks), NEW S, NEW D, NEW r,
           NEW n \in Nat, Len(p) > 0, LinedUp(p, o, S, D, r, n)
    PROVE  LinedUp(Tail(p), Append(o, Head(p)), S \ {Head(p)}, D \cup {Head(p)}, r, n)
<1> DEFINE h == Head(p)
           t == Tail(p)
           a == Append(o, h)
<1>1. /\ Len(p) \in Nat /\ Len(t) = Len(p) - 1 /\ h = p[1] /\ 1 \in 1..Len(p)
      /\ \A j \in 1..Len(p)-1 : j + 1 \in 1..Len(p) /\ t[j] = p[j+1]
  BY TailIndex
<1>2. /\ Len(o) \in Nat /\ Len(a) = Len(o) + 1 /\ a[Len(o)+1] = h
      /\ \A j \in 1..Len(o) : a[j] = o[j]
      /\ \A j \in 1..Len(o)+1 : j \in 1..Len(o) \/ j = Len(o) + 1
  BY AppendIndex
<1> SUFFICES ASSUME NEW i \in 1..n, i + Len(t) - n + Len(a) >= 1
             PROVE  InLine(t, a, S \ {h}, D \cup {h}, r, n, i)
  BY DEF LinedUp
<1> HIDE DEF h, t, a
<1>a. /\ Len(p) \in Nat /\ Len(o) \in Nat /\ Len(t) = Len(p) - 1
      /\ i + Len(t) - n + Len(a) = i + Len(p) - n + Len(o)
  BY <1>1, <1>2
<1>3. InLine(p, o, S, D, r, n, i)
  BY <1>1, <1>2 DEF LinedUp
<1>4. p[1] = r[i] <=> 1 = i + Len(p) - n
  BY <1>1, <1>3 DEF InLine
<1>5. ASSUME NEW j \in 1..Len(t) PROVE t[j] = r[i] <=> j = i + Len(t) - n
  <2>1. j + 1 \in 1..Len(p) /\ t[j] = p[j+1]
    BY <1>1, <1>5
  <2>2. p[j+1] = r[i] <=> j + 1 = i + Len(p) - n
    BY <1>3, <2>1 DEF InLine
  <2>3. j + 1 = i + Len(p) - n <=> j = i + Len(t) - n
    BY <1>a
  <2> QED
    BY <2>1, <2>2, <2>3
<1>6. ASSUME NEW j \in 1..Len(a) PROVE a[j] = r[i] <=> j = i + Len(t) - n + Len(a)
  <2>1. CASE j \in 1..Len(o)
    <3>1. o[j] = r[i] <=> j = i + Len(p) - n + Len(o)
      BY <1>3, <2>1 DEF InLine
    <3>2. a[j] = o[j]
      BY <1>2, <2>1
    <3> QED
      BY <1>a, <3>1, <3>2
  <2>2. CASE j = Len(o) + 1
    <3>1. a[j] = p[1]
      BY <1>1, <1>2, <2>2
    <3>2. 1 = i + Len(p) - n <=> j = i + Len(p) - n + Len(o)
      BY <1>a, <2>2
    <3> QED
      BY <1>4, <1>a, <3>1, <3>2
  <2> QED
    BY <1>2, <2>1, <2>2
<1>7. i + Len(t) - n >= 1 => r[i] \in S \ {h}
  BY <1>1, <1>3, <1>4 DEF InLine
<1>8. i + Len(t) - n < 1 => r[i] \in D \cup {h}
  BY <1>1, <1>3, <1>4 DEF InLine
<1> QED
  BY <1>5, <1>6, <1>7, <1>8 DEF InLine

\* A block leaves memory for good: none that is stored, or there is no second tier.
LEMMA LinedPop ==
    ASSUME NEW p \in Seq(Blocks), NEW o \in Seq(Blocks), NEW S, NEW D, NEW r,
           NEW n \in Nat, Len(p) > 0, LinedUp(p, o, S, D, r, n),
           Head(p) \notin S \/ o = <<>>
    PROVE  /\ LinedUp(Tail(p), o, S \ {Head(p)}, D, r, n)
           /\ Head(p) \notin S => n < Len(p)
<1> DEFINE h == Head(p)
           t == Tail(p)
<1>1. /\ Len(p) \in Nat /\ Len(t) = Len(p) - 1 /\ h = p[1] /\ 1 \in 1..Len(p)
      /\ \A j \in 1..Len(p)-1 : j + 1 \in 1..Len(p) /\ t[j] = p[j+1]
  BY TailIndex
<1>2. Len(o) \in Nat /\ (o = <<>> => Len(o) = 0)
  OBVIOUS
<1>0. h \notin S \/ o = <<>>
  OBVIOUS
<1>3. h \notin S => n < Len(p)
  <2> SUFFICES ASSUME n >= Len(p), h \notin S PROVE FALSE
    BY <1>1
  <2> HIDE DEF h, t
  <2>1. n - Len(p) + 1 \in 1..n
    BY <1>1
  <2>2. PICK i \in 1..n : i = n - Len(p) + 1
    BY <2>1
  <2>3. i + Len(p) - n = 1
    BY <1>1, <2>2
  <2>4. InLine(p, o, S, D, r, n, i)
    BY <1>2, <2>3 DEF LinedUp
  <2>5. r[i] \in S /\ p[1] = r[i]
    BY <1>1, <2>3, <2>4 DEF InLine
  <2> QED
    BY <1>1, <2>5
<1>4. LinedUp(t, o, S \ {h}, D, r, n)
  <2> SUFFICES ASSUME NEW i \in 1..n, i + Len(t) - n + Len(o) >= 1
               PROVE  InLine(t, o, S \ {h}, D, r, n, i)
    BY DEF LinedUp
  <2> HIDE DEF h, t
  <2>1. InLine(p, o, S, D, r, n, i)
    BY <1>1, <1>2 DEF LinedUp
  <2>2. p[1] = r[i] <=> 1 = i + Len(p) - n
    BY <1>1, <2>1 DEF InLine
  <2>3. ASSUME NEW j \in 1..Len(t) PROVE t[j] = r[i] <=> j = i + Len(t) - n
    <3>1. j + 1 \in 1..Len(p) /\ t[j] = p[j+1]
      BY <1>1, <2>3
    <3>2. p[j+1] = r[i] <=> j + 1 = i + Len(p) - n
      BY <2>1, <3>1 DEF InLine
    <3> QED
      BY <1>1, <3>1, <3>2
  <2>4. ASSUME NEW j \in 1..Len(o) PROVE o[j] = r[i] <=> j = i + Len(t) - n + Len(o)
    <3>1. n < Len(p)
      BY <1>0, <1>2, <1>3, <2>4
    <3>2. o[j] = r[i] <=> j = i + Len(p) - n + Len(o)
      BY <2>1, <2>4 DEF InLine
    <3> QED
      BY <1>1, <1>2, <3>1, <3>2
  <2>5. i + Len(t) - n >= 1
    BY <1>0, <1>1, <1>2, <1>3
  <2>6. r[i] \in S \ {h}
    BY <1>1, <2>1, <2>2, <2>5 DEF InLine
  <2>7. Len(t) \in Nat
    BY <1>1
  <2> QED
    BY <2>3, <2>4, <2>5, <2>6, <2>7 DEF InLine
<1> QED
  BY <1>3, <1>4

\* A block leaves the second tier.
LEMMA LinedPurge ==
    ASSUME NEW p \in Seq(Blocks), NEW o \in Seq(Blocks), NEW S, NEW D, NEW r,
           NEW n \in Nat, Len(o) > 0, LinedUp(p, o, S, D, r, n)
    PROVE  LinedUp(p, Tail(o), S, D \ {Head(o)}, r, n)
<1> DEFINE h == Head(o)
           t == Tail(o)
<1>1. /\ Len(o) \in Nat /\ Len(t) = Len(o) - 1 /\ h = o[1] /\ 1 \in 1..Len(o)
      /\ \A j \in 1..Len(o)-1 : j + 1 \in 1..Len(o) /\ t[j] = o[j+1]
  BY TailIndex
<1>2. Len(p) \in Nat
  OBVIOUS
<1> SUFFICES ASSUME NEW i \in 1..n, i + Len(p) - n + Len(t) >= 1
             PROVE  InLine(p, t, S, D \ {h}, r, n, i)
  BY DEF LinedUp
<1> HIDE DEF h, t
<1>3. InLine(p, o, S, D, r, n, i)
  BY <1>1, <1>2 DEF LinedUp
<1>4. o[1] # r[i]
  BY <1>1, <1>2, <1>3 DEF InLine
<1>5. ASSUME NEW j \in 1..Len(t) PROVE t[j] = r[i] <=> j = i + Len(p) - n + Len(t)
  <2>1. j + 1 \in 1..Len(o) /\ t[j] = o[j+1]
    BY <1>1, <1>5
  <2>2. o[j+1] = r[i] <=> j + 1 = i + Len(p) - n + Len(o)
    BY <1>3, <2>1 DEF InLine
  <2> QED
    BY <1>1, <1>2, <2>1, <2>2
<1> QED
  BY <1>1, <1>3, <1>4, <1>5 DEF InLine

\* A new block is stored.
LEMMA LinedFinish ==
    ASSUME NEW p \in Seq(Blocks), NEW o \in Seq(Blocks), NEW S, NEW D, NEW r,
           NEW n \in Nat, LinedUp(p, o, S, D, r, n),
           NEW b, r[n+1] = b, b \notin Rng(p) \cup Rng(o)
    PROVE  LinedUp(Append(p, b), o, S \cup {b}, D, r, n + 1)
<1> DEFINE a == Append(p, b)
<1>1. /\ Len(p) \in Nat /\ Len(a) = Len(p) + 1 /\ a[Len(p)+1] = b
      /\ \A j \in 1..Len(p) : a[j] = p[j]
      /\ \A j \in 1..Len(p)+1 : j \in 1..Len(p) \/ j = Len(p) + 1
  BY AppendIndex
<1>2. Len(o) \in Nat
  OBVIOUS
<1>3. (\A j \in 1..Len(p) : p[j] # b) /\ (\A j \in 1..Len(o) : o[j] # b)
  BY DEF Rng
<1> SUFFICES ASSUME NEW i \in 1..n+1, i + Len(a) - (n + 1) + Len(o) >= 1
             PROVE  InLine(a, o, S \cup {b}, D, r, n + 1, i)
  BY DEF LinedUp
<1> HIDE DEF a
<1>4. CASE i = n + 1
  <2>1. i + Len(a) - (n + 1) = Len(p) + 1
    BY <1>1, <1>4
  <2>2. ASSUME NEW j \in 1..Len(a) PROVE a[j] = r[i] <=> j = Len(p) + 1
    BY <1>1, <1>3, <1>4
  <2>3. ASSUME NEW j \in 1..Len(o) PROVE o[j] = r[i] <=> j = Len(p) + 1 + Len(o)
    BY <1>1, <1>2, <1>3, <1>4
  <2>4. r[i] \in S \cup {b}
    BY <1>4
  <2>5. ~(i + Len(a) - (n + 1) < 1)
    BY <1>1, <2>1
  <2> QED
    BY <2>1, <2>2, <2>3, <2>4, <2>5 DEF InLine
<1>5. CASE i # n + 1
  <2>1. i \in 1..n /\ i + Len(a) - (n + 1) = i + Len(p) - n
    BY <1>1, <1>5
  <2>2. InLine(p, o, S, D, r, n, i)
    BY <2>1 DEF LinedUp
  <2>3. r[i] # b
    <3>1. CASE i + Len(p) - n >= 1
      <4>1. i + Len(p) - n \in 1..Len(p)
        BY <1>1, <2>1, <3>1
      <4>2. p[i + Len(p) - n] = r[i]
        BY <2>2, <4>1 DEF InLine
      <4> QED
        BY <1>3, <4>1, <4>2
    <3>2. CASE i + Len(p) - n < 1
      <4>1. i + Len(p) - n + Len(o) \in 1..Len(o)
        BY <1>1, <1>2, <2>1, <3>2
      <4>2. o[i + Len(p) - n + Len(o)] = r[i]
        BY <2>2, <4>1 DEF InLine
      <4> QED
        BY <1>3, <4>1, <4>2
    <3> QED
      BY <1>1, <2>1, <3>1, <3>2
  <2>4. ASSUME NEW j \in 1..Len(a) PROVE a[j] = r[i] <=> j = i + Len(p) - n
    <3>1. CASE j \in 1..Len(p)
      BY <1>1, <2>2, <3>1 DEF InLine
    <3>2. CASE j = Len(p) + 1
      BY <1>1, <2>1, <2>3, <3>2
    <3> QED
      BY <1>1, <3>1, <3>2
  <2> QED
    BY <2>1, <2>2, <2>4 DEF InLine
<1> QED
  BY <1>4, <1>5

LEMMA StoredFacts ==
    ASSUME Recording
    PROVE  /\ Stored \in Nat /\ Pending \in {0, 1} /\ Len(recorded) \in Nat
           /\ op.block = None => Pending = 0 /\ Stored = Len(recorded)
           /\ op.block # None => Pending = 1
           /\ op.block # None /\ recorded # <<>> => Len(recorded) = Stored + 1
           /\ recorded = <<>> => Stored = 0
<1>1. recorded \in Seq(Blocks) /\ Len(recorded) \in Nat
  BY DEF Recording
<1>2. recorded = <<>> <=> Len(recorded) = 0
  BY <1>1
<1> QED
  BY <1>1, <1>2 DEF Stored, Pending

\* One state fewer in memory, with one more on disk or with all that are stored
\* still in memory.
LEMMA Moved ==
    ASSUME NEW n \in Nat, NEW m \in Nat, NEW d \in Nat
    PROVE  /\ AtLimit(n, m, d) => AtLimit(n, m - 1, d + 1)
           /\ n < m => AtLimit(n, m - 1, d)
<1>1. DiskLimit \in Nat
  BY HistoryAssumption
<1> QED
  BY <1>1 DEF AtLimit

LEMMA FreshRecent ==
    ASSUME store' \in Store, recorded' = <<>>, op'.phase = "none" => op' = NoOp, Limits'
    PROVE  RecentInv'
<1>1. Len(store'.present) \in Nat /\ Len(store'.oldest) \in Nat
  <2>1. store'.present \in Seq(Blocks) /\ store'.oldest \in Seq(Blocks)
    BY DEF Store
  <2> QED
    BY <2>1
<1>2. Stored' = 0
  BY DEF Stored
<1>3. Recording'
  BY EmptySeq DEF Recording
<1>4. Lined'
  BY <1>2 DEF Lined, LinedUp
<1>5. Mem' \in Nat /\ Disk' \in Nat
  BY <1>1 DEF Mem, Disk
<1>6. \A m, d \in Nat : AtLimit(0, m, d) /\ \A k : AtRoom(0, m, k)
  BY DEF AtLimit, AtRoom
<1>7. MemoryFilled' /\ DiskFilled'
  BY <1>2, <1>5, <1>6 DEF MemoryFilled, DiskFilled
<1> QED
  BY <1>3, <1>4, <1>7 DEF RecentInv

LEMMA UnmovedRecent ==
    ASSUME RecentInv, Unmoved, recorded' = recorded, op'.block = op.block,
           op'.phase = "none" => op' = NoOp, Limits'
    PROVE  RecentInv'
<1>1. Pending' = Pending /\ Stored' = Stored
  BY DEF Pending, Stored
<1>2. Recording'
  BY DEF RecentInv, Recording, Unmoved
<1>3. Lined'
  BY <1>1 DEF RecentInv, Lined, Unmoved
<1>4. Mem' = Mem /\ Disk' = Disk
  BY DEF Unmoved, Mem, Disk
<1>5. MemoryFilled' /\ DiskFilled'
  BY <1>1, <1>4 DEF RecentInv, MemoryFilled, DiskFilled
<1> QED
  BY <1>2, <1>3, <1>5 DEF RecentInv

LEMMA MineRecent ==
    ASSUME StatesInv, RecentInv, NEW s \in States, Mine(s)
    PROVE  RecentInv'
<1>0. Typed /\ Recording /\ op = NoOp
  BY DEF StatesInv, RecentInv, Mine, Insert
<1>1. Unmoved /\ (MemoryOnly => store'.limit = store.limit)
  BY <1>0, ShrunkFields DEF Mine, Insert
<1>2. Head_ \in Blocks /\ Head_ # None
  BY <1>0, HeadFacts, HistoryAssumption DEF Typed
<1>3. op' = [phase |-> "memory", block |-> Head_, state |-> s]
  BY DEF Mine, Insert
<1>4. op'.phase = "memory" /\ op'.block = Head_ /\ op.block = None
  BY <1>0, <1>3 DEF NoOp
<1>5. Limits'
  BY <1>1, <1>2, <1>4 DEF Limits, RecentInv
<1>6. CASE Head_ \in Tracked(store)
  <2>1. recorded' = <<>>
    BY <1>6 DEF Mine
  <2> QED
    BY <1>1, <1>4, <1>5, <2>1, FreshRecent DEF Unmoved
<1>7. CASE Head_ \notin Tracked(store)
  <2>1. recorded' = Append(recorded, Head_)
    BY <1>7 DEF Mine
  <2>2. /\ recorded \in Seq(Blocks) /\ Len(recorded) \in Nat /\ Stored = Len(recorded)
        /\ Pending = 0
    BY <1>0, <1>4, StoredFacts DEF Recording
  <2>3. /\ recorded' \in Seq(Blocks) /\ Len(recorded') = Len(recorded) + 1
        /\ recorded'[Len(recorded')] = Head_ /\ recorded' # <<>>
        /\ \A i \in 1..Len(recorded) : recorded'[i] = recorded[i]
    BY <1>2, <2>1, <2>2
  <2>4. Pending' = 1 /\ Stored' = Stored
    BY <1>2, <1>4, <2>2, <2>3 DEF Pending, Stored
  <2>5. Recording'
    <3>1. Head_ \notin Rng(store.present) \cup Rng(store.oldest)
      BY <1>7 DEF Tracked, Rng
    <3> QED
      BY <1>1, <1>4, <2>3, <3>1 DEF Recording, Unmoved
  <2>6. Lined'
    <3> SUFFICES ASSUME NEW i \in 1..Stored,
                        i + Len(store.present) - Stored + Len(store.oldest) >= 1
                 PROVE  InLine(store.present, store.oldest, DOMAIN store.states,
                               DOMAIN store.onDisk, recorded', Stored, i)
      BY <1>1, <2>4 DEF Lined, LinedUp, Unmoved
    <3>1. InLine(store.present, store.oldest, DOMAIN store.states,
                 DOMAIN store.onDisk, recorded, Stored, i)
      BY DEF RecentInv, Lined, LinedUp
    <3>2. recorded'[i] = recorded[i]
      BY <2>2, <2>3
    <3> QED
      BY <3>1, <3>2 DEF InLine
  <2>7. MemoryFilled' /\ DiskFilled'
    <3>1. Mem \in Nat /\ Room \in Nat
      BY <1>0, StoreFacts, HistoryAssumption DEF Room, Mem
    <3>2. MemoryFilled /\ DiskFilled
      BY DEF RecentInv
    <3>3. Mem' = Mem /\ Disk' = Disk
      BY <1>1 DEF Unmoved, Mem, Disk
    <3>4. AtRoom(Stored, Mem, 1)
      BY <2>2, <3>1, <3>2 DEF MemoryFilled, AtRoom
    <3> QED
      BY <2>4, <3>2, <3>3, <3>4 DEF MemoryFilled, DiskFilled
  <2> QED
    BY <1>5, <2>5, <2>6, <2>7 DEF RecentInv
<1> QED
  BY <1>6, <1>7

LEMMA EvictRecent ==
    ASSUME StatesInv, RecentInv, EvictOldest, recorded' = recorded
    PROVE  RecentInv'
<1> DEFINE b == Head(store.present)
<1>0. /\ Typed /\ Recording /\ op' = op /\ op.phase = "memory"
      /\ Len(store.present) >= store.limit
  BY DEF StatesInv, RecentInv, EvictOldest
<1>1. /\ store.present \in Seq(Blocks) /\ store.oldest \in Seq(Blocks)
      /\ Len(store.present) \in Nat /\ Len(store.present) > 0 /\ Len(store.oldest) \in Nat
      /\ store.limit \in Nat /\ store.limit >= MinLimit
      /\ MinLimit \in Nat /\ FastLimit \in Nat /\ MemoryLimit \in Nat /\ DiskLimit \in Nat
      /\ MinLimit < FastLimit
  BY <1>0, StoreFacts, HistoryAssumption
<1>2. /\ Pending' = Pending /\ Stored' = Stored /\ Stored \in Nat /\ Pending \in {0, 1}
      /\ (op.block # None => Pending = 1) /\ (op.block = None => Pending = 0)
  <2>1. Pending' = Pending /\ Stored' = Stored
    BY <1>0 DEF Pending, Stored
  <2> QED
    BY <1>0, <2>1, StoredFacts
<1>3. /\ Len(Tail(store.present)) = Len(store.present) - 1
      /\ Rng(Tail(store.present)) \subseteq Rng(store.present)
      /\ b \in Rng(store.present) /\ b \in Blocks
  BY <1>1, TailFacts
<1>4. LinedUp(store.present, store.oldest, DOMAIN store.states, DOMAIN store.onDisk,
              recorded, Stored)
  BY DEF RecentInv, Lined
\* The pop leaves room for one block at most.
<1>5. /\ Mem \in Nat /\ Disk \in Nat /\ Room \in Nat
      /\ Mem = Len(store.present) /\ Disk = Len(store.oldest)
  BY <1>1 DEF Mem, Disk, Room
<1>a. AtRoom(Stored, Mem - 1, Pending)
  <2>1. CASE op.block = None
    <3>1. store.limit = FastLimit /\ ~MemoryOnly
      BY <1>0, <2>1 DEF RecentInv, Limits
    <3> QED
      BY <1>0, <1>1, <1>2, <1>5, <2>1, <3>1 DEF Room, AtRoom
  <2>2. CASE op.block # None
    <3>1. MemoryOnly => store.limit = MemoryLimit
      BY DEF RecentInv, Limits
    <3> QED
      BY <1>0, <1>1, <1>2, <1>5, <2>2, <3>1 DEF Room, AtRoom
  <2> QED
    BY <2>1, <2>2
<1>6. CASE b \in DOMAIN store.states /\ ~MemoryOnly
  <2>1. /\ store'.states = Without(store.states, {b})
        /\ store'.onDisk = Put(store.onDisk, b, IF Persistent THEN store.states[b] ELSE None)
        /\ store'.present = Tail(store.present)
        /\ store'.oldest = Append(store.oldest, b)
        /\ store'.limit = store.limit
    BY <1>0, <1>6, DemotedFields
  <2>2. /\ DOMAIN store'.states = DOMAIN store.states \ {b}
        /\ DOMAIN store'.onDisk = DOMAIN store.onDisk \cup {b}
    BY <2>1 DEF Without, Put
  <2>3. /\ Rng(store'.oldest) = Rng(store.oldest) \cup {b}
        /\ Len(store'.oldest) = Len(store.oldest) + 1
    <3> HIDE DEF b
    <3> QED
      BY <1>1, <1>3, <2>1, AppendFacts
  <2>4. Recording'
    BY <1>0, <1>3, <2>1, <2>3 DEF Recording
  <2>5. LinedUp(Tail(store.present), Append(store.oldest, b), DOMAIN store.states \ {b},
                DOMAIN store.onDisk \cup {b}, recorded, Stored)
    BY <1>1, <1>2, <1>4, LinedDemote
  <2>6. Lined'
    BY <1>2, <2>1, <2>2, <2>5 DEF Lined
  <2>7. Limits'
    BY <1>0, <2>1 DEF RecentInv, Limits
  <2>8. Mem' = Mem - 1 /\ Disk' = Disk + 1
    BY <1>3, <1>5, <2>1, <2>3 DEF Mem, Disk
  <2>9. MemoryFilled' /\ DiskFilled'
    <3>1. AtLimit(Stored, Mem, Disk)
      BY <1>6 DEF RecentInv, DiskFilled
    <3>2. AtLimit(Stored, Mem - 1, Disk + 1)
      BY <1>2, <1>5, <3>1, Moved
    <3> QED
      BY <1>2, <1>a, <2>8, <3>2, Zenon DEF MemoryFilled, DiskFilled
  <2> QED
    BY <2>4, <2>6, <2>7, <2>9 DEF RecentInv
<1>7. CASE b \notin DOMAIN store.states \/ MemoryOnly
  <2>1. /\ store'.states = Without(store.states, {b})
        /\ store'.onDisk = store.onDisk
        /\ store'.present = Tail(store.present)
        /\ store'.oldest = store.oldest /\ store'.limit = store.limit
    BY <1>0, <1>7, PoppedFields
  <2>2. DOMAIN store'.states = DOMAIN store.states \ {b}
    BY <2>1 DEF Without
  <2>3. Recording'
    BY <1>0, <1>3, <2>1 DEF Recording
  <2>4. b \notin DOMAIN store.states \/ store.oldest = <<>>
    BY <1>7 DEF StatesInv, Placed
  <2>5. /\ LinedUp(Tail(store.present), store.oldest, DOMAIN store.states \ {b},
                   DOMAIN store.onDisk, recorded, Stored)
        /\ b \notin DOMAIN store.states => Stored < Len(store.present)
    BY <1>1, <1>2, <1>4, <2>4, LinedPop
  <2>6. Lined'
    BY <1>2, <2>1, <2>2, <2>5 DEF Lined
  <2>7. Limits'
    BY <1>0, <2>1 DEF RecentInv, Limits
  <2>8. Mem' = Mem - 1 /\ Disk' = Disk
    BY <1>3, <1>5, <2>1 DEF Mem, Disk
  <2>9. MemoryFilled' /\ DiskFilled'
    <3>1. ASSUME ~MemoryOnly PROVE AtLimit(Stored, Mem - 1, Disk)
      <4>1. Stored < Mem
        BY <1>5, <1>7, <2>5, <3>1
      <4> QED
        BY <1>2, <1>5, <4>1, Moved
    <3> QED
      BY <1>2, <1>a, <2>8, <3>1, Zenon DEF MemoryFilled, DiskFilled
  <2> QED
    BY <2>3, <2>6, <2>7, <2>9 DEF RecentInv
<1> QED
  BY <1>6, <1>7

LEMMA PurgeRecent ==
    ASSUME StatesInv, RecentInv, PurgeOldest, recorded' = recorded
    PROVE  RecentInv'
<1> DEFINE b == Head(store.oldest)
<1>0. Typed /\ Recording /\ op' = op /\ ~MemoryOnly /\ Len(store.oldest) >= DiskLimit
  BY DEF StatesInv, RecentInv, PurgeOldest, DiskFull
<1>1. /\ Len(store.oldest) > 0
      /\ store'.onDisk = Without(store.onDisk, {b})
      /\ store'.oldest = Tail(store.oldest)
      /\ store'.states = store.states /\ store'.present = store.present
      /\ store'.limit = store.limit
  BY <1>0, PurgedFields
<1>2. /\ store.present \in Seq(Blocks) /\ store.oldest \in Seq(Blocks)
      /\ Len(store.oldest) \in Nat /\ DiskLimit \in Nat
  BY <1>0, StoreFacts
<1>3. Pending' = Pending /\ Stored' = Stored
  BY <1>0 DEF Pending, Stored
<1>4. Stored \in Nat
  BY <1>0, StoredFacts
<1>5. /\ Len(Tail(store.oldest)) = Len(store.oldest) - 1
      /\ Rng(Tail(store.oldest)) \subseteq Rng(store.oldest)
  BY <1>1, <1>2, TailFacts
<1>6. DOMAIN store'.onDisk = DOMAIN store.onDisk \ {b}
  BY <1>1 DEF Without
<1>7. Recording'
  BY <1>0, <1>1, <1>5 DEF Recording
<1>8. Lined'
  <2>1. LinedUp(store.present, store.oldest, DOMAIN store.states, DOMAIN store.onDisk,
                recorded, Stored)
    BY DEF RecentInv, Lined
  <2>2. LinedUp(store.present, Tail(store.oldest), DOMAIN store.states,
                DOMAIN store.onDisk \ {b}, recorded, Stored)
    BY <1>1, <1>2, <1>4, <2>1, LinedPurge
  <2> QED
    BY <1>1, <1>3, <1>6, <2>2 DEF Lined
<1>9. Limits'
  BY <1>0, <1>1 DEF RecentInv, Limits
<1>10. MemoryFilled'
  <2>1. Mem' = Mem
    BY <1>1 DEF Mem
  <2> QED
    BY <1>3, <2>1 DEF RecentInv, MemoryFilled
<1>11. DiskFilled'
  <2>1. Disk' = Disk - 1 /\ Disk \in Nat /\ Disk >= DiskLimit
    BY <1>0, <1>1, <1>2, <1>5 DEF Disk
  <2>2. \A n, m : AtLimit(n, m, Disk - 1)
    BY <1>2, <2>1 DEF AtLimit
  <2> QED
    BY <2>1, <2>2 DEF DiskFilled
<1> QED
  BY <1>7, <1>8, <1>9, <1>10, <1>11 DEF RecentInv

LEMMA FinishRecent ==
    ASSUME StatesInv, RecentInv, Finish, recorded' = recorded
    PROVE  RecentInv'
<1>0. Typed /\ Recording /\ op' = NoOp
  BY DEF StatesInv, RecentInv, Finish
<1>1. op'.block = None /\ op'.phase = "none"
  BY <1>0 DEF NoOp
<1>2. store'.limit = store.limit /\ store' \in Store
  <2>1. CASE op.block = None
    BY <2>1 DEF Finish, StatesInv, Typed
  <2>2. CASE op.block # None
    BY <1>0, <2>2, FinishFields
  <2> QED
    BY <2>1, <2>2
<1>3. Limits'
  BY <1>1, <1>2 DEF RecentInv, Limits
<1>4. CASE op.block = None
  <2>1. store' = store
    BY <1>4 DEF Finish
  <2>2. Unmoved
    BY <1>0, <2>1, SameFields
  <2> QED
    BY <1>0, <1>1, <1>3, <1>4, <2>2, UnmovedRecent
<1>5. CASE recorded = <<>>
  BY <1>0, <1>2, <1>3, <1>5, FreshRecent
<1>6. CASE op.block # None /\ recorded # <<>>
  <2>1. /\ store'.states = Put(store.states, op.block, op.state)
        /\ store'.present = Append(store.present, op.block)
        /\ store'.onDisk = store.onDisk /\ store'.oldest = store.oldest
    BY <1>0, <1>6, FinishFields
  <2>2. /\ Stored \in Nat /\ Pending = 1 /\ Len(recorded) = Stored + 1
        /\ Len(recorded) \in Nat
    BY <1>0, <1>6, StoredFacts
  <2>3. Pending' = 0 /\ Stored' = Stored + 1
    BY <1>1, <1>6, <2>2 DEF Pending, Stored
  <2>4. /\ recorded[Stored + 1] = op.block
        /\ op.block \notin Rng(store.present) \cup Rng(store.oldest)
    BY <1>0, <1>6, <2>2 DEF Recording
  <2>5. /\ store.present \in Seq(Blocks) /\ store.oldest \in Seq(Blocks)
        /\ Len(store.present) \in Nat /\ Len(store.oldest) \in Nat
    BY <1>0, StoreFacts
  <2>6. Len(store'.present) = Len(store.present) + 1
    BY <2>1, <2>5
  <2>7. DOMAIN store'.states = DOMAIN store.states \cup {op.block}
    BY <2>1 DEF Put
  <2>8. Recording'
    BY <1>0, <1>1 DEF Recording
  <2>9. Lined'
    <3>1. LinedUp(store.present, store.oldest, DOMAIN store.states, DOMAIN store.onDisk,
                  recorded, Stored)
      BY DEF RecentInv, Lined
    <3>2. LinedUp(Append(store.present, op.block), store.oldest,
                  DOMAIN store.states \cup {op.block}, DOMAIN store.onDisk,
                  recorded, Stored + 1)
      BY <2>2, <2>4, <2>5, <3>1, LinedFinish
    <3> QED
      BY <2>1, <2>3, <2>7, <3>2 DEF Lined
  <2>10. MemoryFilled' /\ DiskFilled'
    <3>1. Mem' = Mem + 1 /\ Disk' = Disk /\ Mem \in Nat /\ Disk \in Nat /\ Room \in Nat
      BY <2>1, <2>5, <2>6, HistoryAssumption DEF Mem, Disk, Room
    <3>2. AtRoom(Stored, Mem, 1) /\ (~MemoryOnly => AtLimit(Stored, Mem, Disk))
      BY <2>2 DEF RecentInv, MemoryFilled, DiskFilled
    <3>3. AtRoom(Stored + 1, Mem + 1, 0)
      BY <2>2, <3>1, <3>2 DEF AtRoom
    <3>4. AtLimit(Stored, Mem, Disk) => AtLimit(Stored + 1, Mem + 1, Disk)
      BY <2>2, <3>1 DEF AtLimit
    <3> QED
      BY <2>3, <3>1, <3>2, <3>3, <3>4 DEF MemoryFilled, DiskFilled
  <2> QED
    BY <1>3, <2>8, <2>9, <2>10 DEF RecentInv
<1> QED
  BY <1>4, <1>5, <1>6

LEMMA RecentNext == StatesInv /\ RecentInv /\ [Next]_vars => RecentInv'
<1> SUFFICES ASSUME StatesInv, RecentInv, [Next]_vars PROVE RecentInv'
  OBVIOUS
<1>0. Typed /\ op \in Op /\ Limits
  BY DEF StatesInv, Typed, RecentInv
<1>1. ASSUME NEW s \in States, Mine(s) PROVE RecentInv'
  BY <1>1, MineRecent
<1>2. CASE Enforce
  <2>0. recorded' = recorded
    BY <1>2 DEF Enforce
  <2>1. CASE EvictOldest
    BY <2>0, <2>1, EvictRecent
  <2>2. CASE WriteFails
    <3>1. op'.phase = "disk" /\ op'.block = op.block
      BY <1>0, <2>2 DEF WriteFails, Op
    <3>2. Unmoved /\ ~MemoryOnly
      BY <1>0, <2>2, KeptFields
    <3>3. Limits'
      BY <3>1, <3>2 DEF Limits
    <3> QED
      BY <2>0, <3>1, <3>2, <3>3, UnmovedRecent
  <2>3. CASE MemoryEnforced
    <3>1. op'.phase = "disk" /\ op'.block = op.block /\ store' = store
      BY <1>0, <2>3 DEF MemoryEnforced, Op
    <3>2. Unmoved
      BY <1>0, <3>1, SameFields
    <3>3. Limits'
      BY <1>0, <3>1 DEF Limits
    <3> QED
      BY <2>0, <3>1, <3>2, <3>3, UnmovedRecent
  <2>4. CASE PurgeOldest
    BY <2>0, <2>4, PurgeRecent
  <2>5. CASE Finish
    BY <2>0, <2>5, FinishRecent
  <2> QED
    BY <1>2, <2>1, <2>2, <2>3, <2>4, <2>5 DEF Enforce, StatesStep
<1>3. CASE SetFastBlocks
  <2>1. FastBlocks /\ recorded' = recorded /\ op = NoOp
    BY <1>3 DEF SetFastBlocks, FastBlocks
  <2>2. op'.phase = "memory" /\ op'.block = op.block
    BY <2>1 DEF FastBlocks, NoOp
  <2>3. Unmoved /\ ~MemoryOnly /\ store'.limit = FastLimit
    BY <1>0, <2>1, FastFields
  <2>4. Limits'
    BY <2>2, <2>3 DEF Limits
  <2> QED
    BY <2>1, <2>2, <2>3, <2>4, UnmovedRecent
<1>4. ASSUME NEW b \in chain, Unwind(b) PROVE RecentInv'
  <2>1. recorded' = <<>> /\ op' = op /\ op = NoOp
    BY <1>4 DEF Unwind
  <2> DEFINE removed == {c \in chain : c > b}
  <2>2. \E stuck \in SUBSET (removed \cap Listed(store)) :
          store' = RemoveBlockStates(store, removed, stuck)
    BY <1>4 DEF Unwind
  <2> HIDE DEF removed
  <2>3. store' \in Store /\ store'.limit = store.limit
    BY <1>0, <2>2, RemovedFields
  <2>4. Limits'
    BY <1>0, <2>1, <2>3 DEF Limits
  <2> QED
    BY <2>1, <2>3, <2>4, FreshRecent
<1>5. CASE Reset
  <2>1. recorded' = <<>> /\ op' = op /\ op = NoOp
    BY <1>5 DEF Reset
  <2>2. store' \in Store /\ store'.limit = store.limit
    BY <1>0, <1>5, ClearedFields DEF Reset
  <2>3. Limits'
    BY <1>0, <2>1, <2>2 DEF Limits
  <2> QED
    BY <2>1, <2>2, <2>3, FreshRecent
<1>6. CASE UNCHANGED vars
  <2>1. store' = store /\ op' = op /\ recorded' = recorded
    BY <1>6 DEF vars
  <2>2. Unmoved
    BY <1>0, <2>1, SameFields
  <2>3. Limits' /\ (op'.phase = "none" => op' = NoOp)
    BY <1>0, <2>1 DEF Limits, RecentInv, Recording
  <2> QED
    BY <2>1, <2>2, <2>3, UnmovedRecent
<1> QED
  BY <1>1, <1>2, <1>3, <1>4, <1>5, <1>6 DEF Next

(* The states of the last in_memory_limit blocks of a memory-only store,   *)
(* and of the last min_in_memory_limit + max_on_disk_limit - 1 of a store  *)
(* with a second tier, can be looked up: however often fast block times    *)
(* raise the limit, insert shrinks it and failed writes overrun it,        *)
(* enforce_limits drops no state that the limits have room for.            *)
THEOREM RecentStatesKept == Spec => []RecentKept
<1>1. Init => RecentInv
  <2> SUFFICES ASSUME Init PROVE RecentInv
    OBVIOUS
  <2>1. /\ store.limit = MemoryLimit /\ store.present = <<>> /\ store.oldest = <<>>
        /\ op = NoOp /\ recorded = <<>>
    BY DEF Init, InitStates, EmptyStore
  <2>2. Stored = 0 /\ Mem = 0 /\ Disk = 0
    BY <2>1 DEF Stored, Mem, Disk
  <2>3. Recording
    BY <2>1, EmptySeq DEF Recording, NoOp
  <2>4. Lined /\ Limits
    BY <2>1, <2>2 DEF Lined, LinedUp, Limits, NoOp
  <2>5. MemoryFilled /\ DiskFilled
    BY <2>2 DEF MemoryFilled, DiskFilled, AtRoom, AtLimit
  <2> QED
    BY <2>3, <2>4, <2>5 DEF RecentInv
<1>2. StatesInv /\ RecentInv => RecentKept
  <2> SUFFICES ASSUME StatesInv, RecentInv, op = NoOp, NEW i \in 1..Len(recorded),
                      Len(recorded) - i < Capacity
               PROVE  recorded[i] \in Available(store)
    BY DEF RecentKept
  <2>0. Typed /\ Recording /\ op.block = None
    BY DEF StatesInv, RecentInv, NoOp
  <2>1. Stored = Len(recorded) /\ Stored \in Nat /\ Pending = 0
    BY <2>0, StoredFacts
  <2>2. /\ Mem \in Nat /\ Disk \in Nat /\ MinLimit \in Nat /\ MemoryLimit \in Nat
        /\ DiskLimit \in Nat /\ Mem = Len(store.present) /\ Disk = Len(store.oldest)
    BY <2>0, StoreFacts, HistoryAssumption DEF Mem, Disk
  <2>a. i \in 1..Stored /\ i \in Nat /\ Stored - i < Capacity
    BY <2>1
  <2>b. /\ Stored \in Nat /\ Mem \in Nat /\ Disk \in Nat /\ MinLimit \in Nat
        /\ MemoryLimit \in Nat /\ DiskLimit \in Nat
    BY <2>1, <2>2
  <2>3. i + Mem - Stored + Disk >= 1
    <3> SUFFICES ASSUME ~(i + Mem - Stored + Disk >= 1) PROVE FALSE
      OBVIOUS
    <3>1. Stored > Mem /\ Stored > Mem + Disk /\ Stored - i >= Mem + Disk
      BY <2>a, <2>b
    <3>2. Mem >= Room
      BY <2>1, <2>b, <3>1, HistoryAssumption DEF RecentInv, MemoryFilled, AtRoom, Room
    <3>3. CASE MemoryOnly
      <4>1. Mem >= MemoryLimit /\ Capacity = MemoryLimit
        BY <3>2, <3>3 DEF Room, Capacity
      <4> QED
        BY <2>a, <2>b, <3>1, <4>1
    <3>4. CASE ~MemoryOnly
      <4>1. Disk >= DiskLimit - 1
        BY <3>1, <3>4 DEF RecentInv, DiskFilled, AtLimit
      <4>2. Mem >= MinLimit /\ Capacity = MinLimit + DiskLimit - 1
        BY <3>2, <3>4 DEF Room, Capacity
      <4> QED
        BY <2>a, <2>b, <3>1, <4>1, <4>2
    <3> QED
      BY <3>3, <3>4
  <2>4. InLine(store.present, store.oldest, DOMAIN store.states, DOMAIN store.onDisk,
               recorded, Stored, i)
    BY <2>2, <2>3, <2>a DEF RecentInv, Lined, LinedUp
  <2>5. recorded[i] \in DOMAIN store.states \cup DOMAIN store.onDisk
    BY <2>1, <2>2, <2>4 DEF InLine
  <2> QED
    BY <2>5, AvailableFacts
<1> QED
  BY <1>1, <1>2, StatesInvariant, RecentNext, PTL DEF Spec

=============================================================================
