---------------------------- MODULE Notifications ----------------------------
(***************************************************************************)
(* Who is told of the blocks of an anvil node, and when: the polled filter *)
(* of a client (crates/anvil/src/filter.rs), a log subscription            *)
(* (pubsub.rs), and the service that fills the fee history cache           *)
(* (eth/fees.rs), beside eth_feeHistory, which reads it (eth/api.rs).      *)
(*                                                                         *)
(* Each listener has an unbounded channel.  It learns the hash of a block  *)
(* and looks the block up when it gets to the notification, by when the    *)
(* chain may have been rewound, and the same block mined again.            *)
(*                                                                         *)
(* The hash of a block stands for the block and all before it: it is the   *)
(* prefix of the chain.  A block has one log that matches, or none.        *)
(***************************************************************************)
EXTENDS Integers, Sequences, FiniteSets

CONSTANTS
    Keeper,       \* transaction_block_keeper; without the option, MaxChain
    Historic,     \* whether the filter may ask for logs from an earlier block
    FeeLimit,     \* fee_history_limit
    Keepalive,    \* how long an unpolled filter is kept
    MaxChain,     \* bound on the length of the chain
    MaxMined,     \* bound on the blocks mined
    MaxRewinds,   \* bound on the rollbacks, reverts and resets
    MaxTime       \* bound on the clock

ASSUME NotificationsAssumption ==
    /\ Historic \in BOOLEAN /\ FeeLimit \in Nat \ {0}
    /\ {Keeper, Keepalive, MaxChain, MaxMined, MaxRewinds, MaxTime} \subseteq Nat

VARIABLES
    chain,     \* what is in the blocks: "log" or "none"
    stored,    \* numbers of the blocks whose transactions are still stored
    lost,      \* logs of blocks that went without their transactions (history)
    miner,     \* what the holder of the mining mutex has yet to announce
    filter,    \* the filter of a client, and the poll of it
    sub,       \* the log subscription of a client
    fees,      \* the fee history service: its channel and the item it made
    cache,     \* fee_history_cache: the hash of the item, by block number
    query,     \* an eth_feeHistory request
    now,       \* the clock
    evictor,   \* the time at which filters are evicted, as it was read
    mined,     \* blocks mined
    rewinds    \* rollbacks, reverts and resets

\* BlockchainStorage
storage == <<chain, stored, lost>>

vars == <<storage, miner, filter, sub, fees, cache, query, now, evictor, mined, rewinds>>

Prefix(n) == SubSeq(chain, 1, n)
Canonical(h) == Len(h) <= Len(chain) /\ h = Prefix(Len(h))
HasLog(h) == h[Len(h)] = "log"

\* The logs of the blocks above n, each known by its block, and those of them
\* that can be found: a log is read from the stored transactions of its block.
LogsAbove(n) == {h \in {Prefix(i) : i \in n + 1..Len(chain)} : HasLog(h)}
LogsSince(n) == {h \in LogsAbove(n) : Len(h) \in stored}

Block(h) == [kind |-> "block", hash |-> h, logs |-> {}]
RemovedLogs(logs) == [kind |-> "removed", hash |-> <<>>, logs |-> logs]
Nothing == [kind |-> "nothing", hash |-> <<>>, logs |-> {}]
Clearing == [kind |-> "clearing", hash |-> <<>>, logs |-> {}]

----------------------------------------------------------------------------
(* Locks.  eth_newFilter, eth_getFilterChanges and eth_feeHistory run under *)
(* the lifecycle lock, which rollback and reset take alone; evm_revert and  *)
(* the block producer do not exclude them.                                  *)

\* Slip: the chain is rewound beside the requests.
WrongLifecycleFree == TRUE

LifecycleFree == filter.phase \notin {"reading", "polling"} /\ query.phase = "idle"

RequestsAllowed == miner.kind # "clearing"

----------------------------------------------------------------------------
(* The chain *)

\* What a request under way sees of the chain (history only).
Witnessed(c) ==
    IF query.phase = "idle" THEN query
    ELSE [query EXCEPT !.during = @ \cup {SubSeq(c, 1, n) : n \in 1..Len(c)}]

Mine(content) ==
    /\ miner = Nothing
    /\ Len(chain) < MaxChain /\ mined < MaxMined
    /\ mined' = mined + 1
    /\ chain' = Append(chain, content)
    /\ stored' = (stored \cup {Len(chain')}) \ {Len(chain') - Keeper}
    /\ miner' = Block(chain')
    /\ query' = Witnessed(chain')
    /\ UNCHANGED <<lost, filter, sub, fees, cache, now, evictor, rewinds>>

\* Slip: the logs of the first block that goes are forgotten.
WrongRemoved(n) == LogsSince(n + 1)

\* removed_logs_since, before the blocks go.
Removed(n) == LogsSince(n)

\* The blocks above n go, and their logs are announced if there are any.
Rewind(n) ==
    /\ miner = Nothing /\ rewinds < MaxRewinds
    /\ rewinds' = rewinds + 1
    /\ chain' = Prefix(n)
    /\ stored' = stored \cap 1..n
    /\ lost' = lost \cup {h \in LogsAbove(n) : Len(h) \notin stored}
    /\ miner' = IF Removed(n) = {} THEN Nothing ELSE RemovedLogs(Removed(n))
    /\ UNCHANGED <<filter, sub, fees, cache, now, evictor, mined>>

Rollback ==
    /\ LifecycleFree
    /\ \E n \in 0..Len(chain) - 1 : Rewind(n)
    /\ query' = Witnessed(chain')

Revert ==
    /\ \E n \in 0..Len(chain) - 1 : Rewind(n)
    /\ query' = [Witnessed(chain') EXCEPT !.reverted = query.phase # "idle"]

\* Nobody is told.
ResetChain ==
    /\ LifecycleFree
    /\ miner = Nothing /\ rewinds < MaxRewinds
    /\ rewinds' = rewinds + 1
    /\ chain' = <<>> /\ stored' = {}
    /\ miner' = Clearing
    /\ filter' = [filter EXCEPT !.fresh = FALSE]
    /\ sub' = [sub EXCEPT !.fresh = FALSE]
    /\ UNCHANGED <<lost, fees, cache, query, now, evictor, mined>>

ClearCache ==
    /\ miner = Clearing
    /\ cache' = <<>>
    /\ miner' = Nothing
    /\ UNCHANGED <<storage, filter, sub, fees, query, now, evictor, mined, rewinds>>

\* A listener gets a notification; announced is history only.
Told(listener) ==
    IF listener.open
    THEN [listener EXCEPT !.queue = Append(@, miner),
                          !.announced = IF miner.kind = "block" THEN @ \cup {miner.hash} ELSE @]
    ELSE listener

\* notify_on_new_block and notify_on_removed_logs
Notify ==
    /\ miner.kind \in {"block", "removed"}
    /\ filter' = Told(filter) /\ sub' = Told(sub) /\ fees' = Told(fees)
    /\ miner' = Nothing
    /\ UNCHANGED <<storage, cache, query, now, evictor, mined, rewinds>>

----------------------------------------------------------------------------
(* Log listeners.  A client keeps the logs it was sent and drops those that *)
(* it is told were removed.                                                 *)

Applied(logs, note) ==
    IF note.kind = "removed" THEN logs \ note.logs
    ELSE IF Canonical(note.hash) /\ HasLog(note.hash) /\ Len(note.hash) \in stored
    THEN logs \cup {note.hash}
    ELSE logs

Closed == [phase |-> "none", open |-> FALSE, queue |-> <<>>, announced |-> {},
           fresh |-> TRUE, view |-> {}]

Subscribe ==
    /\ sub.phase = "none"
    /\ sub' = [sub EXCEPT !.phase = "active", !.open = TRUE, !.fresh = TRUE]
    /\ UNCHANGED <<storage, miner, filter, fees, cache, query, now, evictor, mined, rewinds>>

SubscriptionPoll ==
    /\ sub.queue # <<>>
    /\ sub' = [sub EXCEPT !.queue = Tail(@), !.view = Applied(@, Head(sub.queue))]
    /\ UNCHANGED <<storage, miner, filter, fees, cache, query, now, evictor, mined, rewinds>>

----------------------------------------------------------------------------
(* The filter.  historic: the logs the first poll returns; answer: what the *)
(* client will have after the poll; polled (history): when it was last used *)

NewFilter(historic) ==
    /\ filter.phase = "none" /\ RequestsAllowed
    /\ filter' = [filter EXCEPT !.phase = "reading", !.fresh = TRUE,
                                !.historic = << IF historic THEN LogsSince(0) ELSE {} >>,
                                !.complete = historic]
    /\ UNCHANGED <<storage, miner, sub, fees, cache, query, now, evictor, mined, rewinds>>

\* The listener is registered and the filter added.
AddFilter ==
    /\ filter.phase = "reading"
    /\ filter' = [filter EXCEPT !.phase = "active", !.open = TRUE,
                                !.deadline = now + Keepalive, !.polled = now]
    /\ UNCHANGED <<storage, miner, sub, fees, cache, query, now, evictor, mined, rewinds>>

\* What is in an Option
Once(option) == IF option = <<>> THEN {} ELSE option[1]

GetFilterChanges ==
    /\ filter.phase = "active" /\ RequestsAllowed
    /\ filter' = [filter EXCEPT !.phase = "polling", !.historic = <<>>,
                                !.answer = filter.view \cup Once(filter.historic)]
    /\ UNCHANGED <<storage, miner, sub, fees, cache, query, now, evictor, mined, rewinds>>

PollOne ==
    /\ filter.phase = "polling" /\ filter.queue # <<>>
    /\ filter' = [filter EXCEPT !.queue = Tail(@), !.answer = Applied(@, Head(filter.queue))]
    /\ UNCHANGED <<storage, miner, sub, fees, cache, query, now, evictor, mined, rewinds>>

\* Slip: a poll leaves the deadline alone.
WrongNextDeadline == filter.deadline

NextDeadline == now + Keepalive

\* The channel was empty: the poll ends.
PollEnd ==
    /\ filter.phase = "polling" /\ filter.queue = <<>>
    /\ filter' = [filter EXCEPT !.phase = "active", !.view = filter.answer,
                                !.deadline = NextDeadline, !.polled = now]
    /\ UNCHANGED <<storage, miner, sub, fees, cache, query, now, evictor, mined, rewinds>>

\* eth_getFilterLogs
GetLogFilter ==
    /\ filter.phase = "active" /\ RequestsAllowed
    /\ filter' = [filter EXCEPT !.deadline = NextDeadline, !.polled = now]
    /\ UNCHANGED <<storage, miner, sub, fees, cache, query, now, evictor, mined, rewinds>>

Gone(phase) == [filter EXCEPT !.phase = phase, !.open = FALSE, !.queue = <<>>]

UninstallFilter ==
    /\ filter.phase = "active" /\ RequestsAllowed
    /\ filter' = Gone("uninstalled")
    /\ UNCHANGED <<storage, miner, sub, fees, cache, query, now, evictor, mined, rewinds>>

\* The clock is read, and only then the filters are locked.
EvictBegin ==
    /\ evictor = -1
    /\ evictor' = now
    /\ UNCHANGED <<storage, miner, filter, sub, fees, cache, query, now, mined, rewinds>>

Evict ==
    /\ evictor # -1 /\ filter.phase # "polling"
    /\ filter' = IF filter.phase = "active" /\ evictor > filter.deadline
                 THEN Gone("evicted") ELSE filter
    /\ evictor' = -1
    /\ UNCHANGED <<storage, miner, sub, fees, cache, query, now, mined, rewinds>>

Tick ==
    /\ now < MaxTime
    /\ now' = now + 1
    /\ UNCHANGED <<storage, miner, filter, sub, fees, cache, query, evictor, mined, rewinds>>

----------------------------------------------------------------------------
(* The fee history *)

\* The numbers of S with fewer than FeeLimit of S above them: the lowest go.
Newest(S) == {m \in S : Cardinality({k \in S : k > m}) < FeeLimit}

Inserted(c, n, h) ==
    [m \in Newest(DOMAIN c \cup {n}) |-> IF m = n THEN h ELSE c[m]]

\* create_fee_history_cache_item: a block that is gone gives no entry.
FeeServiceTake ==
    /\ fees.queue # <<>> /\ fees.item = <<>>
    /\ LET note == Head(fees.queue) IN
       fees' = [fees EXCEPT !.queue = Tail(@),
                            !.item = IF note.kind = "block" /\ Canonical(note.hash)
                                     THEN note.hash ELSE <<>>]
    /\ UNCHANGED <<storage, miner, filter, sub, cache, query, now, evictor, mined, rewinds>>

FeeServiceInsert ==
    /\ fees.item # <<>>
    /\ cache' = Inserted(cache, Len(fees.item), fees.item)
    /\ fees' = [fees EXCEPT !.item = <<>>]
    /\ UNCHANGED <<storage, miner, filter, sub, query, now, evictor, mined, rewinds>>

NoQuery == [phase |-> "idle", low |-> 0, high |-> 0, cached |-> <<>>, items |-> <<>>,
            warmed |-> {}, hash |-> <<>>, during |-> {}, reverted |-> FALSE]

\* The range ends at the head and is within the limit; the cached entries are
\* copied at once.
QueryBegin(low) ==
    /\ fees.open /\ query.phase = "idle" /\ RequestsAllowed
    /\ low >= Len(chain) - FeeLimit
    /\ query' = [NoQuery EXCEPT
                    !.phase = "resolving", !.low = low, !.high = Len(chain),
                    !.cached = cache,
                    !.during = {Prefix(n) : n \in 1..Len(chain)}]
    /\ UNCHANGED <<storage, miner, filter, sub, fees, cache, now, evictor, mined, rewinds>>

\* The block the request is at
At == query.low + Len(query.items)

\* Slip: an entry is used whatever its block.
WrongUsable(h) == At \in DOMAIN query.cached

\* A cached entry is used only for the block that is canonical now.
Usable(h) == At \in DOMAIN query.cached /\ query.cached[At] = h

Fail == query' = NoQuery

QueryResolve ==
    /\ query.phase = "resolving" /\ query.hash = <<>> /\ At <= query.high
    /\ IF At > Len(chain) THEN Fail
       ELSE query' = IF Usable(Prefix(At))
                     THEN [query EXCEPT !.items = Append(@, query.cached[At])]
                     ELSE [query EXCEPT !.hash = Prefix(At)]
    /\ UNCHANGED <<storage, miner, filter, sub, fees, cache, now, evictor, mined, rewinds>>

\* The entry is made of the block, if it is still there.
QueryCompute ==
    /\ query.phase = "resolving" /\ query.hash # <<>>
    /\ IF Canonical(query.hash)
       THEN query' = [query EXCEPT !.items = Append(@, query.hash),
                                   !.warmed = @ \cup {query.hash}, !.hash = <<>>]
       ELSE Fail
    /\ UNCHANGED <<storage, miner, filter, sub, fees, cache, now, evictor, mined, rewinds>>

\* The computed entries join the cache, which is then trimmed.
Warmed(c, hs) ==
    [n \in Newest(DOMAIN c \cup {Len(h) : h \in hs}) |->
        IF \E h \in hs : Len(h) = n THEN CHOOSE h \in hs : Len(h) = n ELSE c[n]]

QueryWarm ==
    /\ query.phase = "resolving" /\ query.hash = <<>> /\ At > query.high
    /\ cache' = Warmed(cache, query.warmed)
    /\ query' = [query EXCEPT !.phase = "resolved"]
    /\ UNCHANGED <<storage, miner, filter, sub, fees, now, evictor, mined, rewinds>>

\* fee_history_next_fees, under the mining mutex: of the child, or of the head.
QueryEnd ==
    /\ query.phase = "resolved" /\ miner = Nothing
    /\ query' = IF Len(chain) < query.high THEN NoQuery
                ELSE [query EXCEPT !.phase = "answered", !.hash = Prefix(query.high)]
    /\ UNCHANGED <<storage, miner, filter, sub, fees, cache, now, evictor, mined, rewinds>>

QueryReturn ==
    /\ query.phase = "answered"
    /\ query' = NoQuery
    /\ UNCHANGED <<storage, miner, filter, sub, fees, cache, now, evictor, mined, rewinds>>

----------------------------------------------------------------------------
NoFilter == [phase |-> "none", open |-> FALSE, queue |-> <<>>, announced |-> {},
             fresh |-> TRUE, view |-> {}, historic |-> <<>>, answer |-> {},
             deadline |-> 0, polled |-> 0, complete |-> FALSE]
FeeService == [open |-> TRUE, queue |-> <<>>, announced |-> {}, item |-> <<>>]

\* The listeners share nothing but the chain: one of them is looked at.
Init ==
    /\ chain = <<>> /\ stored = {} /\ lost = {} /\ miner = Nothing
    /\ \E focus \in {"filter", "subscription", "fees"} :
          /\ filter = [NoFilter EXCEPT !.phase = IF focus = "filter" THEN "none" ELSE "absent"]
          /\ sub = [Closed EXCEPT !.phase = IF focus = "subscription" THEN "none" ELSE "absent"]
          /\ fees = [FeeService EXCEPT !.open = (focus = "fees")]
    /\ cache = <<>> /\ query = NoQuery
    /\ now = 0 /\ evictor = -1 /\ mined = 0 /\ rewinds = 0

Next ==
    \/ \E content \in {"log", "none"} : Mine(content)
    \/ Rollback \/ Revert \/ ResetChain \/ ClearCache \/ Notify
    \/ Subscribe \/ SubscriptionPoll
    \/ \E historic \in {FALSE, Historic} : NewFilter(historic)
    \/ AddFilter \/ GetFilterChanges \/ PollOne \/ PollEnd \/ GetLogFilter
    \/ UninstallFilter \/ EvictBegin \/ Evict \/ Tick
    \/ FeeServiceTake \/ FeeServiceInsert
    \/ \E low \in 1..Len(chain) : QueryBegin(low)
    \/ QueryResolve \/ QueryCompute \/ QueryWarm \/ QueryEnd \/ QueryReturn

Spec == Init /\ [][Next]_vars

----------------------------------------------------------------------------
(* Properties *)

\* The shape of the state; the fee history cache stays within its limit
\* though the service and the requests both fill it (fees.rs:543).
TypeOK ==
    /\ chain \in Seq({"log", "none"}) /\ Len(chain) <= MaxChain
    /\ stored \subseteq 1..Len(chain)
    /\ miner.kind \in {"nothing", "block", "removed", "clearing"}
    /\ filter.phase \in {"none", "reading", "active", "polling", "evicted", "uninstalled",
                         "absent"}
    /\ query.phase \in {"idle", "resolving", "resolved", "answered"}
    /\ \A n \in DOMAIN cache : Len(cache[n]) = n
    /\ Cardinality(DOMAIN cache) <= FeeLimit
    /\ evictor \in -1..now

Drained(listener) == listener.open /\ listener.fresh /\ listener.queue = <<>>
Announced == miner = Nothing

\* What a client that has read everything and was told of the blocks in told
\* has: every log of theirs that can be found, and no other but those of
\* canonical blocks and of blocks that went after their transactions had.
Converged(view, told) ==
    /\ LogsSince(0) \cap told \subseteq view
    /\ view \subseteq (LogsAbove(0) \cup lost) \cap told

\* LogsFilter::poll (filter.rs:226) and LogsSubscription::poll (pubsub.rs:46):
\* a client that has read everything has the logs of the announced blocks that
\* are canonical, and of no other, whatever was rewound, mined again or looked
\* up late, unless the node was reset.  With --transaction-block-keeper a block
\* whose transactions are gone may have been looked up too late, and when it
\* goes itself its logs are not announced as removed (mem/mod.rs:5663).
LogsConverge ==
    Announced =>
        /\ Drained(sub) => Converged(sub.view, sub.announced)
        /\ Drained(filter) /\ ~filter.complete /\ filter.phase = "active"
              => Converged(filter.view, filter.announced)

\* The same with no exception, which holds of a node without the keeper: the
\* client has exactly the logs of the announced blocks that are canonical.
LogsExact ==
    Announced =>
        /\ Drained(sub) => sub.view = LogsAbove(0) \cap sub.announced
        /\ Drained(filter) /\ ~filter.complete /\ filter.phase = "active"
              => filter.view = LogsAbove(0) \cap filter.announced

\* LogsFilter.historic (filter.rs:208): after the first poll a filter that
\* asked for earlier logs has those of the whole chain.
HistoricComplete ==
    Announced /\ Drained(filter) /\ filter.complete /\ filter.phase = "active"
        /\ filter.historic = <<>>
        => LogsSince(0) \subseteq filter.view

\* Filters::evict (filter.rs:91): a filter goes only if it was not used for
\* longer than the keepalive, though the clock was read before the lock.
UsedFilterKept ==
    [][filter.phase = "active" /\ filter'.phase = "evicted"
          => now > filter.polled + Keepalive]_vars

\* eth_feeHistory (api.rs:1411): every entry of an answer is of a block that
\* was canonical while the request ran, though the service may cache a block
\* after a rewind or reset has removed it (fees.rs:671).
FeeHistoryCurrent ==
    \A i \in 1..Len(query.items) : query.items[i] \in query.during

\* eth_feeHistory (api.rs:1411): if no evm_revert ran beside it, the entries
\* of an answer, and the block its next fees follow, are of one chain.
FeeHistoryOneChain ==
    query.phase = "answered" /\ ~query.reverted
        => \A i \in 1..Len(query.items) :
              query.items[i] = SubSeq(query.hash, 1, query.low + i - 1)
=============================================================================
