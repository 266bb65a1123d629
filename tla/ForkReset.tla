------------------------------ MODULE ForkReset ------------------------------
(***************************************************************************)
(* anvil_reset onto a fork: a replacement is staged against a remote       *)
(* endpoint that may itself be an anvil which resets or reorganises its    *)
(* chain between any two requests, and is published only when it is        *)
(* complete.  (prepare_fork_reset, stage_fork_reset, commit_fork_reset in  *)
(* crates/anvil/src/eth/backend/mem/mod.rs; stable_fork_snapshot and       *)
(* fork_context_matches in crates/anvil/src/config.rs.)                    *)
(*                                                                         *)
(* The endpoint is the upstream node, another one or, by mistake, the node *)
(* itself.  All that a remote read returns is reduced to its version: the  *)
(* instance that answered and the hash of its fork block.  Each url has    *)
(* one cache file for the fork block, which outlives the process: a node   *)
(* may find one that an earlier process wrote.  Only one reset is under    *)
(* way (reset_lock).                                                       *)
(***************************************************************************)
EXTENDS Integers

CONSTANTS
    Urls,         \* endpoints, a subset of {"upstream", "other", "self"}
    SlowUrls,     \* endpoints that may not tell their identity in time
    Attempts,     \* attempts to stage, and to get a stable answer: 3
    MaxInstance,  \* bound on the instances of the upstream node
    MaxHash,      \* bound on the hashes of its fork block
    MaxResets,    \* bound on the resets of this node
    Leftovers,    \* hashes of the blocks that earlier processes left files for
    Anonymous,    \* identity of an endpoint that does not tell it is an anvil
    Nameless,     \* identity of an anvil that does not tell its instance
    None

ASSUME ForkResetAssumption ==
    /\ Urls \subseteq {"upstream", "other", "self"} /\ SlowUrls \subseteq Urls
    /\ Attempts \in Nat \ {0}
    /\ MaxInstance \in Nat /\ MaxHash \in Nat /\ MaxResets \in Nat
    /\ Leftovers \subseteq Nat
    /\ {Anonymous, Nameless, None} \cap Int = {}
    /\ None # Anonymous /\ None # Nameless /\ Nameless # Anonymous
    /\ None \notin [url : Urls, identity : Int \cup {Anonymous, Nameless}]
    /\ None \notin [hash : Nat, versions : SUBSET (Int \X Int), owner : {"live"}]

VARIABLES
    upstream, \* the instance and the fork block's hash of the upstream node
    node,     \* this node: its instance, and its fork
    source,   \* last_fork_cache_source
    disk,     \* the cache file of each url
    stage     \* the reset under way

vars == <<upstream, node, source, disk, stage>>

NoStage ==
    [phase |-> "idle", url |-> None, attempt |-> 1, try |-> 1,
     purpose |-> None, before |-> None, block |-> None, identity |-> None,
     hash |-> None, changed |-> FALSE, versions |-> {}, lease |-> FALSE]

\* What an endpoint answers now: its instance and the hash of its block.
Endpoint(url) ==
    CASE url = "self" -> [instance |-> -node.instance, hash |-> 0]
      [] url = "other" -> [instance |-> MaxInstance + 1, hash |-> 0]
      [] OTHER -> upstream
Version(url) == <<Endpoint(url).instance, Endpoint(url).hash>>

\* An endpoint is asked for its identity.  An anvil that does not answer
\* anvil_nodeInfo in time is taken for another kind of endpoint; one that does
\* not answer anvil_metadata in time is known for an anvil, not for which.
Identities(url) ==
    {Endpoint(url).instance}
        \cup (IF url \in SlowUrls THEN {Anonymous, Nameless} ELSE {})

Named(identity) == identity \notin {Anonymous, Nameless}

Authoritative(identity) == identity # Anonymous

----------------------------------------------------------------------------
(* The upstream node is an anvil of its own. *)

\* Its reset makes it another instance, perhaps with the same blocks.
UpstreamReset(h) ==
    /\ upstream.instance < MaxInstance
    /\ upstream' = [instance |-> upstream.instance + 1, hash |-> h]
    /\ UNCHANGED <<node, source, disk, stage>>

UpstreamReorg ==
    /\ upstream.hash < MaxHash
    /\ upstream' = [upstream EXCEPT !.hash = @ + 1]
    /\ UNCHANGED <<node, source, disk, stage>>

\* This node reads from its fork, into the cache of its database.
LiveFetch ==
    /\ node.fork # None
    /\ node' = [node EXCEPT !.fork.versions = @ \cup {Version(node.fork.url)}]
    /\ UNCHANGED <<upstream, source, disk, stage>>

----------------------------------------------------------------------------
(* prepare_fork_reset *)

\* The live cache is written to its file, for the staged database to reuse.
Flushed(d) ==
    IF node.fork = None THEN d
    ELSE [d EXCEPT ![node.fork.url] =
            [hash |-> node.fork.hash, versions |-> node.fork.versions,
             owner |-> "live"]]

Start(url) ==
    /\ stage.phase = "idle"
    /\ node.instance < MaxResets
    /\ disk' = Flushed(disk)
    /\ stage' = [NoStage EXCEPT !.phase = "before", !.purpose = "snapshot",
                                !.url = url]
    /\ UNCHANGED <<upstream, node, source>>

\* A request fails: before a database is staged there is nothing to undo.
Fails ==
    /\ stage.phase \in {"before", "block", "after", "open", "genesis", "check"}
    /\ stage' = IF stage.lease THEN [stage EXCEPT !.phase = "abort"] ELSE NoStage
    /\ UNCHANGED <<upstream, node, source, disk>>

----------------------------------------------------------------------------
(* stable_fork_snapshot and fork_context_matches: the block between two    *)
(* reads of the identity.                                                  *)

AskBefore ==
    /\ stage.phase = "before"
    /\ \E i \in Identities(stage.url) :
          stage' = [stage EXCEPT !.phase = "block", !.before = i]
    /\ UNCHANGED <<upstream, node, source, disk>>

AskBlock ==
    /\ stage.phase = "block"
    /\ stage' = [stage EXCEPT !.phase = "after", !.block = Endpoint(stage.url).hash]
    /\ UNCHANGED <<upstream, node, source, disk>>

\* What follows a stable answer, by what it was asked for.
Confirmed(s) == s.before = s.identity /\ s.block = s.hash

Stable(s) ==
    CASE s.purpose = "snapshot" ->
           [s EXCEPT !.identity = s.before, !.hash = s.block, !.try = 1,
                     !.purpose = "primary",
                     !.phase = IF Authoritative(s.before) THEN "before" ELSE "open"]
      [] s.purpose = "primary" ->
           IF Confirmed(s) THEN [s EXCEPT !.phase = "open"] ELSE NoStage
      [] s.purpose = "final" ->
           [s EXCEPT !.phase = IF Confirmed(s) THEN "staged" ELSE "retry"]

\* No stable answer in all attempts.
Unstable(s) ==
    IF s.purpose = "final" THEN [s EXCEPT !.phase = "retry"] ELSE NoStage

MayAskAgain(s) == s.try < Attempts

AskAfter ==
    /\ stage.phase = "after"
    /\ \E i \in Identities(stage.url) :
          stage' = IF i = stage.before THEN Stable(stage)
                   ELSE IF MayAskAgain(stage)
                   THEN [stage EXCEPT !.phase = "before", !.try = @ + 1]
                   ELSE Unstable(stage)
    /\ UNCHANGED <<upstream, node, source, disk>>

----------------------------------------------------------------------------
(* stage_fork_reset *)

\* Slip: a cache of another instance of the endpoint is reused.
WrongIdentityChanged(s) == FALSE

\* authoritative_identity_changed_at_same_url
IdentityChanged(s) ==
    /\ source # None
    /\ source.url = s.url
    /\ Authoritative(source.identity) \/ Authoritative(s.identity)
    /\ source.identity # s.identity

\* The cache file is read when it belongs to the same block.
Cached(s) ==
    IF disk[s.url] # None /\ disk[s.url].hash = s.hash
    THEN disk[s.url].versions ELSE {}

OpenStaged ==
    /\ stage.phase = "open"
    /\ stage' = [stage EXCEPT
            !.phase = "check", !.lease = TRUE,
            !.changed = IdentityChanged(stage),
            !.versions = IF IdentityChanged(stage) THEN {} ELSE Cached(stage)]
    /\ UNCHANGED <<upstream, node, source, disk>>

\* Slip: the url is compared instead of the identity behind it.
WrongIsSelf(s) == node.fork # None /\ node.fork.url = s.url

IsSelf(s) == s.identity = -node.instance

\* The endpoint is not this node, and still has the block.
CheckStaged ==
    /\ stage.phase = "check"
    /\ stage' = [stage EXCEPT !.phase =
            IF IsSelf(stage) THEN "abort"
            ELSE IF Endpoint(stage.url).hash # stage.hash THEN "retry"
            ELSE "genesis"]
    /\ UNCHANGED <<upstream, node, source, disk>>

\* apply_fork_genesis reads the accounts that it funds.
FetchGenesis ==
    /\ stage.phase = "genesis"
    /\ stage' = [stage EXCEPT !.versions = @ \cup {Version(stage.url)},
                              !.phase = "revalidate"]
    /\ UNCHANGED <<upstream, node, source, disk>>

\* fork_urls_match_context asks anvil endpoints only.
Revalidated(s) ==
    IF Authoritative(s.identity)
    THEN [s EXCEPT !.phase = "before", !.purpose = "final", !.try = 1]
    ELSE [s EXCEPT !.phase = "staged"]

Revalidate ==
    /\ stage.phase = "revalidate"
    /\ stage' = Revalidated(stage)
    /\ UNCHANGED <<upstream, node, source, disk>>

----------------------------------------------------------------------------
(* rollback_staged_fork_cache *)

\* A dropped database writes its cache to the file.
Dropped(d, s) ==
    [d EXCEPT ![s.url] = [hash |-> s.hash, versions |-> s.versions,
                          owner |-> "staged"]]

\* Slip: the lease does not remove what the staged database left.
WrongInvalidated(d, s) == d

\* StagedForkCacheLeaseInner::invalidate
Invalidated(d, s) == [d EXCEPT ![s.url] = None]

\* The staged database is dropped, its lease cleans up after it, and the live
\* cache is written again to a file the two may share.
CleanedUp(s) == Invalidated(Dropped(disk, s), s)
RolledBack(s) == Flushed(CleanedUp(s))

\* The lease cleans up at its second try only, or the live cache cannot be
\* written: the reset fails, whatever it was rolled back for.
RollbackFails ==
    /\ stage.phase \in {"abort", "retry"}
    /\ disk' \in {RolledBack(stage), CleanedUp(stage)}
    /\ stage' = NoStage
    /\ UNCHANGED <<upstream, node, source>>

Abort ==
    /\ stage.phase = "abort"
    /\ disk' = RolledBack(stage)
    /\ stage' = NoStage
    /\ UNCHANGED <<upstream, node, source>>

Retry ==
    /\ stage.phase = "retry"
    /\ disk' = RolledBack(stage)
    /\ stage' = IF stage.attempt = Attempts THEN NoStage
                ELSE [NoStage EXCEPT !.phase = "before", !.purpose = "snapshot",
                                     !.url = stage.url, !.attempt = stage.attempt + 1]
    /\ UNCHANGED <<upstream, node, source>>

----------------------------------------------------------------------------
(* commit_fork_reset, under the lifecycle lock and the mining mutex *)

\* The caches of another instance cannot be removed.
CommitFails ==
    /\ stage.phase = "staged"
    /\ stage.changed
    /\ disk' \in {RolledBack(stage), CleanedUp(stage)}
    /\ stage' = NoStage
    /\ UNCHANGED <<upstream, node, source>>

\* The old database is dropped and writes its cache, emptied before when the
\* endpoint is another instance.
OldCache(s) ==
    LET cleaned == IF s.changed THEN [disk EXCEPT ![s.url] = None] ELSE disk
    IN  IF s.changed /\ node.fork # None
        THEN [cleaned EXCEPT ![node.fork.url] =
                [hash |-> node.fork.hash, versions |-> {}, owner |-> "live"]]
        ELSE Flushed(cleaned)

Commit ==
    /\ stage.phase = "staged"
    /\ disk' = OldCache(stage)
    /\ node' = [instance |-> node.instance + 1,
                fork |-> [url |-> stage.url, identity |-> stage.identity,
                          hash |-> stage.hash, versions |-> stage.versions]]
    /\ source' = [url |-> stage.url, identity |-> stage.identity]
    /\ stage' = NoStage
    /\ UNCHANGED upstream

\* commit_memory_reset: the fork is gone, the source of its cache is not.
MemoryReset ==
    /\ stage.phase = "idle"
    /\ node.instance < MaxResets
    /\ disk' = Flushed(disk)
    /\ node' = [instance |-> node.instance + 1, fork |-> None]
    /\ UNCHANGED <<upstream, source, stage>>

----------------------------------------------------------------------------

\* The instance that an earlier process read from, before all of upstream's.
Earlier == 0

LeftFile(h) == [hash |-> h, versions |-> {<<Earlier, h>>}, owner |-> "live"]

Init ==
    /\ upstream = [instance |-> 1, hash |-> 1]
    /\ node = [instance |-> 1, fork |-> None]
    /\ source = None
    /\ disk \in [Urls -> {None} \cup {LeftFile(h) : h \in Leftovers}]
    /\ stage = NoStage

Next ==
    \/ \E h \in 1..MaxHash : UpstreamReset(h)
    \/ UpstreamReorg
    \/ LiveFetch
    \/ \E url \in Urls : Start(url)
    \/ Fails
    \/ AskBefore \/ AskBlock \/ AskAfter
    \/ OpenStaged \/ CheckStaged \/ FetchGenesis \/ Revalidate
    \/ Abort \/ Retry \/ RollbackFails
    \/ CommitFails \/ Commit
    \/ MemoryReset

Spec == Init /\ [][Next]_vars

----------------------------------------------------------------------------
(* Properties *)

(* The shape of the state; a reset that is over holds no cache lease, and  *)
(* neither of the nested loops of three attempts runs once more.           *)
TypeOK ==
    /\ upstream.instance \in 1..MaxInstance /\ upstream.hash \in 1..MaxHash
    /\ node.instance \in 1..MaxResets
    /\ stage.attempt \in 1..Attempts /\ stage.try \in 1..Attempts
    /\ stage.phase = "idle" => ~stage.lease
    /\ \A u \in Urls : disk[u] # None => disk[u].owner \in {"live", "staged"}

(* What a reset publishes for an anvil endpoint is of one version: the     *)
(* block, the accounts read from the endpoint and those taken from a cache *)
(* file that this node wrote all come from the instance the node was told, *)
(* though the endpoint may reset or reorganise its chain between any two   *)
(* requests, keep its block hashes across a reset, and leave caches of     *)
(* earlier instances.  What an earlier process left in the file for a      *)
(* block of the same hash is not told apart from it, until a reset finds   *)
(* the endpoint to be another instance than at the reset before.           *)
ForkOfOneVersion ==
    [][node'.instance # node.instance /\ node'.fork # None =>
         LET fork == node'.fork
             own == <<fork.identity, fork.hash>>
             replaced == /\ source # None /\ source.url = fork.url
                         /\ source.identity # fork.identity
         IN  Named(fork.identity) =>
                /\ own \in fork.versions
                /\ fork.versions \subseteq {own, <<Earlier, fork.hash>>}
                /\ replaced => fork.versions = {own}]_vars

(* The same without the exception, which the code does not keep: a node    *)
(* that is told its endpoint's instance publishes nothing of another one.  *)
InheritsNothing ==
    [][node'.instance # node.instance /\ node'.fork # None
         /\ Named(node'.fork.identity) =>
            node'.fork.versions = {<<node'.fork.identity, node'.fork.hash>>}]_vars

(* prepare_fork_reset and rollback_staged_fork_cache: a reset that fails,  *)
(* or starts over, leaves no cache file of the database it had staged.     *)
FailedResetHarmless ==
    stage.phase \in {"idle", "before"} =>
        \A u \in Urls : disk[u] # None => disk[u].owner = "live"

(* An endpoint that tells its instance in time is not mistaken for another *)
(* node: after any number of resets, each of which gives this node another *)
(* instance, it never becomes its own fork.                                *)
NeverItsOwnFork == node.fork # None => node.fork.url # "self"
=============================================================================
