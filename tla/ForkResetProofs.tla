--------------------------- MODULE ForkResetProofs ---------------------------
(***************************************************************************)
(* Proofs about ForkReset: what an anvil_reset onto a fork publishes, for  *)
(* any number of resets, attempts, instances and blocks of the endpoint.   *)
(***************************************************************************)
EXTENDS ForkReset, TLAPS

Identity == Int \cup {Anonymous, Nameless, None}
Hashes == Int \cup {None}
Versions == SUBSET (Int \X Int)
Purposes == {None, "snapshot", "primary", "final"}
Asking == {"before", "block", "after"}
Phases == {"idle", "before", "block", "after", "open", "check", "genesis",
           "revalidate", "staged", "retry", "abort"}
Endpoints == Urls \cup {None}

StageType ==
    [phase : Phases, url : Endpoints, attempt : Nat, try : Nat,
     purpose : Purposes, before : Identity, block : Hashes,
     identity : Identity, hash : Hashes, changed : BOOLEAN,
     versions : Versions, lease : BOOLEAN]

Fork == [url : Urls, identity : Identity, hash : Hashes, versions : Versions]

File == [hash : Hashes, versions : Versions, owner : {"live", "staged"}]

Source == [url : Urls, identity : Identity]

(* What the variables hold, and that a reset under way has an endpoint. *)
Typed ==
    /\ upstream \in [instance : Nat \ {0}, hash : Nat]
    /\ node \in [instance : Nat, fork : Fork \cup {None}]
    /\ source \in Source \cup {None}
    /\ disk \in [Urls -> File \cup {None}]
    /\ stage \in StageType
    /\ stage.phase # "idle" => stage.url \in Urls
    /\ stage.phase \in Asking => stage.purpose \in {"snapshot", "primary", "final"}

LEMMA EndpointType ==
    ASSUME Typed, NEW url \in Urls
    PROVE  /\ Endpoint(url) \in [instance : Int, hash : Nat]
           /\ Version(url) \in Int \X Int
           /\ \A i \in Identities(url) : i \in Int \cup {Anonymous, Nameless}
           /\ \A i \in Identities(url) : i \in Identity
           /\ url = "upstream" => Endpoint(url) = upstream
           /\ url = "self" => Endpoint(url).instance = -node.instance
<1>1. CASE url = "upstream"
  BY <1>1 DEF Endpoint, Version, Identities, Typed, Identity
<1>2. CASE url = "self"
  BY <1>2 DEF Endpoint, Version, Identities, Typed, Identity
<1>3. CASE url = "other"
  BY <1>3, ForkResetAssumption DEF Endpoint, Version, Identities, Typed, Identity
<1> QED
  BY <1>1, <1>2, <1>3, ForkResetAssumption

----------------------------------------------------------------------------
(* A reset under way is a record of StageType whatever field is set; the   *)
(* sets of the fields stay opaque here.                                    *)

LEMMA NoStageType == NoStage \in StageType /\ NoStage.phase = "idle"
BY DEF NoStage, StageType, Phases, Identity, Endpoints, Purposes, Hashes, Versions

LEMMA NewStageType ==
    ASSUME NEW url \in Urls, NEW n \in Nat
    PROVE  /\ [NoStage EXCEPT !.phase = "before", !.purpose = "snapshot",
                              !.url = url, !.attempt = n] \in StageType
           /\ [NoStage EXCEPT !.phase = "before", !.purpose = "snapshot",
                              !.url = url] \in StageType
<1>1. "before" \in Phases /\ "snapshot" \in Purposes /\ url \in Endpoints
  BY DEF Phases, Purposes, Endpoints
<1> QED
  BY <1>1, NoStageType DEF StageType, NoStage

LEMMA PhaseSet ==
    ASSUME NEW s \in StageType, NEW p \in Phases
    PROVE  [s EXCEPT !.phase = p] \in StageType
BY DEF StageType

LEMMA BeforeSet ==
    ASSUME NEW s \in StageType, NEW p \in Phases, NEW i \in Identity
    PROVE  [s EXCEPT !.phase = p, !.before = i] \in StageType
BY DEF StageType

LEMMA BlockSet ==
    ASSUME NEW s \in StageType, NEW p \in Phases, NEW h \in Hashes
    PROVE  [s EXCEPT !.phase = p, !.block = h] \in StageType
BY DEF StageType

LEMMA TrySet ==
    ASSUME NEW s \in StageType, NEW p \in Phases
    PROVE  [s EXCEPT !.phase = p, !.try = @ + 1] \in StageType
<1>1. s.try + 1 \in Nat
  BY DEF StageType
<1> QED
  BY <1>1 DEF StageType

LEMMA OpenSet ==
    ASSUME NEW s \in StageType, NEW p \in Phases, NEW vs \in Versions,
           NEW c \in BOOLEAN
    PROVE  [s EXCEPT !.phase = p, !.lease = TRUE, !.changed = c, !.versions = vs]
             \in StageType
BY DEF StageType

LEMMA VersionsSet ==
    ASSUME NEW s \in StageType, NEW p \in Phases, NEW vs \in Versions
    PROVE  [s EXCEPT !.versions = vs, !.phase = p] \in StageType
BY DEF StageType

LEMMA FinalSet ==
    ASSUME NEW s \in StageType
    PROVE  [s EXCEPT !.phase = "before", !.purpose = "final", !.try = 1] \in StageType
<1>1. 1 \in Nat /\ "final" \in Purposes /\ "before" \in Phases
  BY DEF Purposes, Phases
<1> QED
  BY <1>1 DEF StageType

LEMMA FlushedType ==
    ASSUME Typed, NEW d \in [Urls -> File \cup {None}]
    PROVE  Flushed(d) \in [Urls -> File \cup {None}]
BY DEF Flushed, Typed, Fork, File

LEMMA RolledBackType ==
    ASSUME Typed, stage.phase # "idle"
    PROVE  /\ CleanedUp(stage) \in [Urls -> File \cup {None}]
           /\ RolledBack(stage) \in [Urls -> File \cup {None}]
<1>1. Dropped(disk, stage) \in [Urls -> File \cup {None}]
  BY DEF Dropped, Typed, StageType, File
<1>2. CleanedUp(stage) \in [Urls -> File \cup {None}]
  BY <1>1 DEF CleanedUp, Invalidated
<1> QED
  BY <1>2, FlushedType DEF RolledBack

(* What follows an answer: the snapshot is taken, confirmed or finally     *)
(* confirmed.                                                              *)
LEMMA Answers ==
    ASSUME Typed, stage.phase = "after"
    PROVE  /\ stage.purpose = "snapshot" =>
                \E p \in {"before", "open"} :
                   /\ Stable(stage) =
                        [stage EXCEPT !.identity = stage.before, !.hash = stage.block,
                                      !.try = 1, !.purpose = "primary", !.phase = p]
                   /\ p = "before" <=> Authoritative(stage.before)
           /\ stage.purpose = "primary" =>
                Stable(stage) = IF Confirmed(stage) THEN [stage EXCEPT !.phase = "open"]
                                                    ELSE NoStage
           /\ stage.purpose = "final" =>
                Stable(stage) = [stage EXCEPT !.phase = IF Confirmed(stage)
                                                        THEN "staged" ELSE "retry"]
           /\ stage.purpose \in {"snapshot", "primary", "final"}
<1>1. ASSUME stage.purpose = "snapshot"
      PROVE  \E p \in {"before", "open"} :
               /\ Stable(stage) =
                    [stage EXCEPT !.identity = stage.before, !.hash = stage.block,
                                  !.try = 1, !.purpose = "primary", !.phase = p]
               /\ p = "before" <=> Authoritative(stage.before)
  <2>1. Stable(stage) =
          [stage EXCEPT !.identity = stage.before, !.hash = stage.block, !.try = 1,
                        !.purpose = "primary",
                        !.phase = IF Authoritative(stage.before) THEN "before"
                                                                 ELSE "open"]
    BY <1>1 DEF Stable
  <2> QED
    BY <2>1
<1>2. stage.purpose = "primary" =>
        Stable(stage) = IF Confirmed(stage) THEN [stage EXCEPT !.phase = "open"]
                                            ELSE NoStage
  BY DEF Stable
<1>3. stage.purpose = "final" =>
        Stable(stage) = [stage EXCEPT !.phase = IF Confirmed(stage)
                                                THEN "staged" ELSE "retry"]
  BY DEF Stable
<1> QED
  BY <1>1, <1>2, <1>3 DEF Typed, Asking

LEMMA StableType ==
    ASSUME Typed, stage.phase = "after"
    PROVE  /\ Stable(stage) \in StageType
           /\ Stable(stage).phase # "idle" => Stable(stage).url = stage.url
           /\ Stable(stage).phase \in Asking
                => Stable(stage).purpose \in {"snapshot", "primary", "final"}
<1>0. stage \in StageType /\ {"before", "open", "staged", "retry"} \subseteq Phases
  BY DEF Typed, Phases
<1>1. CASE stage.purpose = "snapshot"
  <2>1. PICK p \in {"before", "open"} : Stable(stage) =
          [stage EXCEPT !.identity = stage.before, !.hash = stage.block, !.try = 1,
                        !.purpose = "primary", !.phase = p]
    BY <1>1, Answers
  <2>2. stage \in StageType /\ p \in Phases /\ 1 \in Nat /\ "primary" \in Purposes
    BY <1>0 DEF Purposes
  <2>3. Stable(stage) \in StageType
    BY <2>1, <2>2 DEF StageType
  <2> QED
    BY <1>0, <2>1, <2>3 DEF StageType
<1>2. CASE stage.purpose = "primary"
  BY <1>0, <1>2, Answers, NoStageType, PhaseSet DEF Asking, StageType
<1>3. CASE stage.purpose = "final"
  BY <1>0, <1>3, Answers, PhaseSet DEF Asking, StageType
<1> QED
  BY <1>1, <1>2, <1>3, Answers

(* Every variable keeps its type, and a reset under way has an endpoint    *)
(* from its first request to its end (stage_fork_reset).                   *)
THEOREM TypingHolds == Spec => []Typed
<1>1. Init => Typed
  <2>1. \A h \in Leftovers : LeftFile(h) \in File
    BY ForkResetAssumption DEF LeftFile, File, Hashes, Versions, Earlier
  <2> QED
    BY <2>1, NoStageType, ForkResetAssumption DEF Init, Typed, Asking
<1>2. Typed /\ [Next]_vars => Typed'
  <2> SUFFICES ASSUME Typed, [Next]_vars
               PROVE  Typed'
    OBVIOUS
  <2>1. ASSUME NEW h \in 1..MaxHash, UpstreamReset(h)
        PROVE  Typed'
    BY <2>1 DEF UpstreamReset, Typed
  <2>2. CASE UpstreamReorg
    BY <2>2 DEF UpstreamReorg, Typed
  <2>3. CASE LiveFetch
    <3>1. node.fork \in Fork /\ node.fork.url \in Urls
      BY <2>3 DEF LiveFetch, Typed, Fork
    <3>2. node' \in [instance : Nat, fork : Fork \cup {None}]
      <4>1. node.fork.versions \cup {Version(node.fork.url)} \in Versions
        BY <3>1, EndpointType DEF Fork, Versions
      <4> QED
        BY <2>3, <3>1, <4>1 DEF LiveFetch, Typed, Fork
    <3> QED
      BY <2>3, <3>2 DEF LiveFetch, Typed
  <2>4. ASSUME NEW url \in Urls, Start(url)
        PROVE  Typed'
    <3>1. disk' \in [Urls -> File \cup {None}]
      BY <2>4, FlushedType DEF Start, Typed
    <3>2. stage' \in StageType
      BY <2>4, NewStageType DEF Start
    <3>3. stage'.url \in Urls /\ stage'.purpose = "snapshot"
      BY <2>4 DEF Start, NoStage
    <3> QED
      BY <2>4, <3>1, <3>2, <3>3 DEF Start, Typed
  <2>5. CASE Fails
    <3>1. "abort" \in Phases
      BY DEF Phases
    <3>2. stage' \in StageType /\ (stage'.phase # "idle" => stage'.url = stage.url)
          /\ stage'.phase \notin Asking
      BY <2>5, <3>1, NoStageType, PhaseSet DEF Fails, Typed, StageType, Asking
    <3> QED
      BY <2>5, <3>2 DEF Fails, Typed
  <2>6. CASE AskBefore
    <3>1. PICK i \in Identity : stage' = [stage EXCEPT !.phase = "block", !.before = i]
      BY <2>6, EndpointType DEF AskBefore, Typed
    <3>2. stage' \in StageType
      BY <3>1, BeforeSet DEF Typed, Phases
    <3>3. stage'.url = stage.url /\ stage'.purpose = stage.purpose
      BY <3>1 DEF Typed, StageType
    <3> QED
      BY <2>6, <3>2, <3>3 DEF AskBefore, Typed, Asking
  <2>7. CASE AskBlock
    <3>1. Endpoint(stage.url).hash \in Hashes
      BY <2>7, EndpointType DEF AskBlock, Typed, Hashes
    <3>2. stage' \in StageType
      BY <2>7, <3>1, BlockSet DEF AskBlock, Typed, Phases
    <3>3. stage'.url = stage.url /\ stage'.purpose = stage.purpose
      BY <2>7 DEF AskBlock, Typed, StageType
    <3> QED
      BY <2>7, <3>2, <3>3 DEF AskBlock, Typed, Asking
  <2>8. CASE AskAfter
    <3>1. \/ stage' = Stable(stage)
          \/ stage' = [stage EXCEPT !.phase = "before", !.try = @ + 1]
          \/ stage' = Unstable(stage)
      BY <2>8 DEF AskAfter
    <3>2. CASE stage' = Stable(stage)
      BY <2>8, <3>2, StableType DEF AskAfter, Typed
    <3>3. CASE stage' = [stage EXCEPT !.phase = "before", !.try = @ + 1]
      <4>1. stage' \in StageType
        BY <3>3, TrySet DEF Typed, Phases
      <4>2. stage'.url = stage.url /\ stage'.purpose = stage.purpose
        BY <3>3 DEF Typed, StageType
      <4> QED
        BY <2>8, <4>1, <4>2 DEF AskAfter, Typed, Asking
    <3>4. CASE stage' = Unstable(stage)
      <4>1. "retry" \in Phases
        BY DEF Phases
      <4>2. stage' \in StageType /\ (stage'.phase # "idle" => stage'.url = stage.url)
            /\ stage'.phase \notin Asking
        BY <3>4, <4>1, NoStageType, PhaseSet DEF Unstable, Typed, StageType, Asking
      <4> QED
        BY <2>8, <4>2 DEF AskAfter, Typed
    <3> QED
      BY <3>1, <3>2, <3>3, <3>4
  <2>9. CASE OpenStaged
    <3>1. Cached(stage) \in Versions /\ {} \in Versions
      BY <2>9 DEF OpenStaged, Cached, Typed, File, Versions
    <3>2. IdentityChanged(stage) \in BOOLEAN
      BY DEF IdentityChanged
    <3>3. PICK vs \in Versions : stage' = [stage EXCEPT !.phase = "check",
              !.lease = TRUE, !.changed = IdentityChanged(stage), !.versions = vs]
      BY <2>9, <3>1 DEF OpenStaged
    <3>4. stage' \in StageType
      BY <3>2, <3>3, OpenSet DEF Typed, Phases
    <3>5. stage'.url = stage.url /\ stage'.phase = "check"
      BY <3>3 DEF Typed, StageType
    <3> QED
      BY <2>9, <3>4, <3>5 DEF OpenStaged, Typed, Asking
  <2>10. CASE CheckStaged
    <3>1. PICK p \in {"abort", "retry", "genesis"} : stage' = [stage EXCEPT !.phase = p]
      BY <2>10 DEF CheckStaged
    <3>2. stage' \in StageType
      BY <3>1, PhaseSet DEF Typed, Phases
    <3>3. stage'.url = stage.url /\ stage'.phase \notin Asking
      BY <3>1 DEF Typed, StageType, Asking
    <3> QED
      BY <2>10, <3>2, <3>3 DEF CheckStaged, Typed
  <2>11. CASE FetchGenesis
    <3>1. stage.versions \cup {Version(stage.url)} \in Versions
      BY <2>11, EndpointType DEF FetchGenesis, Typed, StageType, Versions
    <3>2. stage' \in StageType
      BY <2>11, <3>1, VersionsSet DEF FetchGenesis, Typed, Phases
    <3>3. stage'.url = stage.url /\ stage'.phase = "revalidate"
      BY <2>11 DEF FetchGenesis, Typed, StageType
    <3> QED
      BY <2>11, <3>2, <3>3 DEF FetchGenesis, Typed, Asking
  <2>12. CASE Revalidate
    <3>1. \/ stage' = [stage EXCEPT !.phase = "before", !.purpose = "final", !.try = 1]
          \/ stage' = [stage EXCEPT !.phase = "staged"]
      BY <2>12 DEF Revalidate, Revalidated
    <3>2. stage' \in StageType
      BY <3>1, FinalSet, PhaseSet DEF Typed, Phases
    <3>3. stage'.url = stage.url
          /\ (stage'.phase = "staged" \/ stage'.purpose = "final")
      BY <3>1 DEF Typed, StageType
    <3> QED
      BY <2>12, <3>2, <3>3 DEF Revalidate, Typed, Asking
  <2>13. CASE Abort
    BY <2>13, RolledBackType, NoStageType DEF Abort, Typed, Asking
  <2>19. CASE RollbackFails
    <3>1. disk' \in [Urls -> File \cup {None}]
      BY <2>19, RolledBackType DEF RollbackFails
    <3> QED
      BY <2>19, <3>1, NoStageType DEF RollbackFails, Typed, Asking
  <2>14. CASE Retry
    <3>1. stage' \in StageType /\ (stage'.phase # "idle" => stage'.url \in Urls)
          /\ (stage'.phase # "idle" => stage'.purpose = "snapshot")
      <4>1. CASE stage' = NoStage
        BY <4>1, NoStageType
      <4>2. CASE stage' = [NoStage EXCEPT !.phase = "before", !.purpose = "snapshot",
                             !.url = stage.url, !.attempt = stage.attempt + 1]
        <5>1. stage.url \in Urls /\ stage.attempt + 1 \in Nat
          BY <2>14 DEF Retry, Typed, StageType
        <5>2. stage' \in StageType
          BY <4>2, <5>1, NewStageType
        <5> QED
          BY <4>2, <5>1, <5>2 DEF NoStage
      <4> QED
        BY <2>14, <4>1, <4>2 DEF Retry
    <3> QED
      BY <2>14, <3>1, RolledBackType DEF Retry, Typed, Asking
  <2>15. CASE CommitFails
    <3>1. disk' \in [Urls -> File \cup {None}]
      BY <2>15, RolledBackType DEF CommitFails
    <3> QED
      BY <2>15, <3>1, NoStageType DEF CommitFails, Typed, Asking
  <2>16. CASE Commit
    <3>1. disk' \in [Urls -> File \cup {None}]
      <4> DEFINE cleaned == IF stage.changed THEN [disk EXCEPT ![stage.url] = None]
                                             ELSE disk
      <4>1. cleaned \in [Urls -> File \cup {None}]
        BY DEF Typed
      <4>2. Flushed(cleaned) \in [Urls -> File \cup {None}]
        BY <4>1, FlushedType
      <4>3. CASE stage.changed /\ node.fork # None
        <5>1. node.fork \in Fork
          BY <4>3 DEF Typed
        <5>2. disk' = [cleaned EXCEPT ![node.fork.url] =
                [hash |-> node.fork.hash, versions |-> {}, owner |-> "live"]]
          BY <2>16, <4>3 DEF Commit, OldCache
        <5> QED
          BY <5>1, <5>2, <4>1 DEF Fork, File, Versions
      <4> QED
        BY <2>16, <4>2, <4>3 DEF Commit, OldCache
    <3>2. node' \in [instance : Nat, fork : Fork \cup {None}]
      BY <2>16 DEF Commit, Typed, StageType, Fork
    <3>3. source' \in Source \cup {None}
      BY <2>16 DEF Commit, Typed, StageType, Source
    <3> QED
      BY <2>16, <3>1, <3>2, <3>3, NoStageType DEF Commit, Typed, Asking
  <2>17. CASE MemoryReset
    BY <2>17, FlushedType DEF MemoryReset, Typed
  <2>18. CASE UNCHANGED vars
    BY <2>18 DEF vars, Typed
  <2> QED
    BY <2>1, <2>2, <2>3, <2>4, <2>5, <2>6, <2>7, <2>8, <2>9, <2>10, <2>11,
       <2>12, <2>13, <2>14, <2>15, <2>16, <2>17, <2>18, <2>19 DEF Next
<1> QED
  BY <1>1, <1>2, PTL DEF Spec

----------------------------------------------------------------------------
(* A failed reset: the file of a staged database does not outlive the step *)
(* that drops the database, whatever the phase.                            *)

FilesLive == \A u \in Urls : disk[u] # None => disk[u].owner = "live"

LEMMA FlushedLive ==
    ASSUME Typed, NEW d \in [Urls -> File \cup {None}],
           \A u \in Urls : d[u] # None => d[u].owner = "live"
    PROVE  \A u \in Urls : Flushed(d)[u] # None => Flushed(d)[u].owner = "live"
BY DEF Flushed, Typed, Fork, File

LEMMA RolledBackLive ==
    ASSUME Typed, FilesLive, stage.phase # "idle"
    PROVE  \A d \in {RolledBack(stage), CleanedUp(stage)} :
              \A u \in Urls : d[u] # None => d[u].owner = "live"
<1>1. CleanedUp(stage) \in [Urls -> File \cup {None}]
  BY RolledBackType
<1>2. \A u \in Urls : CleanedUp(stage)[u] # None => CleanedUp(stage)[u].owner = "live"
  BY DEF CleanedUp, Dropped, Invalidated, FilesLive, Typed
<1>3. \A u \in Urls : RolledBack(stage)[u] # None => RolledBack(stage)[u].owner = "live"
  BY <1>1, <1>2, FlushedLive DEF RolledBack
<1> QED
  BY <1>2, <1>3

(* Whatever fails while a fork is staged, and however often it is retried, *)
(* no cache file of a staged database stays behind (anvil_reset,           *)
(* rollback_staged_fork_cache).                                            *)
THEOREM FailedResetLeavesNothing == Spec => []FailedResetHarmless
<1>1. Init => FilesLive
  BY DEF Init, FilesLive, LeftFile
<1>2. Typed /\ FilesLive /\ [Next]_vars => FilesLive'
  <2> SUFFICES ASSUME Typed, FilesLive, [Next]_vars
               PROVE  FilesLive'
    OBVIOUS
  <2>1. disk \in [Urls -> File \cup {None}]
    BY DEF Typed
  <2>2. CASE disk' = disk
    BY <2>2 DEF FilesLive
  <2>3. CASE disk' = Flushed(disk)
    BY <2>1, <2>3, FlushedLive DEF FilesLive
  <2>4. CASE disk' \in {RolledBack(stage), CleanedUp(stage)} /\ stage.phase # "idle"
    BY <2>4, RolledBackLive DEF FilesLive
  <2>5. CASE Commit
    <3> DEFINE cleaned == IF stage.changed THEN [disk EXCEPT ![stage.url] = None]
                                           ELSE disk
    <3>1. cleaned \in [Urls -> File \cup {None}]
      BY <2>1
    <3>2. \A u \in Urls : cleaned[u] # None => cleaned[u].owner = "live"
      BY <2>1 DEF FilesLive
    <3>3. CASE stage.changed /\ node.fork # None
      <4>1. node.fork.url \in Urls
        BY <3>3 DEF Typed, Fork
      <4>2. disk' = [cleaned EXCEPT ![node.fork.url] =
              [hash |-> node.fork.hash, versions |-> {}, owner |-> "live"]]
        BY <2>5, <3>3 DEF Commit, OldCache
      <4> QED
        BY <3>1, <3>2, <4>1, <4>2 DEF FilesLive
    <3>4. CASE ~(stage.changed /\ node.fork # None)
      <4>1. disk' = Flushed(cleaned)
        BY <2>5, <3>4 DEF Commit, OldCache
      <4> QED
        BY <3>1, <3>2, <4>1, FlushedLive DEF FilesLive
    <3> QED
      BY <3>3, <3>4
  <2> QED
    BY <2>2, <2>3, <2>4, <2>5
       DEF Next, vars, UpstreamReset, UpstreamReorg, LiveFetch, Start, Fails,
           AskBefore, AskBlock, AskAfter, OpenStaged, CheckStaged, FetchGenesis,
           Revalidate, Abort, Retry, RollbackFails, CommitFails, MemoryReset
<1>3. FilesLive => FailedResetHarmless
  BY DEF FilesLive, FailedResetHarmless
<1> QED
  BY <1>1, <1>2, <1>3, TypingHolds, PTL DEF Spec

----------------------------------------------------------------------------
(* A reset pointed at the node itself: the node keeps its instance while   *)
(* the reset is under way, so the identity it was told is its own, and the *)
(* check of the staged database stops it.                                  *)

SelfFound ==
    stage.phase # "idle" /\ stage.url = "self" =>
        /\ stage.phase \in {"before", "block", "after", "open", "check", "abort"}
        /\ stage.phase \in {"block", "after"} => stage.before = -node.instance
        /\ stage.phase \in Asking => stage.purpose # "final"
        /\ stage.phase \in {"open", "check"} => stage.identity = -node.instance
        /\ stage.phase \in Asking /\ stage.purpose = "primary"
             => stage.identity = -node.instance

SelfInv == SelfFound /\ NeverItsOwnFork

(* Steps that leave the node alone, and either the reset under way as well *)
(* or end it, or restart it, or change only its counters.                  *)
LEMMA NewStageKeepsSelf ==
    ASSUME SelfInv, UNCHANGED node,
           \/ stage'.phase = "idle"
           \/ stage'.phase = "before" /\ stage'.purpose = "snapshot"
    PROVE  SelfInv'
BY DEF SelfInv, SelfFound, NeverItsOwnFork, Asking

LEMMA SelfKept ==
    ASSUME "self" \notin SlowUrls
    PROVE  Spec => []SelfInv
<1>1. Init => SelfInv
  BY NoStageType DEF Init, SelfInv, SelfFound, NeverItsOwnFork
<1>2. Typed /\ SelfInv /\ [Next]_vars => SelfInv'
  <2> SUFFICES ASSUME Typed, SelfInv, [Next]_vars
               PROVE  SelfInv'
    OBVIOUS
  <2> USE DEF SelfInv
  <2>0. \A i : stage.phase # "idle" /\ stage.url = "self" /\ i \in Identities(stage.url)
                 => i = -node.instance
    BY EndpointType DEF Typed, Identities
  <2>1. ASSUME NEW h \in 1..MaxHash, UpstreamReset(h)
        PROVE  SelfInv'
    BY <2>1 DEF UpstreamReset, SelfFound, NeverItsOwnFork
  <2>2. CASE UpstreamReorg
    BY <2>2 DEF UpstreamReorg, SelfFound, NeverItsOwnFork
  <2>3. CASE LiveFetch
    <3>1. node'.instance = node.instance /\ (node'.fork # None => node'.fork.url # "self")
      BY <2>3 DEF LiveFetch, Typed, Fork, NeverItsOwnFork
    <3> QED
      BY <2>3, <3>1 DEF LiveFetch, SelfFound, NeverItsOwnFork
  <2>4. ASSUME NEW url \in Urls, Start(url)
        PROVE  SelfInv'
    BY <2>4, NewStageKeepsSelf DEF Start, NoStage
  <2>5. CASE Fails
    <3>1. \/ stage' = NoStage
          \/ stage'.phase = "abort" /\ stage'.url = stage.url
      BY <2>5 DEF Fails, Typed, StageType
    <3> QED
      BY <2>5, <3>1, NoStageType DEF Fails, SelfFound, NeverItsOwnFork, Asking
  <2>6. CASE AskBefore
    <3>1. PICK i \in Identities(stage.url) :
            stage' = [stage EXCEPT !.phase = "block", !.before = i]
      BY <2>6 DEF AskBefore
    <3>2. /\ stage'.phase = "block" /\ stage'.url = stage.url /\ stage'.before = i
          /\ stage'.purpose = stage.purpose /\ stage'.identity = stage.identity
      BY <3>1 DEF Typed, StageType
    <3> QED
      BY <2>0, <2>6, <3>1, <3>2 DEF AskBefore, SelfFound, NeverItsOwnFork, Asking
  <2>7. CASE AskBlock
    <3>1. /\ stage'.phase = "after" /\ stage'.url = stage.url
          /\ stage'.before = stage.before /\ stage'.purpose = stage.purpose
          /\ stage'.identity = stage.identity
      BY <2>7 DEF AskBlock, Typed, StageType
    <3> QED
      BY <2>7, <3>1 DEF AskBlock, SelfFound, NeverItsOwnFork, Asking
  <2>8. CASE AskAfter
    <3> USE <2>8 DEF AskAfter, SelfFound, NeverItsOwnFork, Asking
    <3>1. \/ stage' = Stable(stage)
          \/ stage' = [stage EXCEPT !.phase = "before", !.try = @ + 1]
          \/ stage' = Unstable(stage)
      OBVIOUS
    <3>2. CASE stage' = Stable(stage)
      <4>1. CASE stage.purpose = "snapshot"
        <5>1. PICK p \in {"before", "open"} : stage' =
                [stage EXCEPT !.identity = stage.before, !.hash = stage.block,
                              !.try = 1, !.purpose = "primary", !.phase = p]
          BY <3>2, <4>1, Answers
        <5>2. /\ stage'.phase = p /\ stage'.url = stage.url
              /\ stage'.purpose = "primary" /\ stage'.identity = stage.before
          BY <5>1 DEF Typed, StageType
        <5> QED
          BY <5>2
      <4>2. CASE stage.purpose = "primary"
        <5>1. stage' = [stage EXCEPT !.phase = "open"] \/ stage' = NoStage
          BY <3>2, <4>2, Answers
        <5>2. \/ /\ stage'.phase = "open" /\ stage'.url = stage.url
                 /\ stage'.identity = stage.identity
              \/ stage'.phase = "idle"
          BY <5>1, NoStageType DEF Typed, StageType
        <5> QED
          BY <4>2, <5>2
      <4>3. CASE stage.purpose = "final"
        <5>1. PICK p \in {"staged", "retry"} : stage' = [stage EXCEPT !.phase = p]
          BY <3>2, <4>3, Answers
        <5>2. stage'.phase = p /\ stage'.url = stage.url
          BY <5>1 DEF Typed, StageType
        <5> QED
          BY <4>3, <5>2
      <4> QED
        BY <4>1, <4>2, <4>3, Answers
    <3>3. CASE stage' = [stage EXCEPT !.phase = "before", !.try = @ + 1]
      <4>1. /\ stage'.phase = "before" /\ stage'.url = stage.url
            /\ stage'.purpose = stage.purpose /\ stage'.identity = stage.identity
        BY <3>3 DEF Typed, StageType
      <4> QED
        BY <4>1
    <3>4. CASE stage' = Unstable(stage)
      <4>1. \/ stage.purpose = "final" /\ stage'.url = stage.url
            \/ stage'.phase = "idle"
        BY <3>4, NoStageType DEF Unstable, Typed, StageType
      <4> QED
        BY <4>1
    <3> QED
      BY <3>1, <3>2, <3>3, <3>4
  <2>9. CASE OpenStaged
    <3>1. /\ stage'.phase = "check" /\ stage'.url = stage.url
          /\ stage'.identity = stage.identity
      BY <2>9 DEF OpenStaged, Typed, StageType
    <3> QED
      BY <2>9, <3>1 DEF OpenStaged, SelfFound, NeverItsOwnFork, Asking
  <2>10. CASE CheckStaged
    <3>1. stage'.url = stage.url /\ (IsSelf(stage) => stage'.phase = "abort")
      BY <2>10 DEF CheckStaged, Typed, StageType
    <3> QED
      BY <2>10, <3>1 DEF CheckStaged, IsSelf, SelfFound, NeverItsOwnFork, Asking
  <2>11. CASE FetchGenesis
    <3>1. stage'.url = stage.url
      BY <2>11 DEF FetchGenesis, Typed, StageType
    <3> QED
      BY <2>11, <3>1 DEF FetchGenesis, SelfFound, NeverItsOwnFork
  <2>12. CASE Revalidate
    <3>1. stage'.url = stage.url
      BY <2>12 DEF Revalidate, Revalidated, Typed, StageType
    <3> QED
      BY <2>12, <3>1 DEF Revalidate, SelfFound, NeverItsOwnFork
  <2>13. CASE Abort
    BY <2>13, NewStageKeepsSelf, NoStageType DEF Abort
  <2>14. CASE Retry
    <3>1. \/ stage'.phase = "idle"
          \/ stage'.phase = "before" /\ stage'.purpose = "snapshot"
      BY <2>14, NoStageType DEF Retry, NoStage
    <3> QED
      BY <2>14, <3>1, NewStageKeepsSelf DEF Retry
  <2>15. CASE CommitFails
    BY <2>15, NewStageKeepsSelf, NoStageType DEF CommitFails
  <2>19. CASE RollbackFails
    BY <2>19, NewStageKeepsSelf, NoStageType DEF RollbackFails
  <2>16. CASE Commit
    BY <2>16, NoStageType DEF Commit, SelfFound, NeverItsOwnFork
  <2>17. CASE MemoryReset
    BY <2>17 DEF MemoryReset, SelfFound, NeverItsOwnFork
  <2>18. CASE UNCHANGED vars
    BY <2>18 DEF vars, SelfFound, NeverItsOwnFork
  <2> QED
    BY <2>1, <2>2, <2>3, <2>4, <2>5, <2>6, <2>7, <2>8, <2>9, <2>10, <2>11,
       <2>12, <2>13, <2>14, <2>15, <2>16, <2>17, <2>18, <2>19 DEF Next
<1> QED
  BY <1>1, <1>2, TypingHolds, PTL DEF Spec

(* A node whose own endpoint tells its identity in time never becomes its  *)
(* own fork (is_self, compared with the instance id when the staged        *)
(* database is checked).                                                   *)
THEOREM NoForkOfItself ==
    ASSUME "self" \notin SlowUrls
    PROVE  Spec => []NeverItsOwnFork
<1>1. SelfInv => NeverItsOwnFork
  BY DEF SelfInv
<1> QED
  BY <1>1, SelfKept, PTL

----------------------------------------------------------------------------
(* Versions: instances of the upstream node only grow, and while it keeps  *)
(* its instance the number of its fork block's hash does.                  *)

Moved(i, h) ==
    \/ upstream.instance > i
    \/ upstream.instance = i /\ upstream.hash > h

Known(i) == i # Anonymous /\ i # Nameless /\ i # None

\* All of vs was read from instance i at block h, or inherited for that block,
\* or the endpoint is past it.
OfVersion(vs, i, h) ==
    Known(i) => \A v \in vs : v \in {<<i, h>>, <<Earlier, h>>} \/ Moved(i, h)
Seen(i) == Known(i) => i \in Nat /\ upstream.instance >= i

SourceKnown ==
    source # None =>
        /\ source.url = "upstream"
        /\ source.identity # None /\ Seen(source.identity)

FileVersions ==
    disk["upstream"] # None =>
        /\ disk["upstream"].hash \in Nat
        /\ IF source = None
           THEN disk["upstream"].versions \subseteq {<<Earlier, disk["upstream"].hash>>}
           ELSE OfVersion(disk["upstream"].versions, source.identity,
                          disk["upstream"].hash)

ForkVersions ==
    node.fork # None =>
        /\ source # None
        /\ node.fork.url = "upstream"
        /\ source.identity = node.fork.identity
        /\ node.fork.hash \in Nat
        /\ upstream.instance = node.fork.identity => upstream.hash >= node.fork.hash
        /\ OfVersion(node.fork.versions, node.fork.identity, node.fork.hash)

Opened == {"check", "genesis", "revalidate", "staged"}

\* What the answers under way say of the endpoint.
AnswersOK(s) ==
    /\ s.phase \in {"block", "after"} => Seen(s.before) /\ s.before # None
    /\ s.phase = "after" =>
         /\ s.block \in Nat
         /\ upstream.instance = s.before => upstream.hash >= s.block

HasSnapshot(s) ==
    s.phase \in Opened \cup {"open"} \/ s.purpose \in {"primary", "final"}

\* The snapshot was true of the endpoint.
SnapshotOK(s) ==
    HasSnapshot(s) =>
        /\ Seen(s.identity) /\ s.identity # None
        /\ s.hash \in Nat
        /\ upstream.instance = s.identity => upstream.hash >= s.hash

HasCache(s) == s.phase \in Opened \/ s.purpose = "final"

\* What is cached is of the snapshot, or the endpoint is past it.
CacheOK(s) ==
    HasCache(s) =>
        /\ s.changed = IdentityChanged(s)
        /\ OfVersion(s.versions, s.identity, s.hash)
        /\ s.changed => <<Earlier, s.hash>> \notin s.versions

\* The snapshot, and at most what was inherited for its block.
OneVersion(s) ==
    /\ <<s.identity, s.hash>> \in s.versions
    /\ s.versions \subseteq {<<s.identity, s.hash>>, <<Earlier, s.hash>>}

FinalAsking(s) == s.phase \in Asking /\ s.purpose = "final"

\* Once the snapshot is finally confirmed, all that is cached is of it.
FetchedOK(s) ==
    /\ s.phase = "revalidate" \/ FinalAsking(s) =>
         \E v \in s.versions : v # <<Earlier, s.hash>>
    /\ s.phase = "after" /\ FinalAsking(s) /\ Confirmed(s)
         /\ Known(s.identity) /\ upstream.instance = s.identity
         => OneVersion(s)
    /\ s.phase = "staged" /\ Known(s.identity) => OneVersion(s)

StageOK(s) == AnswersOK(s) /\ SnapshotOK(s) /\ CacheOK(s) /\ FetchedOK(s)

StageVersions ==
    stage.phase # "idle" /\ stage.url = "upstream" => StageOK(stage)

VersionInv == SourceKnown /\ FileVersions /\ ForkVersions /\ StageVersions

(* The endpoint is the upstream node, or this one, which tells its         *)
(* identity in time.                                                       *)
OneEndpoint == Urls = {"upstream", "self"} /\ "self" \notin SlowUrls

(* Time passes at the upstream node: what was past stays past. *)
LEMMA UpstreamGrows ==
    ASSUME Typed, Typed',
           \/ upstream'.instance > upstream.instance
           \/ upstream'.instance = upstream.instance /\ upstream'.hash >= upstream.hash
    PROVE  /\ \A i \in Nat, h \in Nat : Moved(i, h) => Moved(i, h)'
           /\ \A i \in Identity : Seen(i) => Seen(i)'
           /\ \A i \in Nat, h \in Nat :
                /\ upstream.instance >= i
                /\ upstream.instance = i => upstream.hash >= h
                => (upstream'.instance = i => upstream'.hash >= h)
BY DEF Typed, Moved, Seen, Known

LEMMA VersionsGrow ==
    ASSUME Typed, Typed', NEW vs, NEW i \in Identity, NEW h \in Nat,
           Seen(i), OfVersion(vs, i, h),
           \/ upstream'.instance > upstream.instance
           \/ upstream'.instance = upstream.instance /\ upstream'.hash >= upstream.hash
    PROVE  OfVersion(vs, i, h)'
<1>1. Known(i) => i \in Nat
  BY DEF Seen
<1>2. Known(i) => (Moved(i, h) => Moved(i, h)')
  BY <1>1, UpstreamGrows
<1> QED
  BY <1>2 DEF OfVersion, Known

LEMMA GrowsOK ==
    ASSUME Typed, Typed', VersionInv, UNCHANGED <<node, source, disk, stage>>,
           \/ upstream'.instance > upstream.instance
           \/ upstream'.instance = upstream.instance /\ upstream'.hash >= upstream.hash
    PROVE  VersionInv'
<1> DEFINE s == stage
<1>0. /\ \A i \in Identity : Seen(i) => Seen(i)'
      /\ \A i \in Nat, h \in Nat :
           /\ upstream.instance >= i
           /\ upstream.instance = i => upstream.hash >= h
           => (upstream'.instance = i => upstream'.hash >= h)
  BY UpstreamGrows
<1>1. SourceKnown'
  <2>1. source # None => source.identity \in Identity
    BY DEF Typed, Source
  <2> QED
    BY <1>0, <2>1 DEF VersionInv, SourceKnown
<1>2. FileVersions'
  <2> SUFFICES ASSUME disk["upstream"] # None, source # None
               PROVE  OfVersion(disk["upstream"].versions, source.identity,
                                disk["upstream"].hash)'
    BY DEF VersionInv, FileVersions
  <2>1. source.identity \in Identity /\ Seen(source.identity)
    BY DEF VersionInv, SourceKnown, Typed, Source
  <2> QED
    BY <2>1, VersionsGrow DEF VersionInv, FileVersions, OfVersion
<1>3. ForkVersions'
  <2> SUFFICES ASSUME node.fork # None
               PROVE  /\ OfVersion(node.fork.versions, node.fork.identity, node.fork.hash)'
                      /\ upstream'.instance = node.fork.identity
                           => upstream'.hash >= node.fork.hash
    BY DEF VersionInv, ForkVersions
  <2>1. node.fork.identity \in Identity /\ Seen(node.fork.identity)
    BY DEF VersionInv, ForkVersions, SourceKnown, Typed, Source
  <2>2. OfVersion(node.fork.versions, node.fork.identity, node.fork.hash)'
    BY <2>1, VersionsGrow DEF VersionInv, ForkVersions, OfVersion
  <2>3. CASE Known(node.fork.identity)
    BY <1>0, <2>1, <2>2, <2>3 DEF VersionInv, ForkVersions, Seen
  <2>4. CASE ~Known(node.fork.identity)
    <3>1. node.fork.identity \in {Anonymous, Nameless}
      BY <2>4 DEF VersionInv, ForkVersions, SourceKnown, Known
    <3> QED
      BY <2>2, <3>1, ForkResetAssumption DEF Typed
  <2> QED
    BY <2>3, <2>4
<1>4. StageVersions'
  <2> SUFFICES ASSUME stage.phase # "idle", stage.url = "upstream"
               PROVE  StageOK(stage)'
    BY DEF StageVersions
  <2>0. StageOK(stage)
    BY DEF VersionInv, StageVersions
  <2>1. stage.before \in Identity /\ stage.identity \in Identity
    BY DEF Typed, StageType
  <2>2. AnswersOK(stage)'
    <3>1. stage.phase \in {"block", "after"} => Seen(stage.before)' /\ stage.before # None
      BY <1>0, <2>0, <2>1 DEF StageOK, AnswersOK
    <3>2. ASSUME stage.phase = "after"
          PROVE  /\ stage.block \in Nat
                 /\ upstream'.instance = stage.before => upstream'.hash >= stage.block
      <4>1. CASE Known(stage.before)
        BY <1>0, <2>0, <2>1, <3>2, <4>1 DEF StageOK, AnswersOK, Seen
      <4>2. CASE ~Known(stage.before)
        <5>1. stage.before \in {Anonymous, Nameless}
          BY <2>0, <3>2, <4>2 DEF StageOK, AnswersOK, Known
        <5> QED
          BY <2>0, <3>2, <5>1, ForkResetAssumption DEF StageOK, AnswersOK, Typed
      <4> QED
        BY <4>1, <4>2
    <3> QED
      BY <3>1, <3>2 DEF AnswersOK
  <2>3. SnapshotOK(stage)'
    <3> SUFFICES ASSUME HasSnapshot(stage)
                 PROVE  /\ Seen(stage.identity)'
                        /\ upstream'.instance = stage.identity
                             => upstream'.hash >= stage.hash
      BY <2>0 DEF StageOK, SnapshotOK, HasSnapshot
    <3>1. CASE Known(stage.identity)
      BY <1>0, <2>0, <2>1, <3>1 DEF StageOK, SnapshotOK, Seen
    <3>2. CASE ~Known(stage.identity)
      <4>1. stage.identity \in {Anonymous, Nameless}
        BY <2>0, <3>2 DEF StageOK, SnapshotOK, Known
      <4> QED
        BY <1>0, <2>0, <2>1, <4>1, ForkResetAssumption DEF StageOK, SnapshotOK, Typed
    <3> QED
      BY <3>1, <3>2
  <2>4. CacheOK(stage)'
    <3> SUFFICES ASSUME HasCache(stage)
                 PROVE  OfVersion(stage.versions, stage.identity, stage.hash)'
      BY <2>0 DEF StageOK, CacheOK, HasCache, IdentityChanged
    <3>1. Seen(stage.identity) /\ stage.hash \in Nat
      BY <2>0 DEF StageOK, SnapshotOK, HasSnapshot, HasCache
    <3> QED
      BY <2>0, <2>1, <3>1, VersionsGrow DEF StageOK, CacheOK, OfVersion
  <2>5. FetchedOK(stage)'
    <3>1. ASSUME stage.phase = "after", FinalAsking(stage), Confirmed(stage),
                 Known(stage.identity), upstream'.instance = stage.identity
          PROVE  upstream.instance = stage.identity
      <4>1. Seen(stage.identity)
        BY <2>0, <3>1 DEF StageOK, SnapshotOK, HasSnapshot, FinalAsking
      <4> QED
        BY <3>1, <4>1 DEF Seen, Typed
    <3> QED
      BY <2>0, <3>1 DEF StageOK, FetchedOK, FinalAsking, Confirmed, Known, OneVersion
  <2> QED
    BY <2>2, <2>3, <2>4, <2>5 DEF StageOK
<1> QED
  BY <1>1, <1>2, <1>3, <1>4 DEF VersionInv

(* The live cache is written over a file that satisfied the invariant. *)
LEMMA FlushedVersions ==
    ASSUME Typed, VersionInv, OneEndpoint,
           NEW d \in [Urls -> File \cup {None}],
           d["upstream"] = None \/ d["upstream"] = disk["upstream"],
           disk' = Flushed(d), UNCHANGED <<upstream, source>>
    PROVE  FileVersions'
<1> SUFFICES ASSUME disk'["upstream"] # None
             PROVE  /\ disk'["upstream"].hash \in Nat
                    /\ source = None => disk'["upstream"].versions
                                          \subseteq {<<Earlier, disk'["upstream"].hash>>}
                    /\ source # None => OfVersion(disk'["upstream"].versions,
                                                  source.identity, disk'["upstream"].hash)
  BY DEF FileVersions, OfVersion, Moved, Known
<1>1. CASE node.fork = None
  BY <1>1 DEF Flushed, VersionInv, FileVersions
<1>2. CASE node.fork # None
  <2>1. node.fork.url = "upstream" /\ "upstream" \in Urls
    BY <1>2 DEF VersionInv, ForkVersions, OneEndpoint
  <2>2. disk'["upstream"] = [hash |-> node.fork.hash, versions |-> node.fork.versions,
                             owner |-> "live"]
    BY <1>2, <2>1 DEF Flushed
  <2> QED
    BY <1>2, <2>2 DEF VersionInv, ForkVersions
<1> QED
  BY <1>1, <1>2

LEMMA StageVersionsNext ==
    ASSUME UNCHANGED <<upstream, source>>,
           stage'.phase # "idle" /\ stage'.url = "upstream" => StageOK(stage')
    PROVE  StageVersions'
BY DEF StageVersions, StageOK, AnswersOK, SnapshotOK, CacheOK, FetchedOK,
       HasSnapshot, HasCache, FinalAsking, Confirmed, IdentityChanged, OfVersion,
       OneVersion, Seen, Moved, Known

(* A step of the staging alone. *)
LEMMA StagingOK ==
    ASSUME VersionInv, UNCHANGED <<upstream, node, source, disk>>,
           stage'.phase # "idle" /\ stage'.url = "upstream" => StageOK(stage')
    PROVE  VersionInv'
<1>1. StageVersions'
  BY StageVersionsNext
<1>2. SourceKnown' /\ FileVersions' /\ ForkVersions'
  BY DEF VersionInv, SourceKnown, FileVersions, ForkVersions, OfVersion, Seen, Moved,
         Known
<1> QED
  BY <1>1, <1>2 DEF VersionInv

(* A reset that is over, or starts again, has nothing yet. *)
LEMMA NewStageOK ==
    ASSUME stage'.phase = "before", stage'.purpose = "snapshot"
    PROVE  StageOK(stage')
BY DEF StageOK, AnswersOK, SnapshotOK, CacheOK, FetchedOK, HasSnapshot, HasCache,
       FinalAsking, Opened, Asking

LEMMA AskedBefore ==
    ASSUME Typed, VersionInv, AskBefore
    PROVE  VersionInv'
<1>1. PICK i \in Identities(stage.url) :
        stage' = [stage EXCEPT !.phase = "block", !.before = i]
  BY DEF AskBefore
<1> SUFFICES ASSUME stage'.phase # "idle" /\ stage'.url = "upstream"
             PROVE  StageOK(stage')
  BY StagingOK DEF AskBefore
<1>2. /\ stage'.phase = "block" /\ stage'.url = stage.url /\ stage'.before = i
      /\ stage'.purpose = stage.purpose /\ stage'.identity = stage.identity
      /\ stage'.hash = stage.hash /\ stage'.changed = stage.changed
      /\ stage'.versions = stage.versions
  BY <1>1 DEF Typed, StageType
<1>3. StageOK(stage)
  BY <1>2 DEF VersionInv, StageVersions, AskBefore
<1>4. Seen(i) /\ i # None
  <2>1. "upstream" \in Urls /\ Endpoint("upstream").instance = upstream.instance
    BY <1>2, EndpointType DEF Typed, AskBefore
  <2>2. i = upstream.instance \/ i \in {Anonymous, Nameless}
    BY <1>2, <2>1 DEF Identities
  <2> QED
    BY <2>2, ForkResetAssumption DEF Seen, Known, Typed
<1>5. AnswersOK(stage')
  BY <1>2, <1>4 DEF AnswersOK
<1>6. SnapshotOK(stage')
  BY <1>2, <1>3 DEF StageOK, SnapshotOK, HasSnapshot, AskBefore, Opened
<1>7. CacheOK(stage')
  BY <1>2, <1>3 DEF StageOK, CacheOK, HasCache, AskBefore, Opened, IdentityChanged
<1>8. FetchedOK(stage')
  BY <1>2, <1>3 DEF StageOK, FetchedOK, FinalAsking, AskBefore, Asking
<1> QED
  BY <1>5, <1>6, <1>7, <1>8 DEF StageOK

LEMMA AskedBlock ==
    ASSUME Typed, VersionInv, AskBlock
    PROVE  VersionInv'
<1> SUFFICES ASSUME stage'.phase # "idle" /\ stage'.url = "upstream"
             PROVE  StageOK(stage')
  BY StagingOK DEF AskBlock
<1>1. /\ stage'.phase = "after" /\ stage'.url = stage.url
      /\ stage'.before = stage.before
      /\ stage'.purpose = stage.purpose /\ stage'.identity = stage.identity
      /\ stage'.hash = stage.hash /\ stage'.changed = stage.changed
      /\ stage'.versions = stage.versions
      /\ stage'.block = Endpoint(stage.url).hash
  BY DEF AskBlock, Typed, StageType
<1>2. stage'.block = upstream.hash
  BY <1>1, EndpointType DEF Typed, AskBlock
<1>3. StageOK(stage)
  BY <1>1 DEF VersionInv, StageVersions, AskBlock
<1>4. upstream.hash \in Nat
  BY DEF Typed
<1>5. AnswersOK(stage')
  BY <1>1, <1>2, <1>3, <1>4 DEF StageOK, AnswersOK, AskBlock
<1>6. SnapshotOK(stage')
  BY <1>1, <1>3 DEF StageOK, SnapshotOK, HasSnapshot, AskBlock, Opened
<1>7. CacheOK(stage')
  BY <1>1, <1>3 DEF StageOK, CacheOK, HasCache, AskBlock, Opened, IdentityChanged
<1>8. FetchedOK(stage')
  <2>1. FinalAsking(stage') => FinalAsking(stage)
    BY <1>1 DEF FinalAsking, AskBlock, Asking
  <2>2. ASSUME FinalAsking(stage'), Confirmed(stage'), Known(stage'.identity),
               upstream.instance = stage'.identity
        PROVE  OneVersion(stage')
    <3>1. /\ Known(stage.identity)
          /\ \E v \in stage.versions : v # <<Earlier, stage.hash>>
          /\ OfVersion(stage.versions, stage.identity, stage.hash)
      BY <1>1, <1>3, <2>1, <2>2 DEF StageOK, FetchedOK, CacheOK, HasCache, FinalAsking
    <3>2. ~Moved(stage.identity, stage.hash)
      BY <1>1, <1>2, <1>4, <2>2 DEF Moved, Confirmed, Typed
    <3>3. \A v \in stage.versions :
            v \in {<<stage.identity, stage.hash>>, <<Earlier, stage.hash>>}
      BY <3>1, <3>2 DEF OfVersion
    <3> QED
      BY <1>1, <3>1, <3>3 DEF OneVersion
  <2>3. FinalAsking(stage') => \E v \in stage'.versions : v # <<Earlier, stage'.hash>>
    BY <1>1, <1>3, <2>1 DEF StageOK, FetchedOK
  <2> QED
    BY <1>1, <2>2, <2>3 DEF FetchedOK
<1> QED
  BY <1>5, <1>6, <1>7, <1>8 DEF StageOK

LEMMA AskedAfter ==
    ASSUME Typed, VersionInv, AskAfter
    PROVE  VersionInv'
<1> SUFFICES ASSUME stage'.phase # "idle" /\ stage'.url = "upstream"
             PROVE  StageOK(stage')
  BY StagingOK DEF AskAfter
<1>1. PICK i \in Identities(stage.url) :
        stage' = IF i = stage.before THEN Stable(stage)
                 ELSE IF MayAskAgain(stage)
                 THEN [stage EXCEPT !.phase = "before", !.try = @ + 1]
                 ELSE Unstable(stage)
  BY DEF AskAfter
<1>2. \/ stage' = Stable(stage) /\ i = stage.before
      \/ stage' = [stage EXCEPT !.phase = "before", !.try = @ + 1]
      \/ stage' = Unstable(stage)
  BY <1>1
<1>3. CASE stage' = [stage EXCEPT !.phase = "before", !.try = @ + 1]
  <2>1. /\ stage'.phase = "before" /\ stage'.url = stage.url
        /\ stage'.purpose = stage.purpose /\ stage'.identity = stage.identity
        /\ stage'.hash = stage.hash /\ stage'.changed = stage.changed
        /\ stage'.versions = stage.versions
    BY <1>3 DEF Typed, StageType
  <2>2. StageOK(stage)
    BY <2>1 DEF VersionInv, StageVersions, AskAfter
  <2> QED
    BY <2>1, <2>2 DEF AskAfter, StageOK, AnswersOK, SnapshotOK, HasSnapshot, CacheOK,
                      HasCache, FetchedOK, FinalAsking, Asking, Opened, IdentityChanged
<1>4. CASE stage' = Unstable(stage)
  <2>1. /\ stage.purpose = "final"
        /\ stage'.phase = "retry" /\ stage'.url = stage.url
        /\ stage'.purpose = stage.purpose /\ stage'.identity = stage.identity
        /\ stage'.hash = stage.hash /\ stage'.changed = stage.changed
        /\ stage'.versions = stage.versions
    BY <1>4, NoStageType DEF Unstable, Typed, StageType
  <2>2. StageOK(stage)
    BY <2>1 DEF VersionInv, StageVersions, AskAfter
  <2> QED
    BY <2>1, <2>2 DEF AskAfter, StageOK, AnswersOK, SnapshotOK, HasSnapshot, CacheOK,
                      HasCache, FetchedOK, FinalAsking, Asking, Opened, IdentityChanged
<1>5. CASE stage' = Stable(stage) /\ i = stage.before
  <2>1. CASE stage.purpose = "snapshot"
    <3>1. PICK p \in {"before", "open"} : stage' =
            [stage EXCEPT !.identity = stage.before, !.hash = stage.block,
                          !.try = 1, !.purpose = "primary", !.phase = p]
      BY <1>5, <2>1, Answers DEF AskAfter
    <3>2. /\ stage'.phase = p /\ stage'.url = stage.url
          /\ stage'.purpose = "primary" /\ stage'.identity = stage.before
          /\ stage'.hash = stage.block
      BY <3>1 DEF Typed, StageType
    <3>3. StageOK(stage)
      BY <3>2 DEF VersionInv, StageVersions, AskAfter
    <3> QED
      BY <3>2, <3>3 DEF AskAfter, StageOK, AnswersOK, SnapshotOK, HasSnapshot, CacheOK,
                        HasCache, FetchedOK, FinalAsking, Asking, Opened
  <2>2. CASE stage.purpose = "primary"
    <3>1. stage' = [stage EXCEPT !.phase = "open"]
      BY <1>5, <2>2, Answers, NoStageType DEF AskAfter
    <3>2. /\ stage'.phase = "open" /\ stage'.url = stage.url
          /\ stage'.purpose = "primary" /\ stage'.identity = stage.identity
          /\ stage'.hash = stage.hash
      BY <2>2, <3>1 DEF Typed, StageType
    <3>3. StageOK(stage)
      BY <3>2 DEF VersionInv, StageVersions, AskAfter
    <3> QED
      BY <2>2, <3>2, <3>3 DEF AskAfter, StageOK, AnswersOK, SnapshotOK, HasSnapshot,
                        CacheOK, HasCache, FetchedOK, FinalAsking, Asking, Opened
  <2>3. CASE stage.purpose = "final"
    <3>1. stage' = [stage EXCEPT !.phase = IF Confirmed(stage)
                                           THEN "staged" ELSE "retry"]
      BY <1>5, <2>3, Answers DEF AskAfter
    <3>2. /\ stage'.phase = IF Confirmed(stage) THEN "staged" ELSE "retry"
          /\ stage'.url = stage.url /\ stage'.purpose = stage.purpose
          /\ stage'.identity = stage.identity /\ stage'.versions = stage.versions
          /\ stage'.hash = stage.hash /\ stage'.changed = stage.changed
      BY <3>1 DEF Typed, StageType
    <3>3. StageOK(stage)
      BY <3>2 DEF VersionInv, StageVersions, AskAfter
    <3>4. ASSUME Confirmed(stage), Known(stage.identity)
          PROVE  OneVersion(stage')
      <4>1. "upstream" \in Urls /\ Endpoint("upstream").instance = upstream.instance
        BY <3>2, EndpointType DEF Typed, AskAfter
      <4>2. i = upstream.instance \/ i \in {Anonymous, Nameless}
        BY <3>2, <4>1 DEF Identities
      <4>3. upstream.instance = stage.identity
        BY <1>5, <3>4, <4>2 DEF Confirmed, Known
      <4> QED
        BY <2>3, <3>2, <3>3, <3>4, <4>3 DEF AskAfter, StageOK, FetchedOK, FinalAsking,
                                            Asking, OneVersion
    <3>5. AnswersOK(stage') /\ SnapshotOK(stage')
      BY <2>3, <3>2, <3>3 DEF StageOK, AnswersOK, SnapshotOK, HasSnapshot, Opened
    <3>6. CacheOK(stage')
      BY <2>3, <3>2, <3>3 DEF StageOK, CacheOK, HasCache, IdentityChanged
    <3>7. FetchedOK(stage')
      BY <3>2, <3>4 DEF FetchedOK, FinalAsking, Asking
    <3> QED
      BY <3>5, <3>6, <3>7 DEF StageOK
  <2> QED
    BY <2>1, <2>2, <2>3, Answers DEF AskAfter
<1> QED
  BY <1>2, <1>3, <1>4, <1>5

LEMMA StagedOpened ==
    ASSUME Typed, VersionInv, OneEndpoint, OpenStaged
    PROVE  VersionInv'
<1> SUFFICES ASSUME stage'.phase # "idle" /\ stage'.url = "upstream"
             PROVE  StageOK(stage')
  BY StagingOK DEF OpenStaged
<1>1. /\ stage'.phase = "check" /\ stage'.url = stage.url
      /\ stage'.purpose = stage.purpose /\ stage'.identity = stage.identity
      /\ stage'.hash = stage.hash
      /\ stage'.changed = IdentityChanged(stage)
      /\ stage'.versions = IF IdentityChanged(stage) THEN {} ELSE Cached(stage)
  BY DEF OpenStaged, Typed, StageType
<1>2. StageOK(stage)
  BY <1>1 DEF VersionInv, StageVersions, OpenStaged
<1>3. AnswersOK(stage') /\ SnapshotOK(stage')
  BY <1>1, <1>2 DEF StageOK, AnswersOK, SnapshotOK, HasSnapshot, Opened, OpenStaged
<1>4. OfVersion(stage'.versions, stage'.identity, stage'.hash)
  <2> SUFFICES ASSUME ~IdentityChanged(stage), Known(stage.identity),
                      disk["upstream"] # None, disk["upstream"].hash = stage.hash
               PROVE  OfVersion(disk["upstream"].versions, stage.identity, stage.hash)
    BY <1>1 DEF OfVersion, Cached
  <2>1. CASE source = None
    BY <2>1 DEF VersionInv, FileVersions, OfVersion
  <2>2. CASE source # None
    <3>1. source.identity = stage.identity
      BY <1>1, <2>2 DEF IdentityChanged, Authoritative, Known, VersionInv, SourceKnown
    <3> QED
      BY <2>2, <3>1 DEF VersionInv, FileVersions
  <2> QED
    BY <2>1, <2>2
<1>5. CacheOK(stage')
  <2>1. IdentityChanged(stage') = IdentityChanged(stage)
    BY <1>1 DEF IdentityChanged
  <2> QED
    BY <1>1, <1>4, <2>1 DEF CacheOK
<1>6. FetchedOK(stage')
  BY <1>1 DEF FetchedOK, FinalAsking, Asking
<1> QED
  BY <1>3, <1>5, <1>6 DEF StageOK

LEMMA GenesisFetched ==
    ASSUME Typed, VersionInv, FetchGenesis
    PROVE  VersionInv'
<1> SUFFICES ASSUME stage'.phase # "idle" /\ stage'.url = "upstream"
             PROVE  StageOK(stage')
  BY StagingOK DEF FetchGenesis
<1>1. /\ stage'.phase = "revalidate" /\ stage'.url = stage.url
      /\ stage'.purpose = stage.purpose /\ stage'.identity = stage.identity
      /\ stage'.hash = stage.hash /\ stage'.changed = stage.changed
      /\ stage'.versions = stage.versions \cup {Version(stage.url)}
  BY DEF FetchGenesis, Typed, StageType
<1>2. StageOK(stage)
  BY <1>1 DEF VersionInv, StageVersions, FetchGenesis
<1>3. Version(stage.url) = <<upstream.instance, upstream.hash>>
  BY <1>1, EndpointType DEF Version, Typed, FetchGenesis
<1>4. AnswersOK(stage') /\ SnapshotOK(stage')
  BY <1>1, <1>2 DEF StageOK, AnswersOK, SnapshotOK, HasSnapshot, Opened, FetchGenesis
<1>5. OfVersion(stage'.versions, stage'.identity, stage'.hash)
  <2> SUFFICES ASSUME Known(stage.identity)
               PROVE  \A v \in stage'.versions :
                        v \in {<<stage.identity, stage.hash>>, <<Earlier, stage.hash>>}
                          \/ Moved(stage.identity, stage.hash)
    BY <1>1 DEF OfVersion
  <2>1. OfVersion(stage.versions, stage.identity, stage.hash)
    BY <1>2 DEF StageOK, CacheOK, HasCache, Opened, FetchGenesis
  <2>2. \/ upstream.instance = stage.identity /\ upstream.hash = stage.hash
        \/ Moved(stage.identity, stage.hash)
    BY <1>2 DEF StageOK, SnapshotOK, HasSnapshot, Opened, FetchGenesis, Seen, Moved,
                Typed
  <2> QED
    BY <1>1, <1>3, <2>1, <2>2 DEF OfVersion
<1>6. Version(stage.url) # <<Earlier, stage.hash>>
  BY <1>3 DEF Typed, Earlier
<1>7. CacheOK(stage')
  <2>1. /\ stage.changed = IdentityChanged(stage)
        /\ stage.changed => <<Earlier, stage.hash>> \notin stage.versions
    BY <1>2 DEF StageOK, CacheOK, HasCache, Opened, FetchGenesis
  <2>2. IdentityChanged(stage') = IdentityChanged(stage)
    BY <1>1 DEF IdentityChanged
  <2> QED
    BY <1>1, <1>5, <1>6, <2>1, <2>2 DEF CacheOK
<1>8. FetchedOK(stage')
  BY <1>1, <1>6 DEF FetchedOK, FinalAsking, Asking
<1> QED
  BY <1>4, <1>7, <1>8 DEF StageOK

(* Steps that leave what was read as it is. *)
LEMMA OthersStaged ==
    ASSUME Typed, VersionInv, Fails \/ CheckStaged \/ Revalidate
    PROVE  VersionInv'
<1> SUFFICES ASSUME stage'.phase # "idle" /\ stage'.url = "upstream"
             PROVE  StageOK(stage')
  BY StagingOK DEF Fails, CheckStaged, Revalidate
<1>0. stage.phase # "idle" => (stage.url = "upstream" => StageOK(stage))
  BY DEF VersionInv, StageVersions
<1> USE DEF StageOK, AnswersOK, SnapshotOK, CacheOK, FetchedOK, HasSnapshot, HasCache,
            FinalAsking, Asking, Opened
<1>1. CASE Fails
  <2>1. /\ stage'.phase = "abort" /\ stage'.url = stage.url /\ stage.lease
        /\ stage'.purpose = stage.purpose /\ stage'.identity = stage.identity
        /\ stage'.hash = stage.hash /\ stage'.changed = stage.changed
        /\ stage'.versions = stage.versions
    BY <1>1, NoStageType DEF Fails, Typed, StageType
  <2> QED
    BY <1>0, <1>1, <2>1 DEF Fails, IdentityChanged
<1>2. CASE CheckStaged
  <2>1. /\ stage'.phase \in {"abort", "retry", "genesis"} /\ stage'.url = stage.url
        /\ stage'.purpose = stage.purpose /\ stage'.identity = stage.identity
        /\ stage'.hash = stage.hash /\ stage'.changed = stage.changed
        /\ stage'.versions = stage.versions
    BY <1>2 DEF CheckStaged, Typed, StageType
  <2> QED
    BY <1>0, <1>2, <2>1 DEF CheckStaged, IdentityChanged
<1>3. CASE Revalidate
  <2>1. /\ \/ /\ Authoritative(stage.identity)
              /\ stage'.phase = "before" /\ stage'.purpose = "final"
           \/ /\ ~Authoritative(stage.identity)
              /\ stage'.phase = "staged" /\ stage'.purpose = stage.purpose
        /\ stage'.url = stage.url /\ stage'.identity = stage.identity
        /\ stage'.hash = stage.hash /\ stage'.changed = stage.changed
        /\ stage'.versions = stage.versions
    BY <1>3 DEF Revalidate, Revalidated, Typed, StageType
  <2>2. StageOK(stage) /\ stage.phase = "revalidate"
    BY <1>0, <1>3, <2>1 DEF Revalidate
  <2>3. ~Authoritative(stage.identity) => ~Known(stage.identity)
    BY DEF Authoritative, Known
  <2>4. AnswersOK(stage') /\ SnapshotOK(stage')
    BY <2>1, <2>2
  <2>5. CacheOK(stage')
    BY <2>1, <2>2 DEF IdentityChanged
  <2>6. FetchedOK(stage')
    BY <2>1, <2>2, <2>3
  <2> QED
    BY <2>4, <2>5, <2>6
<1> QED
  BY <1>1, <1>2, <1>3

(* The live node reads what its endpoint answers now. *)
LEMMA LiveFetched ==
    ASSUME Typed, VersionInv, LiveFetch
    PROVE  VersionInv'
<1>1. /\ node'.fork # None => node.fork # None
      /\ node'.fork.url = node.fork.url /\ node'.fork.identity = node.fork.identity
      /\ node'.fork.hash = node.fork.hash
      /\ node'.fork.versions = node.fork.versions \cup {Version(node.fork.url)}
  BY DEF LiveFetch, Typed, Fork
<1>2. Version(node.fork.url) = <<upstream.instance, upstream.hash>>
  BY EndpointType DEF LiveFetch, VersionInv, ForkVersions, Version, Typed, Fork
<1>3. OfVersion(node'.fork.versions, node.fork.identity, node.fork.hash)
  <2> SUFFICES ASSUME Known(node.fork.identity)
               PROVE  \A v \in node'.fork.versions :
                        v \in {<<node.fork.identity, node.fork.hash>>,
                               <<Earlier, node.fork.hash>>}
                          \/ Moved(node.fork.identity, node.fork.hash)
    BY DEF OfVersion
  <2>1. OfVersion(node.fork.versions, node.fork.identity, node.fork.hash)
    BY DEF LiveFetch, VersionInv, ForkVersions
  <2>2. \/ /\ upstream.instance = node.fork.identity
           /\ upstream.hash = node.fork.hash
        \/ Moved(node.fork.identity, node.fork.hash)
    BY DEF LiveFetch, VersionInv, ForkVersions, SourceKnown, Seen, Moved, Typed
  <2> QED
    BY <1>1, <1>2, <2>1, <2>2 DEF OfVersion
<1>4. ForkVersions'
  BY <1>1, <1>3 DEF LiveFetch, VersionInv, ForkVersions, OfVersion, Moved, Known
<1>5. SourceKnown' /\ FileVersions'
  BY DEF LiveFetch, VersionInv, SourceKnown, FileVersions, OfVersion, Moved, Known, Seen
<1>6. StageVersions'
  BY StageVersionsNext DEF LiveFetch, VersionInv, StageVersions
<1> QED
  BY <1>4, <1>5, <1>6 DEF VersionInv

(* A reset starts, is given up or starts again: the live cache is written, *)
(* over what the staged database left.                                     *)
LEMMA Restaged ==
    ASSUME Typed, VersionInv, OneEndpoint,
           UNCHANGED <<upstream, node, source>>,
           \/ disk' = Flushed(disk)
           \/ disk' \in {RolledBack(stage), CleanedUp(stage)} /\ stage.phase # "idle",
           \/ stage'.phase = "idle"
           \/ stage'.phase = "before" /\ stage'.purpose = "snapshot"
    PROVE  VersionInv'
<1>1. SourceKnown' /\ ForkVersions'
  BY DEF VersionInv, SourceKnown, ForkVersions, OfVersion, Moved, Known, Seen
<1>2. StageVersions'
  BY StageVersionsNext, NewStageOK
<1>3. FileVersions'
  <2>1. CASE disk' = Flushed(disk)
    BY <2>1, FlushedVersions DEF Typed
  <2>2. CASE disk' \in {RolledBack(stage), CleanedUp(stage)} /\ stage.phase # "idle"
    <3> DEFINE d == CleanedUp(stage)
    <3>1. d \in [Urls -> File \cup {None}]
      BY <2>2, RolledBackType
    <3>2. d["upstream"] = None \/ d["upstream"] = disk["upstream"]
      BY <2>2 DEF CleanedUp, Invalidated, Dropped, Typed, OneEndpoint
    <3>3. CASE disk' = Flushed(d)
      BY <3>1, <3>2, <3>3, FlushedVersions
    <3>4. CASE disk' = d
      BY <3>2, <3>4 DEF VersionInv, FileVersions, OfVersion, Moved, Known
    <3> QED
      BY <2>2, <3>3, <3>4 DEF RolledBack
  <2> QED
    BY <2>1, <2>2
<1> QED
  BY <1>1, <1>2, <1>3 DEF VersionInv

(* The fork is dropped, and writes its cache. *)
LEMMA MemoryResetVersions ==
    ASSUME Typed, VersionInv, OneEndpoint, MemoryReset
    PROVE  VersionInv'
<1>1. FileVersions'
  BY FlushedVersions DEF MemoryReset, Typed
<1>2. SourceKnown' /\ ForkVersions'
  BY DEF MemoryReset, VersionInv, SourceKnown, ForkVersions, Known, Seen
<1>3. StageVersions'
  BY StageVersionsNext DEF MemoryReset, VersionInv, StageVersions
<1> QED
  BY <1>1, <1>2, <1>3 DEF VersionInv

(* The staged fork is published, and the old database writes its cache. *)
LEMMA Committed ==
    ASSUME Typed, SelfInv, VersionInv, OneEndpoint, Commit
    PROVE  VersionInv'
<1>1. stage.url = "upstream"
  BY DEF Commit, Typed, OneEndpoint, SelfInv, SelfFound
<1>2. StageOK(stage) /\ stage.identity # None /\ stage.identity \in Identity
  BY <1>1 DEF Commit, VersionInv, StageVersions, StageOK, SnapshotOK, HasSnapshot,
              Opened, Typed, StageType
<1>3. /\ node'.fork = [url |-> stage.url, identity |-> stage.identity,
                       hash |-> stage.hash, versions |-> stage.versions]
      /\ source' = [url |-> stage.url, identity |-> stage.identity]
      /\ disk' = OldCache(stage) /\ stage' = NoStage /\ upstream' = upstream
  BY DEF Commit
<1>4. source' # None
  <2>1. source' \in [url : Urls, identity : Int \cup {Anonymous, Nameless}]
    BY <1>1, <1>2, <1>3 DEF OneEndpoint, Identity
  <2> QED
    BY <2>1, ForkResetAssumption
<1>5. SourceKnown'
  BY <1>1, <1>2, <1>3 DEF Commit, SourceKnown, StageOK, SnapshotOK, HasSnapshot, Opened,
                          Seen, Known
<1>6. ForkVersions'
  BY <1>1, <1>2, <1>3, <1>4 DEF Commit, ForkVersions, StageOK, SnapshotOK, HasSnapshot,
                    CacheOK, HasCache, Opened, OfVersion, Moved, Known
<1>7. StageVersions'
  BY <1>3, NoStageType DEF StageVersions
<1>8. FileVersions'
  <2>1. stage.changed = IdentityChanged(stage)
    BY <1>2 DEF Commit, StageOK, CacheOK, HasCache, Opened
  <2> SUFFICES ASSUME disk'["upstream"] # None
               PROVE  /\ disk'["upstream"].hash \in Nat
                      /\ OfVersion(disk'["upstream"].versions, stage.identity,
                                   disk'["upstream"].hash)
    BY <1>3, <1>4 DEF FileVersions, OfVersion, Moved, Known
  <2>2. CASE stage.changed
    <3> DEFINE cleaned == [disk EXCEPT ![stage.url] = None]
    <3>1. "upstream" \in Urls /\ disk \in [Urls -> File \cup {None}]
      BY DEF OneEndpoint, Typed
    <3>2. cleaned["upstream"] = None /\ cleaned \in [Urls -> File \cup {None}]
      BY <1>1, <3>1
    <3>3. CASE node.fork = None
      BY <1>3, <2>2, <3>2, <3>3 DEF OldCache, Flushed
    <3>4. CASE node.fork # None
      <4>1. disk' = [cleaned EXCEPT ![node.fork.url] =
                       [hash |-> node.fork.hash, versions |-> {}, owner |-> "live"]]
        BY <1>3, <2>2, <3>4 DEF OldCache
      <4>2. node.fork.url = "upstream" /\ node.fork.hash \in Nat
        BY <3>4 DEF VersionInv, ForkVersions
      <4>3. disk'["upstream"] = [hash |-> node.fork.hash, versions |-> {}, owner |-> "live"]
        BY <3>1, <3>2, <4>1, <4>2
      <4> QED
        BY <4>2, <4>3 DEF OfVersion
    <3> QED
      BY <3>3, <3>4
  <2>3. CASE ~stage.changed
    <3>1. disk' = Flushed(disk)
      BY <1>3, <2>3 DEF OldCache
    <3>2. /\ disk'["upstream"].hash \in Nat
          /\ source = None => disk'["upstream"].versions
                                \subseteq {<<Earlier, disk'["upstream"].hash>>}
          /\ source # None => OfVersion(disk'["upstream"].versions, source.identity,
                                        disk'["upstream"].hash)
      <4>1. CASE node.fork = None
        BY <3>1, <4>1 DEF Flushed, VersionInv, FileVersions
      <4>2. CASE node.fork # None
        <5>1. node.fork.url = "upstream" /\ "upstream" \in Urls
          BY <4>2 DEF VersionInv, ForkVersions, OneEndpoint
        <5>2. disk'["upstream"] = [hash |-> node.fork.hash,
                                   versions |-> node.fork.versions, owner |-> "live"]
          BY <3>1, <4>2, <5>1 DEF Flushed, Typed
        <5> QED
          BY <4>2, <5>2 DEF VersionInv, ForkVersions
      <4> QED
        BY <4>1, <4>2
    <3>3. Known(stage.identity) => source = None \/ source.identity = stage.identity
      BY <1>1, <2>1, <2>3 DEF IdentityChanged, Authoritative, Known, VersionInv,
                              SourceKnown
    <3> QED
      BY <3>2, <3>3 DEF OfVersion
  <2> QED
    BY <2>2, <2>3
<1> QED
  BY <1>5, <1>6, <1>7, <1>8 DEF VersionInv

LEMMA VersionsKept ==
    ASSUME OneEndpoint
    PROVE  Spec => []VersionInv
<1>1. Init => VersionInv
  <2> SUFFICES ASSUME Init PROVE VersionInv
    OBVIOUS
  <2>1. "upstream" \in Urls
    BY DEF OneEndpoint
  <2>2. FileVersions
    <3>1. disk["upstream"] # None =>
            \E h \in Nat : disk["upstream"] = LeftFile(h)
      BY <2>1, ForkResetAssumption DEF Init
    <3>2. ASSUME NEW h \in Nat, disk["upstream"] = LeftFile(h)
          PROVE  /\ disk["upstream"].hash = h
                 /\ disk["upstream"].versions = {<<Earlier, h>>}
      BY <3>2 DEF LeftFile
    <3>3. source = None
      BY DEF Init
    <3> QED
      BY <3>1, <3>2, <3>3 DEF FileVersions
  <2> QED
    BY <2>2, NoStageType DEF Init, VersionInv, SourceKnown, ForkVersions, StageVersions
<1>2. Typed /\ Typed' /\ SelfInv /\ VersionInv /\ [Next]_vars => VersionInv'
  <2> SUFFICES ASSUME Typed, Typed', SelfInv, VersionInv, [Next]_vars
               PROVE  VersionInv'
    OBVIOUS
  <2>1. ASSUME NEW h \in 1..MaxHash, UpstreamReset(h) PROVE VersionInv'
    BY <2>1, GrowsOK DEF UpstreamReset, Typed
  <2>2. CASE UpstreamReorg
    BY <2>2, GrowsOK DEF UpstreamReorg, Typed
  <2>3. CASE LiveFetch
    BY <2>3, LiveFetched
  <2>4. ASSUME NEW url \in Urls, Start(url) PROVE VersionInv'
    <3>1. stage'.phase = "before" /\ stage'.purpose = "snapshot"
      BY <2>4, NoStageType DEF Start, NoStage
    <3> QED
      BY <2>4, <3>1, Restaged DEF Start
  <2>5. CASE Fails \/ CheckStaged \/ Revalidate
    BY <2>5, OthersStaged
  <2>6. CASE AskBefore
    BY <2>6, AskedBefore
  <2>7. CASE AskBlock
    BY <2>7, AskedBlock
  <2>8. CASE AskAfter
    BY <2>8, AskedAfter
  <2>9. CASE OpenStaged
    BY <2>9, StagedOpened
  <2>10. CASE FetchGenesis
    BY <2>10, GenesisFetched
  <2>11. CASE Abort
    BY <2>11, Restaged, NoStageType DEF Abort
  <2>12. CASE Retry
    <3>1. \/ stage'.phase = "idle"
          \/ stage'.phase = "before" /\ stage'.purpose = "snapshot"
      BY <2>12, NoStageType DEF Retry, NoStage
    <3> QED
      BY <2>12, <3>1, Restaged DEF Retry
  <2>13. CASE CommitFails \/ RollbackFails
    BY <2>13, Restaged, NoStageType DEF CommitFails, RollbackFails
  <2>14. CASE Commit
    BY <2>14, Committed
  <2>15. CASE MemoryReset
    BY <2>15, MemoryResetVersions
  <2>16. CASE UNCHANGED vars
    BY <2>16, StagingOK DEF vars, VersionInv, StageVersions
  <2> QED
    BY <2>1, <2>2, <2>3, <2>4, <2>5, <2>6, <2>7, <2>8, <2>9, <2>10, <2>11, <2>12,
       <2>13, <2>14, <2>15, <2>16 DEF Next
<1>3. "self" \notin SlowUrls
  BY DEF OneEndpoint
<1>4. Spec => []SelfInv
  BY <1>3, SelfKept
<1> QED
  BY <1>1, <1>2, <1>4, TypingHolds, PTL DEF Spec

(* A reset onto an anvil that answers at one url publishes one version of  *)
(* it: the block, the accounts read while the reset was staged and those   *)
(* taken from the cache file were all read from the instance the node was  *)
(* told, however often that endpoint is reset or reorganises its chain     *)
(* between two requests.  Only what an earlier process left in the file of *)
(* the same block is published beside them, and not even that once the     *)
(* endpoint is found to be another instance than at the reset before       *)
(* (stage_fork_reset and commit_fork_reset).                               *)
THEOREM PublishedForkOfOneVersion ==
    ASSUME OneEndpoint
    PROVE  Spec => ForkOfOneVersion
<1> DEFINE Own == <<node'.fork.identity, node'.fork.hash>>
           Replaced == /\ source # None /\ source.url = node'.fork.url
                       /\ source.identity # node'.fork.identity
<1>1. ASSUME Typed, SelfInv, VersionInv, [Next]_vars,
             node'.instance # node.instance, node'.fork # None,
             Named(node'.fork.identity)
      PROVE  /\ Own \in node'.fork.versions
             /\ node'.fork.versions \subseteq {Own, <<Earlier, node'.fork.hash>>}
             /\ Replaced => node'.fork.versions = {Own}
  <2>1. Commit
    <3>1. node.instance = node'.instance \/ Commit \/ MemoryReset
      <4>1. ASSUME LiveFetch PROVE node'.instance = node.instance
        BY <1>1, <4>1 DEF LiveFetch, Typed
      <4> QED
        BY <1>1, <4>1 DEF Next, vars, UpstreamReset, UpstreamReorg, Start, Fails,
             AskBefore, AskBlock, AskAfter, OpenStaged, CheckStaged, FetchGenesis,
             Revalidate, Abort, Retry, RollbackFails, CommitFails
    <3> QED
      BY <1>1, <3>1 DEF MemoryReset
  <2>2. stage.url = "upstream"
    BY <1>1, <2>1 DEF Commit, Typed, OneEndpoint, SelfInv, SelfFound
  <2>3. StageOK(stage)
    BY <1>1, <2>1, <2>2 DEF Commit, VersionInv, StageVersions
  <2>4. node'.fork = [url |-> stage.url, identity |-> stage.identity,
                      hash |-> stage.hash, versions |-> stage.versions]
    BY <2>1 DEF Commit
  <2>5. Known(stage.identity)
    BY <1>1, <2>1, <2>3, <2>4 DEF Commit, StageOK, SnapshotOK, HasSnapshot, Opened,
                                  Known, Named
  <2>6. OneVersion(stage)
    BY <2>1, <2>3, <2>5 DEF Commit, StageOK, FetchedOK
  <2>7. Replaced => <<Earlier, stage.hash>> \notin stage.versions
    <3>1. Replaced => IdentityChanged(stage)
      BY <2>4, <2>5 DEF IdentityChanged, Authoritative, Known
    <3> QED
      BY <2>1, <2>3, <3>1 DEF Commit, StageOK, CacheOK, HasCache, Opened
  <2> QED
    BY <2>4, <2>6, <2>7 DEF OneVersion
<1>2. Typed /\ SelfInv /\ VersionInv /\ [Next]_vars =>
        [node'.instance # node.instance /\ node'.fork # None =>
           LET fork == node'.fork
               own == <<fork.identity, fork.hash>>
               replaced == /\ source # None /\ source.url = fork.url
                           /\ source.identity # fork.identity
           IN  Named(fork.identity) =>
                  /\ own \in fork.versions
                  /\ fork.versions \subseteq {own, <<Earlier, fork.hash>>}
                  /\ replaced => fork.versions = {own}]_vars
  BY <1>1
<1>3. "self" \notin SlowUrls
  BY DEF OneEndpoint
<1>4. Spec => []SelfInv
  BY <1>3, SelfKept
<1> QED
  BY <1>2, <1>4, TypingHolds, VersionsKept, PTL DEF Spec, ForkOfOneVersion

=============================================================================
