\* Two clients with requests of every kind beside the block producer; a fork
\* reset may be pointed at the node itself.
SPECIFICATION LifecycleFairSpec
CONSTANTS
    Clients = {c1, c2}
    Producer = producer
    MaxResets = 1
    MaxSnapshots = 1
INVARIANTS OneIncarnation PoolSnapshotsPaired
PROPERTY EveryRequestEnds
