SPECIFICATION Spec
CONSTANTS
    Blocks = {1, 2, 3, 4, 5, 6}
    States = {"old", "new"}
    MemoryLimit = 2
    MinLimit = 1
    FastLimit = 3
    DiskLimit = 2
    MaxLimit = 4
    Persistent = FALSE
    Partial = Partial
    None = None
INVARIANT FilesTracked
INVARIANT RecentKept
PROPERTY KeepsHistory
