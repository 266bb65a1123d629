SPECIFICATION Spec
CONSTANTS
    Urls = {"upstream", "self"}
    SlowUrls = {"self"}
    Attempts = 2
    MaxInstance = 2
    MaxHash = 2
    MaxResets = 4
    Leftovers = {1}
    Anonymous = Anonymous
    Nameless = Nameless
    None = None
INVARIANT NeverItsOwnFork
CHECK_DEADLOCK FALSE
