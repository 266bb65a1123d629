SPECIFICATION Spec
CONSTANTS
    Urls = {"upstream", "other"}
    SlowUrls = {}
    Attempts = 2
    MaxInstance = 3
    MaxHash = 2
    MaxResets = 4
    Leftovers = {}
    Anonymous = Anonymous
    Nameless = Nameless
    None = None
PROPERTY ForkOfOneVersion
CHECK_DEADLOCK FALSE
