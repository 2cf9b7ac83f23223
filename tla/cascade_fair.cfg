SPECIFICATION FairSpec
CONSTANTS
    p1 = p1
    p2 = p2
    server = server
    cli = cli
    Server = server
    Paths = {p1, p2}
    Procs = {server}
    Faults = {}
    Watching = TRUE
    Restores = FALSE
    Exclusive = TRUE
    Noisy = {p1}
    Deletable = {}
    MaxVersion = 1
    MaxUpsets = 0
    MaxCalls = 1
    MaxTotalRetries = 2
    MaxRetry = 1
    BatchSize = 1
PROPERTIES
    NotStarved
\* A server that nobody starts, with every file and command used up, stops.
CHECK_DEADLOCK FALSE
