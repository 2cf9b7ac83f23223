SPECIFICATION FairSpec
CONSTANTS
    p1 = p1
    p2 = p2
    server = server
    cli = cli
    Server = server
    Paths = {p1}
    Procs = {server, cli}
    Faults = {"transient", "fatal", "crash"}
    Watching = TRUE
    Restores = FALSE
    Exclusive = TRUE
    Noisy = {}
    Deletable = {p1}
    MaxVersion = 1
    MaxUpsets = 2
    MaxCalls = 1
    MaxTotalRetries = 2
    MaxRetry = 1
    BatchSize = 1
PROPERTIES
    Converges
\* A server that nobody starts, with every file and command used up, stops.
CHECK_DEADLOCK FALSE
