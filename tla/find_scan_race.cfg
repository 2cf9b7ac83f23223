SPECIFICATION Spec
CONSTANTS
    p1 = p1
    p2 = p2
    server = server
    cli = cli
    Server = server
    Paths = {p1}
    Procs = {server}
    Faults = {}
    Watching = TRUE
    Restores = FALSE
    Exclusive = TRUE
    Noisy = {}
    Deletable = {p1}
    MaxVersion = 1
    MaxUpsets = 0
    MaxCalls = 2
    MaxTotalRetries = 2
    MaxRetry = 1
    BatchSize = 1
INVARIANTS
    FilesStayIndexed
\* A server that nobody starts, with every file and command used up, stops.
CHECK_DEADLOCK FALSE
