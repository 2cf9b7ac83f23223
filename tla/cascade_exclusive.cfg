SPECIFICATION Spec
CONSTANTS
    p1 = p1
    p2 = p2
    server = server
    cli = cli
    Server = server
    Paths = {p1}
    Procs = {server, cli}
    Faults = {"transient", "fatal", "scan", "crash"}
    Watching = TRUE
    Restores = FALSE
    Exclusive = TRUE
    Noisy = {}
    Deletable = {p1}
    MaxVersion = 2
    MaxUpsets = 2
    MaxCalls = 2
    MaxTotalRetries = 1
    MaxRetry = 1
    BatchSize = 1
INVARIANTS
    SettledInv
    SettledIndexed
    NoStrandedRow
PROPERTIES
    ImplementsMirror
\* A server that nobody starts, with every file and command used up, stops.
CHECK_DEADLOCK FALSE
