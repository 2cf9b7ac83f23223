SPECIFICATION Spec
CONSTANTS
    e1 = e1
    k1 = k1
    k2 = k2
    ec = ec
    ed = ed
    kc = kc
    kd = kd
    Episodes = {e1}
    Cases = {k1, k2}
    WithSubject = {e1}
    GoodCases = {k1}
    EpisodeClusters = {ec, ed}
    CaseClusters = {kc, kd}
    BatchSize = 2
    MaxCommands = 2
    MaxServes = 1
    MaxText = 2
    MaxFaults = 1
SYMMETRY Symmetry
INVARIANTS
    TypeOK
    ExitZeroMeansEmbedded
    FreshVectors
    OneCluster
PROPERTY
    OrphansIndexed
\* When every command has been run and the server is down nothing is left to do.
CHECK_DEADLOCK FALSE
