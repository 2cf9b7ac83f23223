SPECIFICATION FairSpec
CONSTANTS
    episode = episode
    fact = fact
    NoKind = NoKind
    Kinds = {episode, fact}
    Threshold = 2
    MaxBackoffs = 1
INVARIANTS
    TypeOK
    OneMaintainer
    MaintainerInv
PROPERTIES
    AlertStays
    DirtyServed
\* A worker that has stopped stays stopped.
CHECK_DEADLOCK FALSE
