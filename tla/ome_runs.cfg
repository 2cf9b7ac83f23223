SPECIFICATION FairSpec
CONSTANTS
    reflect = reflect
    facts = facts
    cron = cron
    merged = merged
    NoKind = NoKind
    Kinds = {cron, merged}
    External = {cron, merged}
    Strategies = {reflect, facts}
    Routes <- MCRoutes
    Emits <- MCEmits
    Waiters = {reflect}
    MaxRetries = 1
    SlotCounts = {1, 2}
    MaxRecords = 2
    DrainTimesOut = TRUE
    Faults = {"body", "contract", "db", "crash"}
    MaxEvents = 2
    MaxUpsets = 1
INVARIANTS
    TypeOK
    ActiveExact
    OneOpenRun
PROPERTIES
    ImplementsDelivery
    RunsEnd
CHECK_DEADLOCK FALSE
