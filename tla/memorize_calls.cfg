SPECIFICATION Spec
CONSTANTS
    alice = alice
    bot = bot
    Messages = {1, 2}
    Senders = {alice, bot}
    Users = {alice}
    Sender <- MCSender
    ToolRows = {2}
    MaxCalls = 3
    MaxWaiting = 1
INVARIANTS
    TypeOK
    NothingLost
    KeptInv
    DuplicatesExplained
    ExtractedMeansWritten
    FlushCarves
CHECK_DEADLOCK FALSE
