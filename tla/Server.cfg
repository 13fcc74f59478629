\* All connections may have come and gone: the system really stops.
SPECIFICATION FairSpec
CONSTANTS
    EventCap = 2
    MaxClients = 2
    MaxFailures = 1
    MaxMessages = 2
INVARIANTS
    TypeOK
PROPERTIES
    FeedIsOrderly
    EveryoneServed
    TasksTellAll
CHECK_DEADLOCK FALSE
