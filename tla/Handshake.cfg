\* Both ends, and each end against something else.  A handshake ends, and a
\* connection may stay idle: the system really stops.
SPECIFICATION FairSpec
CONSTANTS
    None = None
    Configs <- MCConfigs
    Requests <- MCRequests
    Responses <- MCResponses
    MaxFrames = 2
INVARIANTS
    TypeOK
    SameAgreement
    NobodyOverruled
    CodersFollow
    CleanHandover
PROPERTIES
    HandshakesEnd
CHECK_DEADLOCK FALSE
