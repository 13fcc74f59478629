SPECIFICATION FairSpec
CONSTANTS
    None = None
    Plain = Plain
    Lead = Lead
    Trail = Trail
    Junk = Junk
    Byte = {Plain, Lead, Trail, Junk}
    Unreadable = Unreadable
    DeflatedLen = 2
    ShortMax = 2
    TcpCap = 1
    ChanCap = 1
    MaxFrameSize = 2
    MaxMessageSize = 3
    Deflate = FALSE
    ResetsDecoder = FALSE
    ResetsEncoder = FALSE
    Threshold = 1
    Messages <- UserMessages
    LargeCalls <- UserLarge
    Uses = {"close"}
    MaxCalls = 2
    Split = TRUE
    RawFrames <- PingFrames
    MaxWritten = 2
INVARIANTS
    PongsAnswerPings
    SendsWhatWasAsked
PROPERTIES
    UserLearnsOfLeave
    PingsGetAnswered
    CallsReturn
CHECK_DEADLOCK FALSE
