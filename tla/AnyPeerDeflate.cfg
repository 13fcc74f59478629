SPECIFICATION Spec
CONSTANTS
    None = None
    Plain = Plain
    Lead = Lead
    Trail = Trail
    Junk = Junk
    Byte = {Plain, Lead, Trail, Junk}
    Unreadable = Unreadable
    DeflatedLen = 2
    ShortMax = 2
    TcpCap = 2
    ChanCap = 1
    MaxFrameSize = 2
    MaxMessageSize = 3
    Deflate = TRUE
    ResetsDecoder = FALSE
    ResetsEncoder = FALSE
    Threshold = 1
    Messages <- NoMessages
    LargeCalls <- NoMessages
    Uses = {"ping", "close"}
    MaxCalls = 0
    Split = TRUE
    RawFrames <- DeflateFrames
    MaxWritten = 4
INVARIANTS
    DeliversWhatWasRead
    BlamesOnlyNonsense
CHECK_DEADLOCK FALSE
