SPECIFICATION FairSpec
CONSTANTS
    None = None
    Plain = Plain
    Lead = Lead
    Trail = Trail
    Junk = Junk
    Byte = {Plain, Lead, Trail, Junk}
    Unreadable = Unreadable
    DeflatedLen = 3
    ShortMax = 2
    TcpCap = 2
    ChanCap = 1
    MaxFrameSize = 2
    MaxMessageSize = 3
    ClientConfig <- Keeping
    ServerConfig <- Keeping
    Threshold = 1
    ClientMessages <- Pair
    ClientLargeCalls <- Nothing
    ClientUses = {"ping", "close"}
    ServerMessages <- Pair
    ServerLargeCalls <- Nothing
    ServerUses = {}
    ClientCalls = 2
    ServerCalls = 1
    Split = TRUE
INVARIANTS
    TypeOK
    NeverAccusePeer
PROPERTIES
    ToServerIsPipe
    ToClientIsPipe
    Arrives
    CallsReturn
    CloseEndsBoth
CHECK_DEADLOCK FALSE
