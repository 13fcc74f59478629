SPECIFICATION FairSpec
CONSTANTS
    None = None
    Plain = Plain
    Lead = Lead
    Trail = Trail
    Junk = Junk
    Byte = {Plain, Lead, Trail, Junk}
    Unreadable = Unreadable
    DeflatedLen = 3
    ShortMax = 2
    TcpCap = 1
    ChanCap = 1
    MaxFrameSize = 2
    MaxMessageSize = 3
    ClientConfig = None
    ServerConfig = None
    Threshold = 1
    ClientMessages <- Nothing
    ClientLargeCalls <- Nothing
    ClientUses = {"ping"}
    ServerMessages <- Nothing
    ServerLargeCalls <- Nothing
    ServerUses = {"ping"}
    ClientCalls = 3
    ServerCalls = 3
    Split = TRUE
PROPERTIES
    CallsReturn
CHECK_DEADLOCK FALSE
