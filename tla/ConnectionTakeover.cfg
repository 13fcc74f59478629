SPECIFICATION Spec
CONSTANTS
    None = None
    Plain = Plain
    Lead = Lead
    Trail = Trail
    Junk = Junk
    Byte = {Plain, Lead, Trail, Junk}
    Unreadable = Unreadable
    DeflatedLen = 3
    ShortMax = 2
    TcpCap = 1
    ChanCap = 1
    MaxFrameSize = 2
    MaxMessageSize = 3
    ClientConfig <- GivingUpClient
    ServerConfig <- GivingUpClient
    Threshold = 1
    ClientMessages <- Pair
    ClientLargeCalls <- Nothing
    ClientUses = {}
    ServerMessages <- Short
    ServerLargeCalls <- Nothing
    ServerUses = {}
    ClientCalls = 2
    ServerCalls = 2
    Split = TRUE
INVARIANTS
    NeverAccusePeer
CHECK_DEADLOCK FALSE
