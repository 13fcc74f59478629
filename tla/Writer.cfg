\* The tasks may have nothing more to write: the system really stops.
SPECIFICATION Spec
CONSTANTS
    TcpCap = 2
    TlsCap = 2
    MaxFrames = 2
    MaxSize = 2
PROPERTIES
    FramesStayWhole
    FramesArrive
CHECK_DEADLOCK FALSE
