CONSTANTS
    TcpSocket = {s1}
    TCP_PORTS = 1
    SEQ = 4
    MAX_DATA = 2
    MAX_SENT = 3
    MAX_CALLS = 1
    MAX_FAULTS = 1
SPECIFICATION TcpSpec
INVARIANTS StreamWellFormed  
PROPERTY ConnectEnds
CHECK_DEADLOCK FALSE
