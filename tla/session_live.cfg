SPECIFICATION FairSpec
CONSTANTS
    ProbeKinds = {"TlsSni"}
    Hellos = {"valid"}
    Streams <- AnyStream
    HelloLen = 1
    MaxHello = 3
    MaxGreeting = 4
    ReadMax = 2
    max_bytes_per_connection = 0
    max_lifetime = 2
    ws_idle_timeout = 1
    ws_write_timeout = 1
    tcp_write_timeout = 1
    tcp_connect_timeout = 1
    MaxUp = 2
    MsgSizes = {1}
    MaxQueue = 1
PROPERTY RelayEnds
PROPERTY ClosingEnds
CHECK_DEADLOCK FALSE
