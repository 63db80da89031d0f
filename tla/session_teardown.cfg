SPECIFICATION FairSpec
CONSTANTS
    ProbeKinds = {"None"}
    Hellos = {"valid"}
    Streams <- AnyStream
    HelloLen = 2
    MaxHello = 3
    MaxGreeting = 4
    ReadMax = 2
    max_bytes_per_connection = 3
    max_lifetime = 2
    ws_idle_timeout = 1
    ws_write_timeout = 1
    tcp_write_timeout = 1
    tcp_connect_timeout = 1
    MaxUp = 0
    MsgSizes = {0, 1, 2}
    MaxQueue = 1
PROPERTY AlwaysTornDown
CHECK_DEADLOCK FALSE
