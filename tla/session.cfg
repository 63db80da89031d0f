SPECIFICATION Spec
CONSTANTS
    ProbeKinds = {"None", "TlsSni", "Greeting"}
    Hellos = {"valid", "long", "not_tls", "refused"}
    Streams <- Greetings
    HelloLen = 2
    MaxHello = 2
    MaxGreeting = 4
    ReadMax = 2
    max_bytes_per_connection = 3
    max_lifetime = 2
    ws_idle_timeout = 1
    ws_write_timeout = 1
    tcp_write_timeout = 1
    tcp_connect_timeout = 1
    MaxUp = 4
    MsgSizes = {0, 1, 2}
    MaxQueue = 2
INVARIANT TypeOK
INVARIANT BytesInOrder
INVARIANT HeardOut
INVARIANT RelayWithinCap
INVARIANT RelayWithinLifetime
INVARIANT ProperDisconnect
INVARIANT GreetingVerdict
INVARIANT HelloVerdict
CHECK_DEADLOCK FALSE
