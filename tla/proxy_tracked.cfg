SPECIFICATION ServerSpec
CONSTANTS
    a1 = a1
    a2 = a2
    k1 = k1
    k2 = k2
    name = name
    literal = literal
    ip1 = ip1
    ip2 = ip2
    private = private
    NoLease = NoLease
    NoIP = NoIP
    NoRequest = NoRequest
    Sessions = {r1, r2}
    Addrs = {a1, a2}
    Keys = {k1, k2}
    LimitKey <- MCLimitKey
    Dests = {name, literal, private}
    IPs = {ip1, ip2}
    GlobalIPs = {ip1}
    LiteralOf <- MCLiteralOf
    PortAllowed = {name, literal, private}
    allow_private_destinations = FALSE
    allow_ip_literals = TRUE
    MaxAnswers = 2
    ByteSizes = {1}
    Cfg <- TrackedCfg
    GcInterval = 1
    GcRows = 3
    MaxTime = 1
INVARIANT TrackedWithinCap
CHECK_DEADLOCK FALSE
