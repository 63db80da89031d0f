SPECIFICATION Spec
CONSTANTS
    a1 = a1
    a2 = a2
    a3 = a3
    k1 = k1
    k2 = k2
    NoLease = NoLease
    Keys = {k1}
    LimitKey <- MCLimitKey
    Sessions = {s1, s2}
    Addrs = {a1}
    Dests = {d1, d2}
    ByteSizes = {2, 3}
    Cfg <- WindowCfg
    GcInterval = 2
    GcRows = 3
    MaxTime = 4
INVARIANT AttemptVerdict
INVARIANT RatesWithinCaps
INVARIANT ByteVerdict
INVARIANT BytesWithinCap
PROPERTY Implements
