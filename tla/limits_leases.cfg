SPECIFICATION Spec
CONSTANTS
    a1 = a1
    a2 = a2
    a3 = a3
    k1 = k1
    k2 = k2
    NoLease = NoLease
    Keys = {k1, k2}
    LimitKey <- MCLimitKey
    Sessions = {s1, s2, s3, s4}
    Addrs = {a1, a2, a3}
    Dests = {d1, d2}
    ByteSizes = {1}
    Cfg <- LeaseCfg
    GcInterval = 2
    GcRows = 3
    MaxTime = 2
INVARIANT TypeOK
INVARIANT LeaseAccounting
INVARIANT LeaseVerdict
INVARIANT LeasesWithinCaps
INVARIANT GcExact
INVARIANT AttemptVerdict
SYMMETRY Symmetric
