CONSTANTS
    p1 = p1
    p2 = p2
    p3 = p3
    n1 = n1
    n2 = n2
    n3 = n3
    good = good
    bad = bad
    i1 = i1
    i2 = i2
    i3 = i3
    i4 = i4
    r1 = r1
    r2 = r2
    m1 = m1
    m2 = m2
    a1 = a1
    a2 = a2
    b1 = b1
    b2 = b2
    NoId = NoId
    NoMac = NoMac
    NoBackend = NoBackend
    NoPrefix = NoPrefix
    PrefixId = {p1, p2, p3}
    Net = {n1, n2, n3}
    Opt = {good, bad}
    BadOpt = {bad}
    IpId = {i1, i2, i3, i4}
    RangeId = {r1, r2}
    Mac = {m1, m2}
    Addr = {a1, a2}
    Point <- MCPoint
    IpUnique = TRUE
    Backend = {b1, b2}
    BackendOrder <- MCBackendOrder
    NetBoxes <- MCNetBoxes
    LiveConfs <- MCLiveConfs
    MaxLost = 3

SPECIFICATION FairSpec

\* sync_all ends: the event loop and a dead process are outside this module.
CHECK_DEADLOCK FALSE

INVARIANTS
    TypeOK
    PushJustified
    SucceededIsWhole
    OnlyFaultyFails
    FailedStaysOut
    CleanPushIsExact
    NothingStaged

PROPERTIES
    Terminates
