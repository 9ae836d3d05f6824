CONSTANTS
    p1 = p1
    p2 = p2
    outer = outer
    inner = inner
    good = good
    bad = bad
    i1 = i1
    i2 = i2
    r1 = r1
    m1 = m1
    m2 = m2
    a1 = a1
    a2 = a2
    a3 = a3
    b1 = b1
    b2 = b2
    f1 = f1
    NoId = NoId
    NoMac = NoMac
    NoBackend = NoBackend
    NoItem = NoItem
    PrefixId = {p1, p2}
    Net = {outer, inner}
    Opt = {good, bad}
    BadOpt = {bad}
    IpId = {i1, i2}
    RangeId = {r1}
    Mac = {m1, m2}
    Addr = {a1, a2, a3}
    Point <- MCPoint
    IpUnique = TRUE
    Backend = {b1, b2}
    BackendOrder <- MCBackendOrder
    Iface = {f1}
    AddrIn <- MCAddrIn
    PointIn <- MCPointIn
    PageSize = 1
    Rank <- MCRank
    NetBoxes <- MCNetBoxes
    PrefixMayBe <- MCPrefixMayBe
    IpMayBe <- MCIpMayBe
    RangeMayBe <- MCRangeMayBe
    MacMayBe <- MCMacMayBe
    MaxChanges = 3
    MaxFaults = 1

SPECIFICATION FairSpec

\* NetBox may stop changing, and then nothing happens any more.
CHECK_DEADLOCK FALSE

INVARIANTS
    TypeOK
    NoSilentDivergence
    FocusedPush

PROPERTIES
    Settles
