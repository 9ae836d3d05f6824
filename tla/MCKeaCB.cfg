CONSTANTS
    p1 = p1
    p2 = p2
    n1 = n1
    n2 = n2
    good = good
    i1 = i1
    i2 = i2
    r1 = r1
    m1 = m1
    m2 = m2
    a1 = a1
    a2 = a2
    NoId = NoId
    PrefixId = {p1, p2}
    Net = {n1, n2}
    Opt = {good}
    BadOpt = {}
    IpId = {i1, i2}
    RangeId = {r1}
    Mac = {m1, m2}
    Addr = {a1, a2}
    Point <- MCPoint
    IpUnique = TRUE
    StartDbs <- MCStartDbs
    StartHosts <- MCStartHosts
    MaxEdits = 3
    MaxFaults = 1

SPECIFICATION Spec

INVARIANTS
    TypeOK
    NothingDropped
    PushIsExact
    HandOver

PROPERTIES
    ForeignRowsKept
