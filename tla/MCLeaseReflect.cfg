CONSTANTS
    s1 = s1
    s2 = s2
    c1 = c1
    c2 = c2
    Source = {s1, s2}
    Addr = {1, 2, 3}
    Served <- MCServed
    Hooked = {3}
    Client = {c1, c2}
    Ended = Ended
    NoLease = NoLease
    Hook = Hook
    People = People
    NoRecord = NoRecord
    Rid = {1, 2, 3, 4, 5, 6}
    FirstRecords <- MCFirstRecords
    FirstLeases <- MCFirstLeases
    PageLimit = 1
    ListLimit = 1
    MaxLeases = 2
    MaxFaults = 1

SPECIFICATION FairSpec

INVARIANTS
    TypeOK
    PeopleKept
    PassIsExact

PROPERTIES
    EventuallyReflected
