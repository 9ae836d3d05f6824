CONSTANTS
    z1 = z1
    z2 = z2
    z3 = z3
    Key = Key
    NoKey = NoKey
    ZoneOrder <- MCZoneOrder
    ReverseZone = {z3}
    PageSize = 1
    Boot = {z1}
    SyncAtStart = TRUE
    MaxToggles = 3
    MaxFaults = 2

SPECIFICATION FairSpec

\* The system stops when the bounded changes are used up.
CHECK_DEADLOCK FALSE

INVARIANTS
    TypeOK
    QuiescentExact
    KeyKeptUnlessEmptied

PROPERTIES
    Settles
