SPECIFICATION FairSpec
CONSTANTS
    c1 = c1
    c2 = c2
    c3 = c3
    h1 = h1
    h2 = h2
    Callers <- ThreeCallers
    Hosts <- TwoHosts
    ttl = 1
    max = 1
    MaxTime = 1
CHECK_DEADLOCK FALSE
INVARIANTS
    SingleFlight
    ServedIsFreshAndPositive
PROPERTIES
    EvictsOldest
    LookupReturns
