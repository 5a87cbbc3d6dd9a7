SPECIFICATION ListenFairSpec
CONSTANTS
    r1 = r1
    Handlers <- Two
    Routes = {r1}
    RouteLimit = 1
    ErrLimit = 3
    FixLimit = 2
    Replaced = 1
    AcceptBase = 1
    MaxProbes = 1
    MaxEvents = 2
    None = None
INVARIANT ResetCostsOne
PROPERTIES AskedRestarts 
CHECK_DEADLOCK FALSE
