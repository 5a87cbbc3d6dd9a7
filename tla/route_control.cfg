SPECIFICATION FairSpec
CONSTANTS
    h1 = h1
    h2 = h2
    Hosts = {h1, h2}
    Handlers = {1, 2}
    Pids = {1, 2, 3, 4}
    Ctls = {1, 2, 3}
    Goods <- OneGood
    Lists <- ShortLists
    MaxEvents = 3
    None = None
INVARIANTS RouteIsCurrent  SavedAgrees NextVisitsAll
PROPERTY Served
CHECK_DEADLOCK FALSE
