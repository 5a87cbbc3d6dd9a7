SPECIFICATION RouterFairSpec
CONSTANTS
    g1 = g1
    g2 = g2
    r1 = r1
    r2 = r2
    Hosts = {g1}
    Handlers = {r1, r2}
    Requests = {"login", "toggle", "start", "stop", "check"}
    MaxEvents = 3
    NoRules = NoRules
INVARIANT AloneIsDecisive
PROPERTY Healed
CHECK_DEADLOCK FALSE
