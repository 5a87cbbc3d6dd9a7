SPECIFICATION FairSpec
CONSTANTS
    i1 = i1
    i2 = i2
    i3 = i3
    zero = zero
    n1 = n1
    n2 = n2
    Names <- FourNames
    Wpad <- wpad
    Ips = {i1, i2, i3}
    Zero = zero
    ConfigIp = i3
    China = {i2}
    Net <- Nets
    PacFile <- LastFirst
    RuleFile <- OneRule
    CnOf <- CnAnswers
    RemoteOf <- RemoteAnswers
    Handlers = {1, 2}
    MaxEvents = 3
INVARIANTS MemoHarmless CoveredIsProxied HitsAnswer
PROPERTY Resolved
CHECK_DEADLOCK FALSE
