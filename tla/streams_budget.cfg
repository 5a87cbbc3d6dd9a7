SPECIFICATION Spec
CONSTANTS
    s1 = s1
    s2 = s2
    s3 = s3
    t1 = t1
    t2 = t2
    globalStreamLimit = 2
    maxConn = 1
    Streams <- ThreeStreams
    Tunnels <- TwoTunnels
    TunnelOf <- TwoOnT1
    HandshakeDeadline = 1
    IdleThreshold = 1
SYMMETRY SameTunnel
INVARIANTS
    GlobalCap
    DialledBounded
    CountersExact
    FinishedMeansClosed
    BusyIsNotIdle
PROPERTY
    BudgetSpec
