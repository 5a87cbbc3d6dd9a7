SPECIFICATION FairSpec
CONSTANTS
    s1 = s1
    s2 = s2
    s3 = s3
    t1 = t1
    t2 = t2
    globalStreamLimit = 0
    maxConn = 1
    Streams <- TwoStreams
    Tunnels <- OneTunnel
    TunnelOf <- BothOnT1
    HandshakeDeadline = 1
    IdleThreshold = 2
PROPERTIES
    AcceptedResolves
    PipeJoins
