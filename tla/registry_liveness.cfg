SPECIFICATION FairSpec
CONSTANTS
    Requests <- Two
    Kinds <- AllKinds
    Types = {"ss", "quic"}
    Ports = {1}
    MaxTunnels = 1
    Passes = 1
INVARIANTS
    NoMissedClose
    
PROPERTIES
    
    ListedResolves
CHECK_DEADLOCK FALSE
