SPECIFICATION FairSpec
CONSTANTS
    Radix = 8
    IPv4len = 1
    IPv6len = 2
    Lens = {1, 2, 3, 9}
    Payload = 3
    MaxFaults = 2
INVARIANTS
    Aligned
    StaysInTunnel
    OnlyIPv6Stalls
PROPERTY
    Answered
CHECK_DEADLOCK FALSE
