SPECIFICATION FairSpec
CONSTANTS
    c1 = c1
    c2 = c2
    Conns = {c1, c2}
    Sizes = {1, 3}
    Rooms = {2}
    NonceSize = 1
    Overhead = 2
    Radix = 4
    QueueCap = 1
    MaxBytes = 4
    None = None
INVARIANTS InOrder FailureIsShared
PROPERTY Arrives
CHECK_DEADLOCK FALSE
