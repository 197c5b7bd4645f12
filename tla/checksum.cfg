SPECIFICATION FairSpec
CONSTANTS
    BASE = 8
    VERSION_IHL = 5
    TTL = 4
    UDP = 3
    Requests <- MCRequests
INVARIANTS
    ReceiverAccepts
    NeverUnchecked
    NothingLost
PROPERTY FoldingEnds
CHECK_DEADLOCK FALSE
