SPECIFICATION ConsumerFairSpec
CONSTANTS
    MaxAckPending = 2
    MaxInbox = 1
    MaxLog = 3
    MaxFaults = 1
INVARIANTS
    GapOnlyIfLost
    ConsumerInv
PROPERTIES
    ImplementsFeed
    EveryMessageHandled
CHECK_DEADLOCK FALSE
