SPECIFICATION FairSpec
CONSTANTS
    MaxMsgs = 5
    MaxSessions = 3
    LiveCap = 2
    ReplayCap = 2
    MaxReplay = 2
INVARIANTS
    DeliveryInv
    NoGap
    ConfirmAfterReplay
PROPERTIES
    SubscribeAnswered
