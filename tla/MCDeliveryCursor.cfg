SPECIFICATION Spec
CONSTANTS
    MaxMsgs = 4
    MaxSessions = 2
    LiveCap = 2
    ReplayCap = 1
    MaxReplay = 2
INVARIANTS
    CursorIsComplete
