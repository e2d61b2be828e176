SPECIFICATION HistorySpec
CONSTANTS
    Conns = {c1}
    LiveCap = 1
    ReplayCap = 1
    Burst = 1
PROPERTIES
    GracefulClose
