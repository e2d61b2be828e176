SPECIFICATION FairSpec
CONSTANTS
    Conns = {c1}
    LiveCap = 1
    ReplayCap = 1
    Burst = 2
INVARIANTS
    TypeOK
    DrainedBeforeClose
    NoSpuriousEviction
    LifecycleInv
PROPERTIES
    DrainEnds
    ShutdownReachesAll
    PeerGoneFreesSlot
    OutboundGoneIsNoticed
    EvictionCloses
