SPECIFICATION RateSpec
CONSTANTS
    plain = plain
    busy = busy
    free = free
    Streams <- MCStreams
    DefaultRps = 1
    DefaultBurst = 0
    Overrides <- MCOverrides
    One = 2
    MaxTime = 4
INVARIANTS
    WithinRate
    QuietPasses
    RateInv
