SPECIFICATION PresenceSpec
CONSTANTS
    c1 = c1
    c2 = c2
    c3 = c3
    n1 = n1
    n2 = n2
    Conns <- MCConns
    Nodes <- MCNodes
    NodeOf <- MCNodeOf
    Ttl = 3
    Interval = 2
    MaxFaults = 2
INVARIANTS
    PresenceInv
    AbsenceHeals
    GhostExpires
PROPERTIES
    NoLapse
