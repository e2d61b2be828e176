SPECIFICATION AdmissionFairSpec
CONSTANTS
    h1 = h1
    h2 = h2
    h3 = h3
    h4 = h4
    ipA = ipA
    ipB = ipB
    Sockets <- MCSockets
    Ips <- MCIps
    Addr <- MCAddr
    MaxPerIp = 2
    MaxRev = 2
INVARIANTS
    SlotsExact
    WithinLimit
    NoIdleEntryLeft
    AdmissionInv
    PemCoversKey
PROPERTIES
    KeyReloaded
CHECK_DEADLOCK FALSE
