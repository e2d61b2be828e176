SPECIFICATION Spec
CONSTANTS
    Conns = {c1, c2}
    Streams = {s1, s2}
    Fan = fan
    Cap = 1
SYMMETRY SymConns
INVARIANTS
    TypeOK
    DepartedUnrouted
    SubscribedIsRouted
    RoutedOnce
    ActiveExact
    NoEmptyStreamLeft
    EvictedIsTold
    RegistryInv
PROPERTIES
    ImplementsRouting
