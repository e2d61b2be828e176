SPECIFICATION FairSpec
CONSTANTS
    Conns = {c1, c2}
    Streams = {s1}
    Fan = fan
    Cap = 1
PROPERTIES
    EvictedLeaves
