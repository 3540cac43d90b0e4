SPECIFICATION FairSpec
CONSTANTS
    Worker = {w1, w2}
    Map = {m1, m2, i1}
    Continent = {m1, m2}
    Transport = {t1, t2}
    MaxTicks = 2
    None = None
INVARIANTS
    TypeOK
    NoLostWakeup
    TransportOwned
    AllAdvanced
PROPERTIES
    ImplementsMapTick
    UpdateEnds
