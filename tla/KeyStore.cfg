SPECIFICATION FairSpec
CONSTANTS
    k1 = k1
    k2 = k2
    a1 = a1
    a2 = a2
    s1 = s1
    s2 = s2
    Keys = {k1, k2}
    Dests = {a1, a2, s1, s2}
    DestsOf <- MCDestsOf
    KeyInfos = {i1, i2, i3}
    Buffers = {b1, b2}
    None = None
INVARIANTS NoPacketStranded MapsAgree KnownKeysReachable EntriesExpire
PROPERTIES ImplementsCache QuietDrains
