SPECIFICATION Spec
CONSTANTS
    Byte = 4
    AddressBytes = 4
    SubnetBytes = 3
    Nodes = {A, B}
    Sizes = {0, 39, 40, 1280, 1281, 32767, 65535}
    MTUs = {0, 1280, 1281, 65535, 70000}
    ConnMTU = 32001
    PlatformMTU = 65535
    MaxPeers = 2
    MaxLatency = 5
    Microsecond = 2
    MaxRoutes = 2
    HalfWord = 8
    Costs = {0, 7}
    Priorities = {0, 1}
    Uptimes = {0, 2, 4}
    Latencies = {0, 1, 2}
    PeerKeys = {0, 1}
    Seeds = {k1, k2}
    Absent = Absent
INVARIANTS AddressesSound PacketsSound DoctorSound PeersSound IdentitySound
CHECK_DEADLOCK FALSE
