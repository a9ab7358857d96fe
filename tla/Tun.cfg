SPECIFICATION FairSpec
CONSTANTS
    BatchSize = 2
    Bufs = {b1, b2, b3, b4}
    None = None
    MaxPackets = 3
    MaxReads = 1
INVARIANTS Intact BatchReady
PROPERTY NobodyStuck
CHECK_DEADLOCK FALSE
