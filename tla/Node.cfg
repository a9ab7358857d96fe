SPECIFICATION FairSpec
CONSTANTS
    Procs = {p1, p2}
    Clients = {c1}
    Requests <- MCRequests
    None = None
INVARIANTS Reachable Settled CodesAgree
PROPERTIES ClientServed
CHECK_DEADLOCK FALSE
