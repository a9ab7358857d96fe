SPECIFICATION Spec
CONSTANTS
    DialInfos = {x}
    AcceptInfos = {x}
    SharedInfos = {x}
    RemoveInfos = {x}
    ProxyInfos = {}
    Dialers = {d1, d2}
    Accepts = {a1}
    BackoffLimit = 1
    None = None
SYMMETRY Symmetry
INVARIANT EntryOwned
CHECK_DEADLOCK FALSE
