SPECIFICATION Spec
CONSTANTS
    DialInfos = {}
    AcceptInfos = {y}
    SharedInfos = {y}
    RemoveInfos = {}
    ProxyInfos = {}
    Dialers = {}
    Accepts = {a1, a2, a3}
    BackoffLimit = 1
    None = None
INVARIANT NoDuplicatePeering
CHECK_DEADLOCK FALSE
