SPECIFICATION FairSpec
CONSTANTS
    DialInfos = {x}
    AcceptInfos = {}
    SharedInfos = {}
    RemoveInfos = {x}
    ProxyInfos = {}
    Dialers = {d1}
    Accepts = {}
    BackoffLimit = 1
    None = None
PROPERTY RemovedDisconnects
CHECK_DEADLOCK FALSE
