SPECIFICATION FairSpec
CONSTANTS
    DialInfos = {x}
    AcceptInfos = {y}
    SharedInfos = {}
    RemoveInfos = {x}
    ProxyInfos = {x}
    Dialers = {d1, d2}
    Accepts = {a1}
    BackoffLimit = 2
    None = None
INVARIANTS DialerRegistered LiveConnTracked
PROPERTIES RemovedStaysDown  RedialsAfterDrop
CHECK_DEADLOCK FALSE
