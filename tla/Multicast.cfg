SPECIFICATION MFairSpec
CONSTANTS
    eth = eth
    ws = ws
    Listeners = {ws, m1}
    ChanListeners = {ws}
    Local = {m1}
    Ifaces = {eth}
    Addrs = {a1}
    Rules <- MCRules
    Beacons <- MCBeacons
    Callers = {n1, n2}
    None = None
INVARIANTS MTypeOK OneAnnouncement NoStaleListener ShutdownClosesAll
PROPERTIES StopsInOrder StopEndsAll AnnouncesOn CallersReturn
CHECK_DEADLOCK FALSE
