SPECIFICATION MFairSpec
CONSTANTS
    eth = eth
    ws = ws
    Listeners = {ws, m1, m2}
    ChanListeners = {ws}
    Local = {m1, m2}
    Ifaces = {eth}
    Addrs = {a1}
    Rules <- MCRules
    Beacons <- MCBeacons
    Callers = {n1}
    None = None
PROPERTY PeriodicallyExamines
CHECK_DEADLOCK FALSE
