SPECIFICATION MCSpec
CONSTANTS
    a = a
    b = b
    l = l
    w = w
    p = p
    q = q
    c1 = c1
    c2 = c2
    Nodes = {a, b, l, w}
    Legacy = {l}
    Conns = {c1, c2}
    Relayed = {c2}
    Options <- MCOptions
    Allowed <- MCAllowed
    Version <- MCVersion
    Passwords = {p, q}
    None = None
CONSTRAINT MCScope
INVARIANTS NoMutualWait NoResidue FollowsConfiguration Agreement NotReplayed
CHECK_DEADLOCK FALSE
