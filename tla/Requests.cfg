SPECIFICATION FairSpec
CONSTANTS
    Keys = {k1}
    Debug = {self, peers}
    NodeInfo = nodeinfo
    Handlers = {h1, h2}
    MaxMessages = 1
    None = None
INVARIANT ActorNeverBlocks
PROPERTIES NeverForgotten PendingEnds
