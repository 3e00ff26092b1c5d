SPECIFICATION FairSpec
CONSTANTS
    Conns = {c1}
    Domains = {d1}
    None = None
    MaxFrames = 3
PROPERTIES ClosedPeersDisconnect
CHECK_DEADLOCK FALSE
