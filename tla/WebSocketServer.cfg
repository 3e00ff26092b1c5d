SPECIFICATION FairSpec
CONSTANTS
    Conns = {c1, c2}
    Domains = {d1, d2}
    None = None
    MaxFrames = 2
INVARIANTS PeerUnshared PeersOwned FramesReachPeers
PROPERTIES SessionsEnd StopReturns
CHECK_DEADLOCK FALSE
