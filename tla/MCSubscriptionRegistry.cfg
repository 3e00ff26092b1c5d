SPECIFICATION Spec
CONSTANTS
    Nodes = {n1, n2}
    EventTypes = {t1, t2}
    Channels = {c1, c2}
    MaxId = 3
    NoSub = NoSub
SYMMETRY Symmetry
INVARIANTS
    IndexesAgree
    IdsNotShared
    SubscriptionsJoinAlive
PROPERTIES
    SubscriptionsEndLocally
