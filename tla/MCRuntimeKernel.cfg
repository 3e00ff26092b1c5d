SPECIFICATION FairSpec
CONSTANTS
    Nodes = {n1, n2}
    Pointers = {p1}
    Names = {a}
    NoNode = NoNode
    UserTypes = {"DataChannelChanged"}
    Channels = {x}
    NoChannel = NoChannel
    MaxId = 3
    NoSub = NoSub
    MaxDepth = 2
    MaxPublishes = 2
CONSTRAINTS PointersOutside ChangesOwned
INVARIANTS
    ReleaseInProgress
    SnapshotsNameOwn
    ReleasedBelongsToRelease
PROPERTIES
    HandlersHearTheLiving
    ImplementsTopology
    ImplementsRegistry
    CallsReturn
