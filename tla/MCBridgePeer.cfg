SPECIFICATION Spec
CONSTANTS
    Root = root
    Objects = {root, o1, o2}
    Types = {"DataChannelChanged"}
    None = None
    MaxSubscriptions = 2
    MaxRequests = 5
    MaxDepth = 2
SYMMETRY Symmetry
INVARIANTS EachAnsweredOnce TellsReleased SubscriptionsAgree
PROPERTIES EventsMatchSubscriptions
