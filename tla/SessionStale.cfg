SPECIFICATION Spec
CONSTANTS
    Nodes = {root, relay, n1}
    Names = {a}
    NoNode = NoNode
    UserTypes = {}
    NoChannel = NoChannel
    MaxId = 5
    NoSub = NoSub
    MaxDepth = 2
    MaxPublishes = 2
    Root = root
    Relay = relay
    Heeded = {"ChildDisconnected", "Released"}
    MaxEntries = 1
    MaxListeners = 1
    HandlersThrow = FALSE
INVARIANT ReleasedHandlesInvalid
