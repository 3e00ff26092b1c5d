SPECIFICATION SpecWithHistory
CONSTANTS
    a = a
    b = b
    c = c
    x = x
    y = y
    Nodes = {a, b, c}
    Pointers = {}
    Names = {}
    NoNode = NoNode
    UserTypes = {"DataChannelChanged"}
    Channels = {x, y}
    NoChannel = NoChannel
    MaxId = 4
    NoSub = NoSub
    MaxDepth = 3
    MaxPublishes = 6
    Links <- MCLinks
    Heard <- MCHeard
    MaxNested = 2
PROPERTIES
    PropagationComplete
    CopiesReachTheLiving
