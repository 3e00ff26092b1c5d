SPECIFICATION SearchSpec
CONSTANTS
    Nodes = {n1, n2, n3, n4}
    Pointers = {p1, p2}
    Names = {a, b}
    NoNode = NoNode
CONSTRAINT WithinBounds
INVARIANTS
    IncomingAgrees
    EdgesJoinActive
    Acyclic
    PointersFollowActive
    AnswerIsReachability
PROPERTIES
    EdgesChangeLocally
    SearchEnds
