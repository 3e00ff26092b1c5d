SPECIFICATION Spec
CONSTANTS
    MaxRequests = 4
    MaxEvents = 3
INVARIANTS
    ClosedIsQuiet
PROPERTIES
    EventsReachHandlers
    PromisesSettle
CHECK_DEADLOCK FALSE
