SPECIFICATION MCSpec
CONSTANTS
    NumSockets = 3
    Tuple <- MCTuple
    Cookie <- MCCookie
    Inet6 = {1}
    Tuples = {"t4", "t6"}
    Cookies = {1, 2}
    NoCookie = 0
    MaxActive = 2
    MaxClosed = 2
    MaxGeneration = 3
    NoInfo = NoInfo
    MaxCount = 1
    MaxTopology = 2
    MaxFailures = 1
    Busy = {2, 3}
INVARIANTS
    ObservationsAreTrue
    IntervalsSpanOneSocket
PROPERTIES
    TableFollows
    RoutesCatchUp
CHECK_DEADLOCK FALSE
