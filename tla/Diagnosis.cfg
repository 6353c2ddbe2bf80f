SPECIFICATION MCSpec
CONSTANTS
    Netns = Netns
    None = None
    NoTarget = None
    s1 = s1
    i1 = i1
    g1 = g1
    g2 = g2
    MaxEvidence = 8
    ProbeFreshness = 0
    WifiFreshness = 0
    WeakDbm <- MCWeakDbm
    VeryWeakDbm <- MCVeryWeakDbm
    WeakRecoverDbm <- MCWeakRecoverDbm
    VeryWeakRecoverDbm <- MCVeryWeakRecoverDbm
    Sockets <- MCSockets
    Interfaces <- MCInterfaces
    MaxActive = 2
    GatewayResults <- MCGatewayResults
    RemoteResults <- MCRemoteResults
    Capacity = 1
    MaxDrops = 1
    Subjects <- MCSubjects
    Topologies <- MCTopologies
    MaxIncidents = 2
    NoValue = None
    NoCount = None
    Socket = s1
    Contexts <- MCContexts
    ByteBits = 2
    Attributions <- MCAttributions
    Intervals <- MCIntervals
    CounterModulus = 4
INVARIANTS
    NoOrphan
    NoLeakedGateway
    RulesAreCautious
    BestRouteDecides
    NothingInvented
PROPERTIES
    StaleEvidenceRetired
