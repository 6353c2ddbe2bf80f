SPECIFICATION MCSpec
CONSTANTS
    Tuples = {t1, t2, t3}
    Cookies = {1, 2}
    NoCookie = 0
    MaxActive = 3
    MaxClosed = 2
    MaxGeneration = 4
    Keys <- MCKeys
    MaxSeries = 2
    MaxSamples = 2
    MaxTotal = 3
    MaxResults = 1
    MaxAge = 1
    StaleAfter = 0
    MaxTime = 3
    MaxInserts = 6
    Rtts <- MCRtts
    Samples <- MCSamples
    Traffics <- MCTraffics
    InitialLists <- MCLists
    NoList = NoList
    NoBaseline = NoBaseline
    Apps = {a1, a2}
    Kinds = {quality, event}
    Quality = quality
    QueueLimit = 1
    MaxSignals = 2
    MaxClients = 2
INVARIANTS
    TableIsBounded
    StoreIsConsistent
PROPERTIES
    MonitorsKeepApart
    ClientsKnowQuality
    LostOnlyOnOverflow
    IdentitiesAreUnique
    CommitMirrorsDump
SYMMETRY MCSymmetry
