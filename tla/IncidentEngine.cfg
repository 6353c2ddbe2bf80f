SPECIFICATION MCSpec
CONSTANTS
    s1 = s1
    s2 = s2
    s3 = s3
    cookie = cookie
    NoCookie = NoCookie
    Netns = Netns
    Unknown = Unknown
    Sockets = {s3}
    Cookie <- MCCookie
    Generation <- MCGeneration
    Activation = 2
    Recovery = 2
    MaxEvidence = 2
    MaxTracked = 2
    MaxRecent = 1
    RttActivation = 3
    RttRecovery = 1
    RatioActivation = 3
    RatioRecovery = 1
    MinimumSegments = 2
    RttSamples = {}
    IntervalSamples <- MCIntervals
    RouteContexts <- MCContexts
    UplinkSamples <- MCUplinks
    MaxIncidents = 2
INVARIANTS
    EmissionsSuffice
    RecordsHaveLiveSockets
    RttVerdictIsPrompt
PROPERTIES
    DecidedByRuns
    OpeningEvidenceKept
