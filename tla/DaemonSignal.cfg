SPECIFICATION MCSpec
CONSTANTS
    Workers = {w1}
    MaxCommits = 1
    Calls = {c1, c2, c3}
    PingCapacity = 1
    Netns = Netns
    None = None
    NoInterface = None
    s1 = s1
    i1 = i1
    i2 = i2
    MaxEvidence = 8
    ProbeFreshness = 0
    WifiFreshness = 0
    WeakDbm <- MCWeakDbm
    VeryWeakDbm <- MCVeryWeakDbm
    WeakRecoverDbm <- MCWeakRecoverDbm
    VeryWeakRecoverDbm <- MCVeryWeakRecoverDbm
    Sockets <- MCSockets
    Interfaces <- MCInterfaces
    MaxActive = 3
    Answers <- MCAnswers
    MaxLate = 1
    Capacity = 1
    MaxDrops = 1
    MaxGeneration = 2
INVARIANT SignalUsesLiveManager
