SPECIFICATION FairSpec
CONSTANTS
    gauge = gauge
    state = state
    Capacity = 1
    Keys = {gauge, state}
    Replaceable = {gauge}
    Filters <- MCAllEvents
    Stoppers = {"t1", "t2"}
    SequenceModulus = 4
    MaxSubscribers = 1
    MaxDrops = 0
PROPERTIES
    StopReturns
    UnsubscribeReturns
    AcceptedIsHandled
    ChannelSpec
CHECK_DEADLOCK FALSE
