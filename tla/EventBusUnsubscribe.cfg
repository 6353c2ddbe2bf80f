SPECIFICATION Spec
CONSTANTS
    gauge = gauge
    state = state
    Capacity = 1
    Keys = {gauge, state}
    Replaceable = {gauge}
    Filters <- MCAllEvents
    Stoppers = {"t1"}
    SequenceModulus = 4
    MaxSubscribers = 1
    MaxDrops = 0
INVARIANTS
    ExternalUnsubscribeWaits
CHECK_DEADLOCK FALSE
