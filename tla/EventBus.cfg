SPECIFICATION Spec
CONSTANTS
    gauge = gauge
    state = state
    Capacity = 2
    Keys = {gauge, state}
    Replaceable = {gauge}
    Filters <- MCFilters
    Stoppers = {"t1"}
    SequenceModulus = 4
    MaxSubscribers = 2
    MaxDrops = 1
INVARIANTS
    Conservation
    AdmissionOrder
    NoEventIsMissed
    UnsubscribeSynchronises
PROPERTIES
    NoCallbackAfterUnsubscribe
CHECK_DEADLOCK FALSE
