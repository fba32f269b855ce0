\* Requests of up to 6 messages through a queue of 2.
SPECIFICATION FairSpec
CONSTANTS
    MaxSize = 2
    MaxPuts = 6
INVARIANTS
    NothingLost
    NoLostWakeup
PROPERTIES
    ImplementsRequestBody
    EventuallyDelivered
CHECK_DEADLOCK FALSE
