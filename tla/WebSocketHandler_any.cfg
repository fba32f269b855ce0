\* Either handler against any client and application, with and without the
\* heartbeat.
SPECIFICATION FairSpec
CONSTANTS
    Settings <- AnySettings
INVARIANTS
    EventsInOrder
    NothingAfterClose
    MessagesWhole
    SendsInOrder
    PeerGivenUp
PROPERTIES
    PeerKept
    LossNoticed
    CleanedUp
CHECK_DEADLOCK FALSE
