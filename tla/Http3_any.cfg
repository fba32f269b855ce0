\* A stream of each kind, any client and application, with trailers.
SPECIFICATION FairSpec
CONSTANTS
    MaxData = 3
    MaxTasks = 2
    MaxParts = 3
INVARIANTS
    WholeBody
    StreamInOrder
    RegistryExact
    AnsweredOnce
PROPERTY ReceiveEnds
CHECK_DEADLOCK FALSE
