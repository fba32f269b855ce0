\* Two streams that compete for windows too small for both.
SPECIFICATION FairSpec
CONSTANTS
    a = a
    b = b
    Streams = {a, b}
    Stream1 = a
    InWindow = 2
    OutWindow = 2
    FrameSize = 1
    Sizes = {0, 1}
    MaxBody = 2
INVARIANTS
    RegistryExact
    CreditConserved
    UpgradeAnswered
PROPERTY EventuallyAnswered
CHECK_DEADLOCK FALSE
