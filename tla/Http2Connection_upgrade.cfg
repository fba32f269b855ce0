\* The upgraded request alone, with all the credit its answer needs.
SPECIFICATION Spec
CONSTANTS
    a = a
    b = b
    Streams = {a}
    Stream1 = a
    InWindow = 2
    OutWindow = 2
    FrameSize = 1
    Sizes = {0, 1}
    MaxBody = 2
INVARIANT UpgradeHandled
CHECK_DEADLOCK FALSE
