\* A request longer than the queue.
SPECIFICATION Spec
CONSTANTS
    MaxSize = 2
    MaxPuts = 4
INVARIANT NoTruncation
CHECK_DEADLOCK FALSE
