\* Each of the three ways to start, with an application, connections, source
\* changes and signals at any time.
SPECIFICATION LaunchSpec
CONSTANTS
    Threads = {"listener"}
    MaxSignals = 2
    MaxConns = 1
    NumWorkers = 2
    MaxStarts = 4
    MaxRestarts = 2
    MaxChanges = 2
    MaxChildren = 3
    MaxAlarms = 2
INVARIANTS
    LifespanOrder
    CleanExit
    TableExact
PROPERTIES
    ShutdownHeard
    WorkersStop
    ChangeIsServed
    StopsWhenTold
CHECK_DEADLOCK FALSE
