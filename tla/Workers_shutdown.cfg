\* Two workers, one of which may be restarted once, and one signal.
SPECIFICATION Spec
CONSTANTS
    NumWorkers = 2
    MaxStarts = 3
    MaxSignals = 1
PROPERTIES
    GracefulShutdown
CHECK_DEADLOCK FALSE
