\* Two intervals are shorter than the timeout: watchdogs outlive later pings.
SPECIFICATION Spec
CONSTANT Timings <- OverlapTimings
PROPERTY ClosesOnlySilentPeers
CHECK_DEADLOCK FALSE
