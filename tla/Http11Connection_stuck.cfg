\* A client that waits for each response before its next request, and
\* applications that read the body before they answer.
SPECIFICATION FairSpec
CONSTANTS
    N = 2
    MaxData = 1
    MaxOut = 6
    Closing = {}
    Refused = {}
    WebSockets = {}
    Upgrades = {}
    Failing = {}
    Early = FALSE
    Patience = "response"
    Zeros = FALSE
    Garbage = FALSE
PROPERTY EventuallyAnswered
CHECK_DEADLOCK FALSE
