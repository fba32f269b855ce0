\* Any client, any application.
SPECIFICATION Spec
CONSTANTS
    N = 3
    MaxData = 2
    MaxOut = 7
    Closing = {1}
    Refused = {3}
    WebSockets = {3}
    Upgrades = {3}
    Failing = {1}
    Early = TRUE
    Patience = "nothing"
    Zeros = TRUE
    Garbage = TRUE
INVARIANTS
    Sequential
    ResponsesInOrder
    CloseHonoured
    ReadyForNext
    NoErrorUnprovoked
PROPERTY ImplementsRequestBody
CHECK_DEADLOCK FALSE
