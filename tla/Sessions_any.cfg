\* Two clients, three requests that overlap at will, either store.
SPECIFICATION Spec
CONSTANTS
    Clients = {alice, bob}
    MaxRequests = 3
    MaxKeys = 2
    MaxThaws = 1
    MaxRestarts = 1
INVARIANTS
    Isolation
PROPERTIES
    ReadYourWrites
CHECK_DEADLOCK FALSE
