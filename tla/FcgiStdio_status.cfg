\* Two requests, of which only the first sets a status.
CONSTANTS
    MaxRequests = 2
    Statuses = {1, 2}
SPECIFICATION Spec
INVARIANTS
    OwnStatus
