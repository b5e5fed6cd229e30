\* An empty record of another request.
CONSTANTS
    Scripts <- EmptyForeign
    HeaderLen = 2
    BeginLen = 2
    PairLen = 2
    BufLen = 4
    Faults = {}
    Drains = TRUE
    Pipelined = FALSE
SPECIFICATION Spec
INVARIANTS
    EndIsComplete
