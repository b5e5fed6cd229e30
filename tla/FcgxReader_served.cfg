\* Conforming servers, no fault, every interjection the library handles.
CONSTANTS
    Scripts <- ServedScripts
    HeaderLen = 2
    BeginLen = 2
    PairLen = 2
    BufLen = 4
    Faults = {}
    Drains = TRUE
    Pipelined = FALSE
SPECIFICATION FairSpec
INVARIANTS
    TypeOK
    StreamFidelity
    Framing
    Answered
PROPERTIES
    AllServed
