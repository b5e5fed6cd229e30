\* Two requests without faults; three with timeouts and a server that goes away or
\* sends its next request early, so that a whole request is lost with a buffer.
SPECIFICATION FairSpec
CONSTANTS
    MaxRequests = 3
    Settings <- MCSettings
    RoomIn = 4
    RoomOut = 1
    BufLen = 4
INVARIANTS
    TypeOK
    ResponseWhole
PROPERTIES
    KeptWhenDrained
    ImplementsLog
    EveryRequestEnds
