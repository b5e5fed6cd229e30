\* Timeouts, interrupted reads, failing writes, a server that goes away at any
\* byte or pipelines; the application may stop reading early.
CONSTANTS
    Scripts <- FaultScripts
    HeaderLen = 2
    BeginLen = 2
    PairLen = 2
    BufLen = 3
    Faults = {"timeout","eintr","werr","eof","seq"}
    Drains = FALSE
    Pipelined = TRUE
SPECIFICATION LibrarySpec
INVARIANTS
    StreamFidelity
    TruncationReported
    StreamsInSequence
PROPERTIES
    FillReturns
