\* Every order of calls, on both writers of a request or on a lone one; write(2) may
\* fail part of the way.
CONSTANTS
    Asked = {33}
    PutSizes = {3, 21}
    MaxPuts = 2
    MaxAnswers = 1
    CutAt = {5}
    KeepConn = TRUE
SPECIFICATION FairSpec
INVARIANTS
    TypeOK
    PaddingFits
    WireFidelity
    EndOnce
    TornWireCloses
PROPERTIES
    ImplementsResponse
    SilentAfterError
    FinishReturns
