\* Two requests of standard I/O; three Perl requests, of which two share their
\* handles; two calls on a tied handle, with an int of four bits and a STRLEN of
\* five; up to four characters through a stream buffer of two, or of none.
SPECIFICATION LayersSpec
CONSTANTS
    MaxRequests = 2
    Statuses = {1, 2}
    Requests = {r1, r2, r3}
    Handles = {h1, h2}
    gv <- SharedHandles
    NoOne = NoOne
    MaxAccepts = 2
    IntMax = 7
    SizeMax = 31
    MaxStrings = 7
    MaxCalls = 2
    InputLength = 3
    BufSize = 2
    MaxChars = 4
    Streams = {s1, s2}
    Retries = FALSE
    r1 = r1
    r2 = r2
    r3 = r3
    h1 = h1
    h2 = h2
    s1 = s1
INVARIANTS
    LayersTypeOK
    LiveStreams
    RequestsServed
    HandlesLive
    RequestsReleased
    CharactersKept
