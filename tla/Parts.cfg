\* Two threads in each of the three programs; vectors that begin with two slots, so
\* that they grow more than once; formats of up to three items; six descriptors and
\* a table that begins with room for one and grows to eight; a parent and two
\* children, which may spawn and connect themselves.
SPECIFICATION PartsSpec
CONSTANTS
    Threads = {"s", "t"}
    Stdio = {"s"}
    MallocFailures = 1
    MaxTables = 3
    MaxAccepts = 3
    Names = {name1, name2}
    RequestLength = 2
    ValuesLength = 2
    MaxPairs = 4
    MaxUnknown = 1
    Items <- MCItems
    MaxItems = 3
    InitialSize = 2
    MaxAsyncFd = 5
    MaxOps = 3
    MaxInits = 2
    Parent = "parent"
    Children = {"c1", "c2"}
    MaxFd = 3
    MaxSockets = 3
    MaxCloses = 1
INVARIANTS
    PartsTypeOK
    StartupSafe
    ParamsSafe
    PrintfSafe
    AsyncSafe
    ProcessesSafe
