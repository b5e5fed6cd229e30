\* TCP with a server that is not allowed, no shutdown, more threads than descriptors.
CONSTANTS
    Threads = {t1, t2}
    Conns = {c1, c2, c3}
    Barred = {c3}
    Fds = {3}
    MaxUnread = 1
    Inet = TRUE
    FailOnIntr = FALSE
    Signals = {"other"}
SPECIFICATION FairSpec
INVARIANTS
    TypeOK
    OwnDescriptor
    NoLeak
PROPERTIES
    BacklogDrains
