\* An AF_UNIX socket and a shutdown at any moment.
CONSTANTS
    Threads = {t1, t2}
    Conns = {c1, c2}
    Barred = {}
    Fds = {3, 4}
    MaxUnread = 1
    Inet = FALSE
    FailOnIntr = TRUE
    Signals = {"shutdown", "other"}
SPECIFICATION FairSpec
INVARIANTS
    AtMostOneLate
PROPERTIES
    LeavesAccept
