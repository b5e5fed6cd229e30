\* TCP, a server that is not allowed and a shutdown.
CONSTANTS
    Threads = {t1, t2}
    Conns = {c1, c2, c3}
    Barred = {c3}
    Fds = {3, 4}
    MaxUnread = 1
    Inet = TRUE
    FailOnIntr = FALSE
    Signals = {"shutdown"}
SPECIFICATION Spec
INVARIANTS
    OwnDescriptor
