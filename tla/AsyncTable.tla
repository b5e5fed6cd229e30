------------------------------ MODULE AsyncTable ------------------------------
(***************************************************************************)
(* The table of asynchronous reads and writes of os_unix.c: two entries    *)
(* for a descriptor, the sets of descriptors to wait for, and maxFd.  The  *)
(* table grows when an operation is begun; OS_Close and OS_CloseRead look  *)
(* an entry up as it is.  Nothing in the library completes an operation.   *)
(***************************************************************************)
EXTENDS Integers

CONSTANTS
    InitialSize,    \* of asyncIoTable, 16 in the code
    MaxAsyncFd,     \* bound: the highest descriptor
    MaxOps,         \* bound: operations begun
    MaxInits        \* bound: calls of OS_LibInit that allocate the table

ASSUME AsyncTableAssumption ==
    /\ {InitialSize, MaxAsyncFd, MaxOps, MaxInits} \subseteq Nat
    /\ InitialSize >= 2

AsyncFds == 0..MaxAsyncFd
Directions == {"read", "write"}
STDIN_FILENO == 0

AIO_IX(dir, fd) == IF dir = "read" THEN fd * 2 ELSE fd * 2 + 1

Entries == [inUse : BOOLEAN, fd : AsyncFds, op : 0..MaxOps]
Zero == [inUse |-> FALSE, fd |-> 0, op |-> 0]

VARIABLES
    initialized,        \* libInitialized of os_unix.c
    asyncIoInUse,
    asyncIoTableSize,
    asyncIoTable,       \* its entries; none while it is NULL
    fdSet,              \* readFdSet and writeFdSet
    maxFd,
    call,               \* the operation being begun, or NoCall
    ops, inits,
    pending,            \* the operation begun and not given up, 0 for none
    fault               \* an entry was looked up that is not there

table == <<asyncIoTableSize, asyncIoTable>>
asyncVars == <<initialized, asyncIoInUse, table, fdSet, maxFd, call, ops, inits, pending, fault>>

NoCall == [dir |-> "none", fd |-> 0]
Calls == [dir : Directions, fd : AsyncFds]
NoneBegun == call = NoCall /\ ~fault

\* memset(asyncIoTable, 0, ...)
Zeroed(n) == [i \in 0..(n - 1) |-> Zero]
InTable(i) == i \in DOMAIN asyncIoTable
NoOps == [d \in Directions |-> [fd \in AsyncFds |-> 0]]

-----------------------------------------------------------------------------

\* OS_LibInit; or malloc fails and nothing is done.  The size is that of a table
\* before, asyncIoInUse and maxFd keep their values.
TableInit ==
    /\ NoneBegun /\ ~initialized /\ inits < MaxInits
    /\ inits' = inits + 1
    /\ \/ /\ asyncIoTable' = Zeroed(asyncIoTableSize)
          /\ fdSet' = [d \in Directions |-> {}]
          /\ initialized' = TRUE
       \/ UNCHANGED <<asyncIoTable, fdSet, initialized>>
    /\ UNCHANGED <<asyncIoInUse, asyncIoTableSize, maxFd, call, ops, pending, fault>>

\* OS_LibShutdown: what was begun is given up with the table.
TableShutdown ==
    /\ NoneBegun /\ initialized
    /\ asyncIoTable' = Zeroed(0)
    /\ initialized' = FALSE
    /\ pending' = NoOps
    /\ UNCHANGED <<asyncIoInUse, asyncIoTableSize, fdSet, maxFd, call, ops, inits, fault>>

\* Mutant of Begin: maxFd follows the last descriptor.
LastBegin(dir, fd) ==
    /\ NoneBegun /\ initialized /\ ops < MaxOps
    /\ pending[dir][fd] = 0
    /\ asyncIoInUse' = TRUE
    /\ maxFd' = fd
    /\ ops' = ops + 1
    /\ call' = [dir |-> dir, fd |-> fd]
    /\ UNCHANGED <<initialized, table, fdSet, inits, pending, fault>>

\* OS_AsyncRead, OS_AsyncReadStdin, OS_AsyncWrite: begun once the library is
\* initialised, and for a descriptor whose last operation is over.
Begin(dir, fd) ==
    /\ NoneBegun /\ initialized /\ ops < MaxOps
    /\ pending[dir][fd] = 0
    /\ asyncIoInUse' = TRUE
    /\ maxFd' = IF fd > maxFd THEN fd ELSE maxFd
    /\ ops' = ops + 1
    /\ call' = [dir |-> dir, fd |-> fd]
    /\ UNCHANGED <<initialized, table, fdSet, inits, pending, fault>>

\* Mutant of GrowAsyncTable: the memset begins at the start of the table.
ZeroingGrow ==
    /\ call # NoCall
    /\ ~InTable(AIO_IX(call.dir, call.fd))
    /\ asyncIoTableSize' = asyncIoTableSize * 2
    /\ asyncIoTable' = Zeroed(asyncIoTableSize')
    /\ UNCHANGED <<initialized, asyncIoInUse, fdSet, maxFd, call, ops, inits, pending, fault>>

\* Mutant of GrowAsyncTable: realloc is given the old size.
ShortGrow ==
    /\ call # NoCall
    /\ ~InTable(AIO_IX(call.dir, call.fd))
    /\ asyncIoTableSize' = asyncIoTableSize * 2
    /\ asyncIoTableSize <= 2 * MaxAsyncFd
    /\ UNCHANGED <<asyncIoTable, initialized, asyncIoInUse, fdSet, maxFd, call, ops, inits,
                   pending, fault>>

\* The loop of the callers goes on until the index is in the table.  When realloc
\* fails the process exits.
GrowAsyncTable ==
    /\ call # NoCall
    /\ ~InTable(AIO_IX(call.dir, call.fd))
    /\ asyncIoTableSize' = asyncIoTableSize * 2
    /\ asyncIoTable' = [i \in 0..(asyncIoTableSize' - 1) |->
                           IF i < asyncIoTableSize THEN asyncIoTable[i] ELSE Zero]
    /\ UNCHANGED <<initialized, asyncIoInUse, fdSet, maxFd, call, ops, inits, pending, fault>>

\* The entry is filled in and the descriptor waited for.
Enter ==
    LET i == AIO_IX(call.dir, call.fd) IN
    /\ call # NoCall
    /\ InTable(i)
    /\ asyncIoTable' = [asyncIoTable EXCEPT ![i] = [inUse |-> TRUE, fd |-> call.fd, op |-> ops]]
    /\ fdSet' = [fdSet EXCEPT ![call.dir] = @ \cup {call.fd}]
    /\ pending' = [pending EXCEPT ![call.dir][call.fd] = ops]
    /\ call' = NoCall
    /\ UNCHANGED <<initialized, asyncIoInUse, asyncIoTableSize, maxFd, ops, inits, fault>>

\* Mutant of Cleared: the index of the write entry is that of the read entry.
ReadCleared(fd) == [i \in DOMAIN asyncIoTable |->
    IF i = AIO_IX("read", fd) THEN [asyncIoTable[i] EXCEPT !.inUse = FALSE] ELSE asyncIoTable[i]]

Cleared(fd) == [i \in DOMAIN asyncIoTable |->
    IF i \in {AIO_IX("read", fd), AIO_IX("write", fd)}
    THEN [asyncIoTable[i] EXCEPT !.inUse = FALSE] ELSE asyncIoTable[i]]

\* OS_Close, where asyncIoInUse; without, it does not look at the table.  The
\* library closes any descriptor; an entry that is not there is read and written
\* beyond the table, and nothing is known from then on.
Close(fd) ==
    /\ NoneBegun /\ asyncIoInUse
    /\ IF InTable(AIO_IX("write", fd))
       THEN /\ asyncIoTable' = Cleared(fd)
            /\ fdSet' = [d \in Directions |-> fdSet[d] \ {fd}]
            /\ maxFd' = IF maxFd = fd THEN maxFd - 1 ELSE maxFd
            /\ pending' = [d \in Directions |-> [pending[d] EXCEPT ![fd] = 0]]
            /\ UNCHANGED fault
       ELSE fault' = TRUE /\ UNCHANGED <<asyncIoTable, fdSet, maxFd, pending>>
    /\ UNCHANGED <<initialized, asyncIoInUse, asyncIoTableSize, call, ops, inits>>

\* OS_CloseRead, with a read to cancel, or with an entry that is not there.
CloseRead(fd) ==
    LET i == AIO_IX("read", fd) IN
    /\ NoneBegun /\ initialized
    /\ \/ /\ InTable(i) /\ asyncIoTable[i].inUse
          /\ asyncIoTable' = [asyncIoTable EXCEPT ![i].inUse = FALSE]
          /\ fdSet' = [fdSet EXCEPT !["read"] = @ \ {fd}]
          /\ pending' = [pending EXCEPT !["read"][fd] = 0]
          /\ UNCHANGED fault
       \/ /\ ~InTable(i)
          /\ fault' = TRUE /\ UNCHANGED <<asyncIoTable, fdSet, pending>>
    /\ UNCHANGED <<initialized, asyncIoInUse, asyncIoTableSize, maxFd, call, ops, inits>>

\* The application makes no call.
Rest == call = NoCall /\ UNCHANGED asyncVars

-----------------------------------------------------------------------------

AsyncInit ==
    /\ initialized = FALSE /\ asyncIoInUse = FALSE
    /\ asyncIoTableSize = InitialSize /\ asyncIoTable = Zeroed(0)
    /\ fdSet = [d \in Directions |-> {}]
    /\ maxFd = -1 /\ call = NoCall /\ ops = 0 /\ inits = 0
    /\ pending = NoOps /\ fault = FALSE

AsyncNext ==
    \/ TableInit \/ TableShutdown \/ GrowAsyncTable \/ Enter \/ Rest
    \/ \E fd \in AsyncFds : \/ Close(fd) \/ CloseRead(fd)
                            \/ \E dir \in Directions : Begin(dir, fd)

AsyncSpec == AsyncInit /\ [][AsyncNext]_asyncVars

-----------------------------------------------------------------------------
(* Properties.                                                             *)

AsyncTypeOK ==
    /\ {initialized, asyncIoInUse, fault} \subseteq BOOLEAN
    /\ asyncIoTableSize \in Nat \ {0, 1}
    /\ asyncIoTable \in [0..(IF initialized THEN asyncIoTableSize - 1 ELSE -1) -> Entries]
    /\ fdSet \in [Directions -> SUBSET AsyncFds]
    /\ maxFd \in -1..MaxAsyncFd
    /\ call \in Calls \cup {NoCall}
    /\ ops \in 0..MaxOps /\ inits \in 0..MaxInits
    /\ pending \in [Directions -> [AsyncFds -> 0..MaxOps]]

\* An operation that was begun is in the table, with its descriptor, until its
\* descriptor is closed: growing moves none, and closing another ends none.
PendingKept == ~fault => \A d \in Directions, fd \in AsyncFds : pending[d][fd] # 0 =>
    /\ InTable(AIO_IX(d, fd))
    /\ asyncIoTable[AIO_IX(d, fd)] = [inUse |-> TRUE, fd |-> fd, op |-> pending[d][fd]]

\* What is waited for is what was begun: no descriptor that was closed, whose
\* number may be that of another file by now, stays in the sets or in the table.
SetsAgree == initialized => \A d \in Directions, fd \in AsyncFds :
    /\ fd \in fdSet[d] <=> pending[d][fd] # 0
    /\ InTable(AIO_IX(d, fd)) => (asyncIoTable[AIO_IX(d, fd)].inUse <=> pending[d][fd] # 0)

\* maxFd is never below a descriptor that is waited for, though it falls by one
\* at most when that descriptor is closed.
MaxFdCovers == initialized => \A d \in Directions : \A fd \in fdSet[d] : fd <= maxFd

\* Growing, closing and starting anew, the table, the sets and maxFd agree on what
\* is under way.
AsyncSafe == PendingKept /\ SetsAgree /\ MaxFdCovers

=============================================================================
