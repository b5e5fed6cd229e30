----------------------------- MODULE FcgxAccept -----------------------------
(***************************************************************************)
(* The threads of a FastCGI process that serve one listening socket:       *)
(* FCGX_Accept_r and FCGX_Finish_r (libfcgi/fcgiapp.c) over OS_Accept,     *)
(* OS_Close and the shutdown flag (libfcgi/os_unix.c), each thread with a  *)
(* FCGX_Request of its own, and the descriptors of the process that they   *)
(* share.  What FCGX_Accept_r reads is FcgxReader and what a request       *)
(* writes is FcgxWriter; here a request is read or fails to be, and is     *)
(* served.                                                                 *)
(***************************************************************************)
EXTENDS Integers, Sequences, FiniteSets

CONSTANTS
    Threads,        \* threads running a loop of FCGX_Accept_r
    Conns,          \* connections that web servers may open
    Barred,         \* those whose address is not in FCGI_WEB_SERVER_ADDRS
    Fds,            \* bound: the descriptors the process may have open
    MaxUnread,      \* bound: requests on one connection that nobody has read
    Inet,           \* TRUE: the listening socket is AF_INET, FALSE: AF_UNIX
    FailOnIntr,     \* FCGI_FAIL_ACCEPT_ON_INTR is set in request->flags
    Signals         \* subset of {"shutdown", "other"}: what may come

ASSUME ConstantsAssumption ==
    /\ IsFiniteSet(Threads) /\ IsFiniteSet(Conns) /\ Barred \subseteq Conns
    /\ Fds \subseteq Nat /\ IsFiniteSet(Fds) /\ MaxUnread \in Nat
    /\ {Inet, FailOnIntr} \subseteq BOOLEAN
    /\ Signals \subseteq {"shutdown", "other"}

None == -1
Free == "free"

ASSUME FreeAssumption == Free \notin Conns

VARIABLES
    backlog,            \* connections waiting at the listening socket
    connected,          \* connections opened so far
    sent,               \* requests each server has sent and nobody has read
    holder,             \* what each descriptor of the process refers to
    shutdownPending,
    pc,
    socket,             \* the local variable of OS_Accept
    errno,              \* after a failing accept(2)
    ipcFd,              \* request->ipcFd
    keepConnection,     \* request->keepConnection
    mine,               \* the connection each thread believes it has
    late                \* connections each thread accepted after the shutdown

net == <<backlog, connected, sent>>
vars == <<net, holder, shutdownPending, pc, socket, errno, ipcFd,
          keepConnection, mine, late>>

Locations == {"call", "check", "accept", "test", "read", "serve", "close",
              "failed", "exit"}

-----------------------------------------------------------------------------
(* Web servers and signals.                                                *)

Connect(c) ==
    /\ c \notin connected
    /\ connected' = connected \cup {c}
    /\ backlog' = Append(backlog, c)
    /\ UNCHANGED <<sent, holder, shutdownPending, pc, socket, errno,
                   ipcFd, keepConnection, mine, late>>

Request(c) ==
    /\ c \in connected
    /\ sent[c] < MaxUnread
    /\ sent' = [sent EXCEPT ![c] = @ + 1]
    /\ UNCHANGED <<backlog, connected, holder, shutdownPending, pc, socket,
                   errno, ipcFd, keepConnection, mine, late>>

\* FCGX_ShutdownPending, called, or run by SIGUSR1 in a thread that is not
\* blocked in a system call.
ShutdownPending ==
    /\ "shutdown" \in Signals
    /\ ~shutdownPending
    /\ shutdownPending' = TRUE
    /\ UNCHANGED <<net, holder, pc, socket, errno, ipcFd, keepConnection, mine, late>>

\* SIGUSR1, or a signal that the application handles, in a thread that waits.
Interrupt ==
    /\ \/ "shutdown" \in Signals /\ shutdownPending' = TRUE
       \/ "other" \in Signals /\ UNCHANGED shutdownPending
    /\ UNCHANGED <<net, holder, ipcFd, keepConnection, mine, late>>

SignalAccept(t) ==
    /\ pc[t] = "accept"
    /\ backlog = <<>>
    /\ Interrupt
    /\ socket' = [socket EXCEPT ![t] = None]
    /\ errno' = [errno EXCEPT ![t] = "EINTR"]
    /\ pc' = [pc EXCEPT ![t] = "test"]

SignalRead(t) ==
    /\ pc[t] = "read"
    /\ Interrupt
    /\ pc' = [pc EXCEPT ![t] = "close"]
    /\ UNCHANGED <<socket, errno>>

-----------------------------------------------------------------------------
(* OS_Accept.                                                              *)

\* Mutant of CheckShutdown: the flag is not tested.
NoCheck(t) ==
    /\ pc[t] = "check"
    /\ pc' = [pc EXCEPT ![t] = "accept"]
    /\ UNCHANGED <<net, holder, shutdownPending, socket, errno, ipcFd,
                   keepConnection, mine, late>>

\* if (shutdownPending) break; leaves socket as the last pass left it.
CheckShutdown(t) ==
    /\ pc[t] = "check"
    /\ pc' = [pc EXCEPT ![t] = IF shutdownPending THEN "test" ELSE "accept"]
    /\ UNCHANGED <<net, holder, shutdownPending, socket, errno, ipcFd,
                   keepConnection, mine, late>>

Available == {f \in Fds : holder[f] = Free}

\* accept(2) gives the lowest free descriptor.
AcceptConn(t) ==
    /\ pc[t] = "accept"
    /\ backlog # <<>>
    /\ \E f \in Available :
        /\ \A g \in Available : f <= g
        /\ holder' = [holder EXCEPT ![f] = Head(backlog)]
        /\ socket' = [socket EXCEPT ![t] = f]
    /\ mine' = [mine EXCEPT ![t] = Head(backlog)]
    /\ backlog' = Tail(backlog)
    /\ late' = [late EXCEPT ![t] = IF shutdownPending THEN @ + 1 ELSE @]
    /\ pc' = [pc EXCEPT ![t] = "test"]
    /\ UNCHANGED <<connected, sent, shutdownPending, errno, ipcFd, keepConnection>>

\* EMFILE at the limit of descriptors; ECONNABORTED, a "reasonable" error.
AcceptFails(t) ==
    /\ pc[t] = "accept"
    /\ \/ /\ Available = {}
          /\ errno' = [errno EXCEPT ![t] = "EMFILE"] /\ UNCHANGED backlog
       \/ /\ Available # {} /\ backlog # <<>>
          /\ errno' = [errno EXCEPT ![t] = "ECONNABORTED"] /\ backlog' = Tail(backlog)
    /\ socket' = [socket EXCEPT ![t] = None]
    /\ pc' = [pc EXCEPT ![t] = "test"]
    /\ UNCHANGED <<connected, sent, holder, shutdownPending, ipcFd,
                   keepConnection, mine, late>>

\* Mutant of TestRetry: shutdownPending is not tested.
AlwaysRetry(t) ==
    /\ pc[t] = "test"
    /\ socket[t] = None
    /\ (errno[t] = "EINTR" /\ ~FailOnIntr) \/ errno[t] = "ECONNABORTED"
    /\ pc' = [pc EXCEPT ![t] = "check"]
    /\ UNCHANGED <<net, holder, shutdownPending, socket, errno, ipcFd,
                   keepConnection, mine, late>>

\* accept(2) is called again, with or without errors it calls reasonable.
TestRetry(t) ==
    /\ pc[t] = "test"
    /\ socket[t] = None
    /\ ~shutdownPending
    /\ (errno[t] = "EINTR" /\ ~FailOnIntr) \/ errno[t] = "ECONNABORTED"
    /\ pc' = [pc EXCEPT ![t] = "check"]
    /\ UNCHANGED <<net, holder, shutdownPending, socket, errno, ipcFd,
                   keepConnection, mine, late>>

\* OS_Accept returns -1 and FCGX_Accept_r a negative number other than -1.
TestError(t) ==
    /\ pc[t] = "test"
    /\ socket[t] = None
    /\ \/ shutdownPending
       \/ errno[t] = "EINTR" /\ FailOnIntr
       \/ errno[t] \notin {"EINTR", "ECONNABORTED"}
    /\ pc' = [pc EXCEPT ![t] = "failed"]
    /\ UNCHANGED <<net, holder, shutdownPending, socket, errno, ipcFd,
                   keepConnection, mine, late>>

ClientAddrOK(t) == mine[t] \notin Barred

\* The connection becomes request->ipcFd.
TestOK(t) ==
    /\ pc[t] = "test"
    /\ socket[t] # None
    /\ ~Inet \/ ClientAddrOK(t)
    /\ ipcFd' = [ipcFd EXCEPT ![t] = socket[t]]
    /\ pc' = [pc EXCEPT ![t] = "read"]
    /\ UNCHANGED <<net, holder, shutdownPending, socket, errno, keepConnection,
                   mine, late>>

\* Mutant of TestReject: the descriptor stays open.
LeakingReject(t) ==
    /\ pc[t] = "test"
    /\ socket[t] # None
    /\ Inet /\ ~ClientAddrOK(t)
    /\ pc' = [pc EXCEPT ![t] = "check"]
    /\ UNCHANGED <<net, holder, shutdownPending, socket, errno, ipcFd, keepConnection,
                   mine, late>>

\* close(socket) of a client that is not allowed; socket keeps its value.
TestReject(t) ==
    /\ pc[t] = "test"
    /\ socket[t] # None
    /\ Inet /\ ~ClientAddrOK(t)
    /\ holder' = [holder EXCEPT ![socket[t]] = Free]
    /\ pc' = [pc EXCEPT ![t] = "check"]
    /\ UNCHANGED <<net, shutdownPending, socket, errno, ipcFd, keepConnection,
                   mine, late>>

-----------------------------------------------------------------------------
(* FCGX_Accept_r, the application and FCGX_Finish_r.                       *)

\* With the connection of the last request still open, OS_Accept is not called.
Call(t) ==
    /\ pc[t] = "call"
    /\ pc' = [pc EXCEPT ![t] = IF ipcFd[t] = None THEN "check" ELSE "read"]
    /\ socket' = [socket EXCEPT ![t] = None]
    /\ UNCHANGED <<net, holder, shutdownPending, errno, ipcFd, keepConnection,
                   mine, late>>

\* Mutant of ReadRequest: what has not been sent is taken for a request.
UnsentRequest(t) ==
    /\ pc[t] = "read"
    /\ holder[ipcFd[t]] # Free
    /\ sent' = [sent EXCEPT ![holder[ipcFd[t]]] = @ - 1]
    /\ keepConnection' \in {[keepConnection EXCEPT ![t] = k] : k \in BOOLEAN}
    /\ pc' = [pc EXCEPT ![t] = "serve"]
    /\ UNCHANGED <<backlog, connected, holder, shutdownPending, socket,
                   errno, ipcFd, mine, late>>

\* A request is read from whatever the descriptor refers to.
ReadRequest(t) ==
    /\ pc[t] = "read"
    /\ holder[ipcFd[t]] # Free
    /\ sent[holder[ipcFd[t]]] > 0
    /\ sent' = [sent EXCEPT ![holder[ipcFd[t]]] = @ - 1]
    /\ keepConnection' \in {[keepConnection EXCEPT ![t] = k] : k \in BOOLEAN}
    /\ pc' = [pc EXCEPT ![t] = "serve"]
    /\ UNCHANGED <<backlog, connected, holder, shutdownPending, socket,
                   errno, ipcFd, mine, late>>

\* Mutant of ReadFails: there is no receive timeout.
PatientRead(t) ==
    /\ pc[t] = "read"
    /\ UNCHANGED vars

\* An error, a timeout or the end of the connection; TryAgain.
ReadFails(t) ==
    /\ pc[t] = "read"
    /\ pc' = [pc EXCEPT ![t] = "close"]
    /\ UNCHANGED <<net, holder, shutdownPending, socket, errno, ipcFd,
                   keepConnection, mine, late>>

\* Mutant of CloseConn: ipcFd keeps its value.
StaleCloseConn(t) ==
    /\ holder' = [holder EXCEPT ![ipcFd[t]] = Free]
    /\ sent' = IF holder[ipcFd[t]] = Free THEN sent
               ELSE [sent EXCEPT ![holder[ipcFd[t]]] = 0]
    /\ UNCHANGED ipcFd

\* FCGX_Free(reqDataPtr, 1) with OS_Close, which drains what was sent; then
\* FCGX_Accept_r goes back to OS_Accept.
CloseConn(t) ==
    /\ holder' = [holder EXCEPT ![ipcFd[t]] = Free]
    /\ sent' = IF holder[ipcFd[t]] = Free THEN sent
               ELSE [sent EXCEPT ![holder[ipcFd[t]]] = 0]
    /\ ipcFd' = [ipcFd EXCEPT ![t] = None]

TryAgain(t) ==
    /\ pc[t] = "close"
    /\ CloseConn(t)
    /\ socket' = [socket EXCEPT ![t] = None]
    /\ pc' = [pc EXCEPT ![t] = "check"]
    /\ UNCHANGED <<backlog, connected, shutdownPending, errno,
                   keepConnection, mine, late>>

\* FCGX_Finish_r; a write error closes the connection too.
Finish(t) ==
    /\ pc[t] = "serve"
    /\ \/ keepConnection[t] /\ UNCHANGED <<holder, sent, ipcFd>>
       \/ CloseConn(t)
    /\ pc' = [pc EXCEPT ![t] = "call"]
    /\ UNCHANGED <<backlog, connected, shutdownPending, socket, errno,
                   keepConnection, mine, late>>

\* The loop of the application ends at a negative result.
Failed(t) ==
    /\ pc[t] = "failed"
    /\ pc' = [pc EXCEPT ![t] = "exit"]
    /\ UNCHANGED <<net, holder, shutdownPending, socket, errno, ipcFd,
                   keepConnection, mine, late>>

-----------------------------------------------------------------------------

Init ==
    /\ backlog = <<>> /\ connected = {}
    /\ sent = [c \in Conns |-> 0]
    /\ holder = [f \in Fds |-> Free]
    /\ shutdownPending = FALSE
    /\ pc = [t \in Threads |-> "call"]
    /\ socket = [t \in Threads |-> None] /\ errno = [t \in Threads |-> "none"]
    /\ ipcFd = [t \in Threads |-> None]
    /\ keepConnection = [t \in Threads |-> FALSE]
    /\ mine = [t \in Threads |-> Free]
    /\ late = [t \in Threads |-> 0]

OS_Accept(t) ==
    \/ CheckShutdown(t) \/ AcceptConn(t) \/ AcceptFails(t) \/ TestRetry(t)
    \/ TestError(t) \/ TestOK(t) \/ TestReject(t)

Thread(t) == \/ OS_Accept(t) \/ Call(t) \/ ReadRequest(t) \/ ReadFails(t)
             \/ TryAgain(t) \/ Finish(t) \/ Failed(t)

Environment == \/ ShutdownPending
               \/ \E c \in Conns : Connect(c) \/ Request(c)
               \/ \E t \in Threads : SignalAccept(t) \/ SignalRead(t)

\* All threads have left, or wait for connections that nobody opens.
Quiet ==
    /\ \A t \in Threads : pc[t] = "exit" \/ (pc[t] = "accept" /\ backlog = <<>>)
    /\ UNCHANGED vars

Next == (\E t \in Threads : Thread(t)) \/ Environment \/ Quiet

Spec == Init /\ [][Next]_vars

\* Threads are scheduled and applications finish what they serve.
FairSpec == Spec /\ \A t \in Threads : WF_vars(Thread(t))

-----------------------------------------------------------------------------
(* Properties.                                                             *)

\* Every variable has its type.
TypeOK ==
    /\ backlog \in Seq(Conns) /\ connected \subseteq Conns
    /\ sent \in [Conns -> 0..MaxUnread]
    /\ holder \in [Fds -> Conns \cup {Free}]
    /\ shutdownPending \in BOOLEAN
    /\ pc \in [Threads -> Locations]
    /\ socket \in [Threads -> Fds \cup {None}]
    /\ errno \in [Threads -> {"none", "EINTR", "ECONNABORTED", "EMFILE"}]
    /\ ipcFd \in [Threads -> Fds \cup {None}]
    /\ keepConnection \in [Threads -> BOOLEAN]
    /\ mine \in [Threads -> Conns \cup {Free}]
    /\ late \in [Threads -> Nat]

\* The descriptor a thread reads, serves and closes is open and is that of the
\* connection it accepted: no thread closes or takes over another's.
OwnDescriptor == \A t \in Threads :
    pc[t] \in {"read", "serve", "close"} => ipcFd[t] \in Fds /\ holder[ipcFd[t]] = mine[t]

\* Every open connection belongs to a thread that will close it.
NoLeak == \A f \in Fds : holder[f] # Free =>
    \E t \in Threads : ipcFd[t] = f \/ (socket[t] = f /\ pc[t] = "test")

\* A thread accepts at most one connection after the shutdown was requested.
AtMostOneLate == \A t \in Threads : late[t] <= 1

Waiting(c) == \E i \in DOMAIN backlog : backlog[i] = c

\* A thread is taken up for good: it has left its loop, or its server keeps the
\* connection and sends one request after the other without end, so that
\* FCGX_Accept_r never calls OS_Accept for it.
TakenUp(t) == \/ <>[](pc[t] = "exit")
              \/ <>[](ipcFd[t] # None) /\ []<>(pc[t] = "serve")

\* A connection that waits is accepted, or dropped by the network, unless a shutdown
\* comes or every thread is taken up for good: one that is idle on a kept connection
\* gives it up, and a client that is not allowed holds nobody up.
BacklogDrains == (\E t \in Threads : ~TakenUp(t)) =>
    \A c \in Conns : Waiting(c) ~> (~Waiting(c) \/ shutdownPending)

\* A thread that is past accept(2) when a shutdown comes leaves OS_Accept.
LeavesAccept == \A t \in Threads :
    (shutdownPending /\ pc[t] \in {"check", "test"}) ~> (pc[t] \notin {"check", "test"})

=============================================================================
