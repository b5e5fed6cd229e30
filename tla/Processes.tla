------------------------------ MODULE Processes ------------------------------
(***************************************************************************)
(* The descriptors of the processes of a FastCGI application: listening    *)
(* sockets made by FCGX_OpenSocket and OS_CreateLocalIpcFd, connections    *)
(* made by OS_FcgiConnect, the children that OS_SpawnChild starts on a     *)
(* listening socket, and how FCGX_IsCGI tells a FastCGI process, from what *)
(* its descriptor 0 is.  A descriptor is the lowest number that is free.   *)
(***************************************************************************)
EXTENDS Integers, FiniteSets, FiniteSetsExt

CONSTANTS
    Parent, Children,
    MaxFd,          \* bound: the highest descriptor of a process
    MaxSockets,     \* bound: sockets made
    MaxCloses       \* bound: descriptors closed by the applications

ASSUME ProcessesAssumption ==
    /\ Parent \notin Children
    /\ MaxFd \in Nat /\ MaxFd >= 2 /\ {MaxSockets, MaxCloses} \subseteq Nat

Procs == Children \cup {Parent}
Fds == 0..MaxFd
Stdin == 0
FCGI_LISTENSOCK_FILENO == 0

\* What a bindPath may be: a path, one too long for sun_path, and host:port where
\* the host is empty, "*", or a name that does not resolve to one address.
Addresses == {"path", "long", ":port", "*:port", "nohost:port"}

\* The name a socket is bound to.
Place(a) == IF a \in {":port", "*:port"} THEN "port" ELSE a

\* What is open: a file of the system, or socket number nr.
File == [kind |-> "file", nr |-> 0]
Closed == [kind |-> "none", nr |-> 0]
Sockets(kind) == {[kind |-> kind, nr |-> i] : i \in 1..MaxSockets}
Open == {File} \cup Sockets("listener") \cup Sockets("connection")

VARIABLES
    fds,            \* the descriptors of each process
    state,          \* "unused" | "runs" | "exited"
    isFastCGI,      \* of each process: -1 | 0 | 1
    bound,          \* the listening socket at each name, 0 for none
    sockets, closes,
    known,          \* the descriptors the application has been given or began with
    inherited       \* of each child: the socket OS_SpawnChild moved to descriptor 0 for it

processesVars == <<fds, state, isFastCGI, bound, sockets, closes, known, inherited>>

Runs(p) == state[p] = "runs"
Free(p) == {f \in Fds : fds[p][f] = Closed}
Lowest(p) == Min(Free(p))
Empty == [f \in Fds |-> Closed]
Listener(i) == [kind |-> "listener", nr |-> i]
Listens(i) == \E p \in Procs, f \in Fds : fds[p][f] = Listener(i)

Exit(p) == /\ state' = [state EXCEPT ![p] = "exited"]
           /\ fds' = [fds EXCEPT ![p] = Empty]
           /\ known' = [known EXCEPT ![p] = {}]

Gives(p, f) == known' = [known EXCEPT ![p] = @ \cup {f}]

-----------------------------------------------------------------------------

\* A name of a socket: a file is unlinked first, a port that is in use is an error.
Bindable(a) == CASE a = "path" -> TRUE
                 [] Place(a) = "port" -> bound["port"] = 0 \/ ~Listens(bound["port"])
                 [] OTHER -> FALSE

\* FCGX_OpenSocket; OS_CreateLocalIpcFd: socket, bind, listen.
OpenSocket(p, a) ==
    /\ Runs(p) /\ sockets < MaxSockets /\ Free(p) # {} /\ Bindable(a)
    /\ sockets' = sockets + 1
    /\ fds' = [fds EXCEPT ![p][Lowest(p)] = Listener(sockets')]
    /\ bound' = [bound EXCEPT ![Place(a)] = sockets']
    /\ Gives(p, Lowest(p))
    /\ isFastCGI' = IF Lowest(p) = FCGI_LISTENSOCK_FILENO /\ isFastCGI[p] = 0
                    THEN [isFastCGI EXCEPT ![p] = 1] ELSE isFastCGI
    /\ UNCHANGED <<state, closes, inherited>>

\* The path is too long, the host does not resolve, or bind or listen fails: the
\* process exits; without a descriptor for a socket of a path or port, it is -1.
OpenSocketFails(p, a) ==
    /\ Runs(p) /\ ~Bindable(a)
    /\ a = "nohost:port" \/ Free(p) # {}
    /\ Exit(p)
    /\ UNCHANGED <<isFastCGI, bound, sockets, closes, inherited>>

Reaches(a) == a \in {"path", ":port"} /\ bound[Place(a)] # 0 /\ Listens(bound[Place(a)])

\* OS_FcgiConnect.
FcgiConnect(p, a) ==
    /\ Runs(p) /\ sockets < MaxSockets /\ Free(p) # {} /\ Reaches(a)
    /\ sockets' = sockets + 1
    /\ fds' = [fds EXCEPT ![p][Lowest(p)] = [kind |-> "connection", nr |-> sockets']]
    /\ Gives(p, Lowest(p))
    /\ UNCHANGED <<state, isFastCGI, bound, closes, inherited>>

\* connect fails, nobody listens: the socket is closed again.
ConnectRefused(p, a) ==
    /\ Runs(p) /\ sockets < MaxSockets /\ Free(p) # {} /\ a \in {"path", ":port"} /\ ~Reaches(a)
    /\ sockets' = sockets + 1
    /\ UNCHANGED <<fds, state, isFastCGI, bound, closes, known, inherited>>

\* The path is too long, or the host of the port is not found ("*" is no host to
\* connect to); or there is no descriptor for the socket, which is asserted.
ConnectExits(p, a) ==
    /\ Runs(p)
    /\ a \in {"long", "*:port", "nohost:port"} \/ Free(p) = {}
    /\ Exit(p)
    /\ UNCHANGED <<isFastCGI, bound, sockets, closes, inherited>>

\* Mutant of ChildFds: 1 and 2 are closed before the listening socket is moved.
LateChildFds(table, listenFd) ==
    LET closed == [f \in Fds |-> IF f <= 2 THEN Closed ELSE table[f]]
    IN  IF listenFd = FCGI_LISTENSOCK_FILENO THEN closed
        ELSE [closed EXCEPT ![FCGI_LISTENSOCK_FILENO] = closed[listenFd], ![listenFd] = Closed]

\* What the child of OS_SpawnChild has open at execl: descriptor 0 is closed, the
\* listening socket moved there unless it had that number, 1 and 2 closed.
ChildFds(table, listenFd) ==
    LET stdinClosed == [table EXCEPT ![Stdin] = Closed]
        moved == IF listenFd = FCGI_LISTENSOCK_FILENO THEN stdinClosed
                 ELSE [stdinClosed EXCEPT ![FCGI_LISTENSOCK_FILENO] = table[listenFd],
                                          ![listenFd] = Closed]
    IN  [moved EXCEPT ![1] = Closed, ![2] = Closed]

\* OS_SpawnChild, given a listening socket; one that is descriptor 0 is closed and
\* not moved.  If execl fails the child is gone.
SpawnChild(p, c, listenFd) ==
    /\ Runs(p) /\ state[c] = "unused"
    /\ fds[p][listenFd].kind = "listener"
    /\ \/ /\ state' = [state EXCEPT ![c] = "runs"]
          /\ fds' = [fds EXCEPT ![c] = ChildFds(fds[p], listenFd)]
          /\ known' = [known EXCEPT ![c] = {f \in Fds : fds'[c][f] # Closed}]
          /\ inherited' = [inherited EXCEPT ![c] = IF listenFd = Stdin THEN Closed ELSE fds[p][listenFd]]
       \/ /\ state' = [state EXCEPT ![c] = "exited"]
          /\ UNCHANGED <<fds, known, inherited>>
    /\ UNCHANGED <<isFastCGI, bound, sockets, closes>>

\* fork fails: OS_SpawnChild ends the parent.
ForkFails(p) ==
    /\ Runs(p)
    /\ \E f \in Fds : fds[p][f].kind = "listener"
    /\ Exit(p)
    /\ UNCHANGED <<isFastCGI, bound, sockets, closes, inherited>>

\* OS_IsFcgi: getpeername fails with ENOTCONN.
IsFcgi(p, f) == fds[p][f].kind = "listener"

\* FCGX_IsCGI, the first time: after that isFastCGI is the answer.
IsCGI(p) ==
    /\ Runs(p) /\ isFastCGI[p] = -1
    /\ isFastCGI' = [isFastCGI EXCEPT ![p] = IF IsFcgi(p, FCGI_LISTENSOCK_FILENO) THEN 1 ELSE 0]
    /\ UNCHANGED <<fds, state, bound, sockets, closes, known, inherited>>

\* The application closes what it has been given, but not the socket it serves.
CloseFd(p, f) ==
    /\ Runs(p) /\ closes < MaxCloses
    /\ f \in known[p]
    /\ f = FCGI_LISTENSOCK_FILENO => isFastCGI[p] # 1 /\ fds[p][f] # inherited[p]
    /\ closes' = closes + 1
    /\ fds' = [fds EXCEPT ![p][f] = Closed]
    /\ known' = [known EXCEPT ![p] = @ \ {f}]
    /\ UNCHANGED <<state, isFastCGI, bound, sockets, inherited>>

\* No process runs, or nothing is left to do within the bounds.
DoNothing == UNCHANGED processesVars

-----------------------------------------------------------------------------

\* The parent begins with any of its standard files closed.
ProcessesInit ==
    /\ \E given \in SUBSET (0..2) :
           /\ fds = [p \in Procs |-> IF p = Parent
                                     THEN [f \in Fds |-> IF f \in given THEN File ELSE Closed]
                                     ELSE Empty]
           /\ known = [p \in Procs |-> IF p = Parent THEN given ELSE {}]
    /\ state = [p \in Procs |-> IF p = Parent THEN "runs" ELSE "unused"]
    /\ isFastCGI = [p \in Procs |-> -1]
    /\ bound = [a \in {"path", "port"} |-> 0]
    /\ sockets = 0 /\ closes = 0
    /\ inherited = [p \in Procs |-> Closed]

ProcessesNext ==
    \/ \E p \in Procs :
        \/ IsCGI(p) \/ ForkFails(p)
        \/ \E f \in Fds : CloseFd(p, f) \/ \E c \in Children : SpawnChild(p, c, f)
        \/ \E a \in Addresses : \/ OpenSocket(p, a) \/ OpenSocketFails(p, a)
                                \/ FcgiConnect(p, a) \/ ConnectRefused(p, a) \/ ConnectExits(p, a)
    \/ DoNothing

ProcessesSpec == ProcessesInit /\ [][ProcessesNext]_processesVars

-----------------------------------------------------------------------------
(* Properties.                                                             *)

ProcessesTypeOK ==
    /\ fds \in [Procs -> [Fds -> Open \cup {Closed}]]
    /\ state \in [Procs -> {"unused", "runs", "exited"}]
    /\ isFastCGI \in [Procs -> {-1, 0, 1}]
    /\ bound \in [{"path", "port"} -> 0..MaxSockets]
    /\ sockets \in 0..MaxSockets /\ closes \in 0..MaxCloses
    /\ known \in [Procs -> SUBSET Fds]
    /\ inherited \in [Procs -> Sockets("listener") \cup {Closed}]

\* A child that OS_SpawnChild started finds the listening socket it was started
\* for as descriptor 0, whatever its number in the parent and whichever of the
\* parent's standard files were closed; and it is told that it is FastCGI.  Not so
\* a child started on descriptor 0, which OS_SpawnChild closes (os_unix.c:526).
ChildListens == \A c \in Children : Runs(c) /\ inherited[c] # Closed =>
    /\ fds[c][FCGI_LISTENSOCK_FILENO] = inherited[c]
    /\ isFastCGI[c] # 0

\* A child has the socket it was started for once, as descriptor 0: no second
\* descriptor keeps it listening when the child closes that one.
HeldOnce == \A c \in Children : Runs(c) =>
    \A f \in Fds \ {FCGI_LISTENSOCK_FILENO} : fds[c][f] = Closed \/ fds[c][f] # inherited[c]

\* What FCGX_IsCGI found and keeps stays true, though FCGX_OpenSocket, closes and
\* connections change what descriptor 0 is.
CacheTrue == \A p \in Procs : Runs(p) /\ isFastCGI[p] # -1 =>
    (isFastCGI[p] = 1 <=> fds[p][FCGI_LISTENSOCK_FILENO].kind = "listener")

\* No call leaves a descriptor open that the application does not know of.
NoStrayFd == \A p \in Procs : known[p] = {f \in Fds : fds[p][f] # Closed}

\* Whoever opens, connects, closes and spawns, a child has its socket, once and as
\* descriptor 0, and every process knows what it has open.
ProcessesSafe == ChildListens /\ HeldOnce /\ CacheTrue /\ NoStrayFd

=============================================================================
